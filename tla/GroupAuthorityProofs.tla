------------------------ MODULE GroupAuthorityProofs ------------------------
(***************************************************************************)
(* Proofs about module GroupAuthority, for any set of devices and any      *)
(* number of requests and faults.                                          *)
(***************************************************************************)
EXTENDS GroupAuthority, FiniteSetTheorems, TLAPS

Entry(t, x, by) == [type |-> t, device |-> x, actor |-> by]

\* What a message says is in the log of the device that signed it.
Backed(st, m) ==
    /\ m.type = "joined" /\ m.approved =>
          /\ Entry("issued", m.device, m.by) \in st[m.by].audit
          /\ Entry("created", m.by, m.by) \in st[m.by].audit
    /\ m.type = "left" /\ m.approved =>
          Entry("revoked", m.device, m.by) \in st[m.by].audit
    /\ m.type = "revoke" => Entry("revoked", m.device, m.by) \in st[m.by].audit

MessagesAreBacked ==
    \A d, e \in Devices : \A i \in 1..Len(chan[d][e]) : Backed(store, chan[d][e][i])

\* A device that can act as an admin has founded the group: the admins are not
\* replicated, so nobody else finds itself among them.
AdminHasFounded ==
    \A d \in Devices : IsAdmin(store[d], d) => Entry("created", d, d) \in store[d].audit

\* A device that knows no group knows no admin and no member either.
NoGroupNoRow ==
    \A d, x \in Devices : store[d].founder = None =>
        store[d].admin[x] = "none" /\ store[d].member[x] = "none"

GInv ==
    /\ GTypeOK /\ AlwaysAnAdmin /\ AttributionHolds /\ MessagesAreBacked
    /\ AdminHasFounded /\ NoGroupNoRow

\* Nothing comes back.
Stays ==
    \A d, x \in Devices :
        /\ store[d].member[x] = "revoked" => store'[d].member[x] = "revoked"
        /\ store[d].admin[x] = "removed" => store'[d].admin[x] = "removed"

\* s may follow the tables of d.
Good(d, s) ==
    /\ s \in Store
    /\ store[d].audit \subseteq s.audit
    /\ s.founder # None => \E x \in Devices : IsAdmin(s, x)
    /\ s.founder = None => \A x \in Devices : s.admin[x] = "none" /\ s.member[x] = "none"
    /\ \A e \in s.audit :
          e \in store[d].audit \/ e.actor = d \/ e \in store[e.actor].audit
    /\ IsAdmin(s, d) => Entry("created", d, d) \in s.audit
    /\ \A x \in Devices :
          /\ store[d].member[x] = "revoked" => s.member[x] = "revoked"
          /\ store[d].admin[x] = "removed" => s.admin[x] = "removed"

Kinds == {"created", "issued", "revoked", "added", "removed", "policy"}

LEMMA KindsType ==
    /\ "created" \in Kinds /\ "issued" \in Kinds /\ "revoked" \in Kinds
    /\ "added" \in Kinds /\ "removed" \in Kinds /\ "policy" \in Kinds
  BY DEF Kinds

LEMMA EntryType ==
    ASSUME NEW x \in Devices, NEW by \in Devices,
           NEW t \in Kinds
    PROVE  Entry(t, x, by) \in GEvent /\ Entry(t, x, by).actor = by
  BY DEF Entry, GEvent, Kinds

\* What Audited() adds.
AuditChange(s, t, x, by) ==
    /\ Audited(s, t, x, by) \in Store
    /\ Audited(s, t, x, by).founder = s.founder
    /\ Audited(s, t, x, by).admin = s.admin
    /\ Audited(s, t, x, by).member = s.member
    /\ Audited(s, t, x, by).audit = s.audit \cup {Entry(t, x, by)}

LEMMA AuditedFields ==
    ASSUME NEW s \in Store, NEW x \in Devices, NEW by \in Devices,
           NEW t \in Kinds
    PROVE  AuditChange(s, t, x, by)
  <1> DEFINE a == s.audit \cup {Entry(t, x, by)}
  <1>1. Audited(s, t, x, by) = [s EXCEPT !.audit = a]
    BY DEF Audited, Entry, Store
  <1>2. a \in SUBSET GEvent
    BY EntryType DEF Store
  <1> HIDE DEF a
  <1>3. /\ [s EXCEPT !.audit = a] \in Store
        /\ [s EXCEPT !.audit = a].founder = s.founder
        /\ [s EXCEPT !.audit = a].admin = s.admin
        /\ [s EXCEPT !.audit = a].member = s.member
        /\ [s EXCEPT !.audit = a].audit = a
    BY <1>2 DEF Store
  <1> QED BY <1>1, <1>3 DEF a, AuditChange

\* What record_membership() and _mark_membership_revoked() change.
MemberChange(s, x, by) ==
    /\ Recorded(s, x, by) \in Store
    /\ Recorded(s, x, by).founder = s.founder
    /\ Recorded(s, x, by).admin = s.admin
    /\ Recorded(s, x, by).member = [s.member EXCEPT ![x] = "active"]
    /\ Recorded(s, x, by).audit = s.audit \cup {Entry("issued", x, by)}
    /\ Marked(s, x, by) \in Store
    /\ Marked(s, x, by).founder = s.founder
    /\ Marked(s, x, by).admin = s.admin
    /\ Marked(s, x, by).member = [s.member EXCEPT ![x] = "revoked"]
    /\ Marked(s, x, by).audit = s.audit \cup {Entry("revoked", x, by)}

LEMMA MemberFields ==
    ASSUME NEW s \in Store, NEW x \in Devices, NEW by \in Devices
    PROVE  MemberChange(s, x, by)
  <1>1. ASSUME NEW k \in {"active", "revoked"}
        PROVE  LET u == [s EXCEPT !.member[x] = k]
               IN  /\ u \in Store /\ u.founder = s.founder /\ u.admin = s.admin
                   /\ u.member = [s.member EXCEPT ![x] = k] /\ u.audit = s.audit
    <2> DEFINE f == [s.member EXCEPT ![x] = k]
    <2>1. f \in [Devices -> {"none", "active", "revoked"}]
      BY DEF Store
    <2>2. [s EXCEPT !.member[x] = k] = [s EXCEPT !.member = f]
      BY DEF Store
    <2> HIDE DEF f
    <2>3. LET u == [s EXCEPT !.member = f]
          IN  /\ u \in Store /\ u.founder = s.founder /\ u.admin = s.admin
              /\ u.member = f /\ u.audit = s.audit
      BY <2>1 DEF Store
    <2> QED BY <2>2, <2>3 DEF f
  <1> DEFINE u == [s EXCEPT !.member[x] = "active"]
             v == [s EXCEPT !.member[x] = "revoked"]
  <1>2. /\ u \in Store /\ u.founder = s.founder /\ u.admin = s.admin
        /\ u.member = [s.member EXCEPT ![x] = "active"] /\ u.audit = s.audit
        /\ v \in Store /\ v.founder = s.founder /\ v.admin = s.admin
        /\ v.member = [s.member EXCEPT ![x] = "revoked"] /\ v.audit = s.audit
    BY <1>1
  <1>3. Recorded(s, x, by) = Audited(u, "issued", x, by)
    BY DEF Recorded
  <1>4. Marked(s, x, by) = Audited(v, "revoked", x, by)
    BY DEF Marked
  <1>7. u \in Store /\ v \in Store
    BY <1>2
  <1> HIDE DEF u, v
  <1>8. "issued" \in Kinds /\ "revoked" \in Kinds
    BY KindsType
  <1>5. AuditChange(u, "issued", x, by)
    BY <1>7, <1>8, AuditedFields
  <1>6. AuditChange(v, "revoked", x, by)
    BY <1>7, <1>8, AuditedFields
  <1> QED BY <1>2, <1>3, <1>4, <1>5, <1>6 DEF MemberChange, AuditChange

\* What add_admin(), remove_admin(), create_group() and set_policy() change.
AdminChange(s, x, by) ==
    /\ Added(s, x, by) \in Store
    /\ Added(s, x, by).founder = s.founder
    /\ Added(s, x, by).admin = [s.admin EXCEPT ![x] = "active"]
    /\ Added(s, x, by).member = s.member
    /\ Added(s, x, by).audit = s.audit \cup {Entry("added", x, by)}
    /\ Removed(s, x, by) \in Store
    /\ Removed(s, x, by).founder = s.founder
    /\ Removed(s, x, by).admin = [s.admin EXCEPT ![x] = "removed"]
    /\ Removed(s, x, by).member = s.member
    /\ Removed(s, x, by).audit = s.audit \cup {Entry("removed", x, by)}

LEMMA AdminFields ==
    ASSUME NEW s \in Store, NEW x \in Devices, NEW by \in Devices
    PROVE  AdminChange(s, x, by)
  <1>1. ASSUME NEW k \in {"active", "removed"}
        PROVE  LET u == [s EXCEPT !.admin[x] = k]
               IN  /\ u \in Store /\ u.founder = s.founder /\ u.member = s.member
                   /\ u.admin = [s.admin EXCEPT ![x] = k] /\ u.audit = s.audit
    <2> DEFINE f == [s.admin EXCEPT ![x] = k]
    <2>1. f \in [Devices -> {"none", "active", "removed"}]
      BY DEF Store
    <2>2. [s EXCEPT !.admin[x] = k] = [s EXCEPT !.admin = f]
      BY DEF Store
    <2> HIDE DEF f
    <2>3. LET u == [s EXCEPT !.admin = f]
          IN  /\ u \in Store /\ u.founder = s.founder /\ u.member = s.member
              /\ u.admin = f /\ u.audit = s.audit
      BY <2>1 DEF Store
    <2> QED BY <2>2, <2>3 DEF f
  <1> DEFINE u == [s EXCEPT !.admin[x] = "active"]
             v == [s EXCEPT !.admin[x] = "removed"]
  <1>2. /\ u \in Store /\ u.founder = s.founder /\ u.member = s.member
        /\ u.admin = [s.admin EXCEPT ![x] = "active"] /\ u.audit = s.audit
        /\ v \in Store /\ v.founder = s.founder /\ v.member = s.member
        /\ v.admin = [s.admin EXCEPT ![x] = "removed"] /\ v.audit = s.audit
    BY <1>1
  <1>3. Added(s, x, by) = Audited(u, "added", x, by)
    BY DEF Added
  <1>4. Removed(s, x, by) = Audited(v, "removed", x, by)
    BY DEF Removed
  <1>7. u \in Store /\ v \in Store
    BY <1>2
  <1> HIDE DEF u, v
  <1>8. "added" \in Kinds /\ "removed" \in Kinds
    BY KindsType
  <1>5. AuditChange(u, "added", x, by)
    BY <1>7, <1>8, AuditedFields
  <1>6. AuditChange(v, "removed", x, by)
    BY <1>7, <1>8, AuditedFields
  <1> QED BY <1>2, <1>3, <1>4, <1>5, <1>6 DEF AdminChange, AuditChange

GroupChange(s, f, on) ==
    /\ CreatedGroup(s, f) \in Store
    /\ CreatedGroup(s, f).founder = f
    /\ CreatedGroup(s, f).admin = [s.admin EXCEPT ![f] = "active"]
    /\ CreatedGroup(s, f).member = s.member
    /\ CreatedGroup(s, f).audit = s.audit \cup {Entry("created", f, f)}
    /\ PolicySet(s, on, f) \in Store
    /\ PolicySet(s, on, f).founder = s.founder
    /\ PolicySet(s, on, f).admin = s.admin
    /\ PolicySet(s, on, f).member = s.member
    /\ PolicySet(s, on, f).audit = s.audit \cup {Entry("policy", f, f)}

LEMMA GroupFields ==
    ASSUME NEW s \in Store, NEW f \in Devices, NEW on \in BOOLEAN
    PROVE  GroupChange(s, f, on)
  <1> DEFINE g == [s.admin EXCEPT ![f] = "active"]
             u == [s EXCEPT !.founder = f, !.admin[f] = "active"]
             v == [s EXCEPT !.leaveAdmin = on]
  <1>1. /\ g \in [Devices -> {"none", "active", "removed"}]
        /\ u = [s EXCEPT !.founder = f, !.admin = g]
    BY DEF Store
  <1>2. /\ u \in Store /\ u.founder = f /\ u.member = s.member
        /\ u.admin = g /\ u.audit = s.audit
    <2> HIDE DEF g, u
    <2> QED BY <1>1 DEF Store
  <1>3. /\ v \in Store /\ v.founder = s.founder /\ v.member = s.member
        /\ v.admin = s.admin /\ v.audit = s.audit
    BY DEF Store
  <1>4. CreatedGroup(s, f) = Audited(u, "created", f, f)
    BY DEF CreatedGroup
  <1>5. PolicySet(s, on, f) = Audited(v, "policy", f, f)
    BY DEF PolicySet
  <1> HIDE DEF u, v
  <1>6. AuditChange(u, "created", f, f)
    BY <1>2, AuditedFields, KindsType
  <1>7. AuditChange(v, "policy", f, f)
    BY <1>3, AuditedFields, KindsType
  <1> QED BY <1>2, <1>3, <1>4, <1>5, <1>6, <1>7 DEF GroupChange, AuditChange

LEMMA GoodSelf ==
    ASSUME GInv, NEW d \in Devices
    PROVE  Good(d, store[d])
  BY DEF GInv, GTypeOK, AlwaysAnAdmin, AdminHasFounded, NoGroupNoRow, Good

\* What a change of the tables of one device preserves.
LEMMA StoreKeeps ==
    ASSUME GInv, NEW d \in Devices, NEW s, Good(d, s), Update(d, s)
    PROVE  /\ store' \in [Devices -> Store] /\ AlwaysAnAdmin' /\ AttributionHolds'
           /\ AdminHasFounded' /\ NoGroupNoRow' /\ Stays
           /\ \A e \in Devices : store[e].audit \subseteq store'[e].audit
  <1>0. /\ store \in [Devices -> Store] /\ store' = [store EXCEPT ![d] = s] /\ s \in Store
    BY DEF GInv, GTypeOK, Good, Update
  <1>1. /\ store' \in [Devices -> Store] /\ store'[d] = s
        /\ \A e \in Devices \ {d} : store'[e] = store[e]
    BY <1>0
  <1> HIDE DEF Update
  <1>2. \A e \in Devices : store[e].audit \subseteq store'[e].audit
    BY <1>1 DEF Good
  <1>3. AlwaysAnAdmin'
    BY <1>1 DEF GInv, AlwaysAnAdmin, Good, IsAdmin
  <1>4. AttributionHolds'
    <2> SUFFICES ASSUME NEW b \in Devices, NEW e \in store'[b].audit
                 PROVE  e \in store'[e.actor].audit
      BY DEF AttributionHolds
    <2>1. e.actor \in Devices
      BY <1>1 DEF Store, GEvent
    <2>2. CASE e \in store[b].audit
      BY <1>2, <2>1, <2>2 DEF GInv, AttributionHolds
    <2>3. CASE e \notin store[b].audit
      <3>1. b = d /\ e \in s.audit
        BY <1>1, <2>3
      <3>2. e.actor = d \/ e \in store[e.actor].audit
        BY <2>3, <3>1 DEF Good
      <3> QED BY <1>1, <1>2, <2>1, <3>1, <3>2
    <2> QED BY <2>2, <2>3
  <1>5. AdminHasFounded'
    BY <1>1 DEF GInv, AdminHasFounded, Good, IsAdmin
  <1>6. NoGroupNoRow'
    BY <1>1 DEF GInv, NoGroupNoRow, Good
  <1>7. Stays
    BY <1>1 DEF Stays, Good
  <1> QED BY <1>1, <1>2, <1>3, <1>4, <1>5, <1>6, <1>7

\* The operations of GroupStore, each under its precondition.
LEMMA GoodRecorded ==
    ASSUME NEW d \in Devices, NEW s, Good(d, s), NEW x \in Devices, NEW by \in Devices,
           MayRecord(s, x, by),
           by = d \/ Entry("issued", x, by) \in store[by].audit
    PROVE  Good(d, Recorded(s, x, by))
  <1> DEFINE u == Recorded(s, x, by)
             e == Entry("issued", x, by)
  <1>1. /\ s \in Store /\ u \in Store /\ u.founder = s.founder /\ u.admin = s.admin
        /\ u.member = [s.member EXCEPT ![x] = "active"]
        /\ u.audit = s.audit \cup {e} /\ e.actor = by
    <2>1. s \in Store
      BY DEF Good
    <2>2. e.actor = by
      BY EntryType, KindsType
    <2>3. MemberChange(s, x, by)
      BY <2>1, MemberFields
    <2> QED BY <2>1, <2>2, <2>3 DEF MemberChange
  <1>2. /\ s.member[x] = "none" /\ s.member \in [Devices -> {"none", "active", "revoked"}]
        /\ s.founder # None
    BY <1>1 DEF MayRecord, Store
  <1> HIDE DEF u, e
  <1>3. \A y \in Devices : store[d].member[y] = "revoked" => u.member[y] = "revoked"
    BY <1>1, <1>2 DEF Good
  <1>4. e.actor = d \/ e \in store[e.actor].audit
    BY <1>1 DEF e
  <1>5. Good(d, u)
    BY <1>1, <1>2, <1>3, <1>4 DEF Good, IsAdmin
  <1> QED BY <1>5 DEF u

LEMMA GoodMarked ==
    ASSUME NEW d \in Devices, NEW s, Good(d, s), NEW x \in Devices, NEW by \in Devices,
           MayMark(s, x),
           by = d \/ Entry("revoked", x, by) \in store[by].audit
    PROVE  Good(d, Marked(s, x, by))
  <1> DEFINE u == Marked(s, x, by)
             e == Entry("revoked", x, by)
  <1>1. /\ s \in Store /\ u \in Store /\ u.founder = s.founder /\ u.admin = s.admin
        /\ u.member = [s.member EXCEPT ![x] = "revoked"]
        /\ u.audit = s.audit \cup {e} /\ e.actor = by
    <2>1. s \in Store
      BY DEF Good
    <2>2. e.actor = by
      BY EntryType, KindsType
    <2>3. MemberChange(s, x, by)
      BY <2>1, MemberFields
    <2> QED BY <2>1, <2>2, <2>3 DEF MemberChange
  <1>2. s.member \in [Devices -> {"none", "active", "revoked"}] /\ s.founder # None
    BY <1>1 DEF Store, MayMark, Good
  <1> HIDE DEF u, e
  <1>3. \A y \in Devices : store[d].member[y] = "revoked" => u.member[y] = "revoked"
    BY <1>1, <1>2 DEF Good
  <1>4. e.actor = d \/ e \in store[e.actor].audit
    BY <1>1 DEF e
  <1>5. Good(d, u)
    BY <1>1, <1>2, <1>3, <1>4 DEF Good, IsAdmin
  <1> QED BY <1>5 DEF u

LEMMA GoodAdded ==
    ASSUME NEW d \in Devices, NEW s, Good(d, s), NEW x \in Devices,
           MayAdd(s, x, d), IsAdmin(s, d)
    PROVE  Good(d, Added(s, x, d))
  <1> DEFINE u == Added(s, x, d)
             e == Entry("added", x, d)
  <1>1. /\ s \in Store /\ u \in Store /\ u.founder = s.founder /\ u.member = s.member
        /\ u.admin = [s.admin EXCEPT ![x] = "active"]
        /\ u.audit = s.audit \cup {e} /\ e.actor = d
    <2>1. s \in Store
      BY DEF Good
    <2>2. e.actor = d
      BY EntryType, KindsType
    <2>3. AdminChange(s, x, d)
      BY <2>1, AdminFields
    <2> QED BY <2>1, <2>2, <2>3 DEF AdminChange
  <1>2. /\ s.admin \in [Devices -> {"none", "active", "removed"}]
        /\ s.admin[x] = "none" /\ s.admin[d] = "active" /\ s.founder # None
    BY <1>1 DEF MayAdd, Store, IsAdmin
  <1> HIDE DEF u, e
  <1>3. /\ u.admin[d] = "active"
        /\ \A y \in Devices : store[d].admin[y] = "removed" => u.admin[y] = "removed"
    BY <1>1, <1>2 DEF Good
  <1>5. Good(d, u)
    BY <1>1, <1>2, <1>3 DEF Good, IsAdmin
  <1> QED BY <1>5 DEF u

LEMMA GoodRemoved ==
    ASSUME NEW d \in Devices, NEW s, Good(d, s), NEW x \in Devices, MayRemove(s, x)
    PROVE  Good(d, Removed(s, x, d))
  <1> DEFINE u == Removed(s, x, d)
             e == Entry("removed", x, d)
             A == {y \in Devices : IsAdmin(s, y)}
  <1>1. /\ s \in Store /\ u \in Store /\ u.founder = s.founder /\ u.member = s.member
        /\ u.admin = [s.admin EXCEPT ![x] = "removed"]
        /\ u.audit = s.audit \cup {e} /\ e.actor = d
    <2>1. s \in Store
      BY DEF Good
    <2>2. e.actor = d
      BY EntryType, KindsType
    <2>3. AdminChange(s, x, d)
      BY <2>1, AdminFields
    <2> QED BY <2>1, <2>2, <2>3 DEF AdminChange
  <1>2. PICK z \in Devices : z # x /\ IsAdmin(s, z)
    <2>1. Cardinality(A) > 1 /\ x \in A
      BY DEF MayRemove
    <2>2. CASE A = {x}
      <3>1. Cardinality(A) = 1
        BY <2>2, FS_Singleton
      <3> QED BY <2>1, <3>1
    <2>3. CASE A # {x}
      BY <2>1, <2>3
    <2> QED BY <2>2, <2>3
  <1>3. s.admin \in [Devices -> {"none", "active", "removed"}] /\ s.admin[x] = "active"
    BY <1>1 DEF MayRemove, Store, IsAdmin
  <1> HIDE DEF u, e, A
  <1>4. /\ IsAdmin(u, z) /\ s.founder # None
        /\ IsAdmin(u, d) => IsAdmin(s, d)
        /\ \A y \in Devices : store[d].admin[y] = "removed" => u.admin[y] = "removed"
    BY <1>1, <1>2, <1>3 DEF Good, IsAdmin
  <1>5. Good(d, u)
    BY <1>1, <1>4 DEF Good
  <1> QED BY <1>5 DEF u

LEMMA GoodPolicy ==
    ASSUME NEW d \in Devices, NEW s, Good(d, s), NEW on \in BOOLEAN
    PROVE  Good(d, PolicySet(s, on, d))
  <1> DEFINE u == PolicySet(s, on, d)
             e == Entry("policy", d, d)
  <1>1. /\ s \in Store /\ u \in Store /\ u.founder = s.founder /\ u.member = s.member
        /\ u.admin = s.admin /\ u.audit = s.audit \cup {e} /\ e.actor = d
    <2>1. s \in Store
      BY DEF Good
    <2>2. e.actor = d
      BY EntryType, KindsType
    <2>3. GroupChange(s, d, on)
      BY <2>1, GroupFields
    <2> QED BY <2>1, <2>2, <2>3 DEF GroupChange
  <1> HIDE DEF u, e
  <1>5. Good(d, u)
    BY <1>1 DEF Good, IsAdmin
  <1> QED BY <1>5 DEF u

LEMMA GoodCreated ==
    ASSUME NEW d \in Devices, NEW s, Good(d, s), NEW f \in Devices, s.founder = None,
           f = d \/ Entry("created", f, f) \in store[f].audit
    PROVE  Good(d, CreatedGroup(s, f))
  <1> DEFINE u == CreatedGroup(s, f)
             e == Entry("created", f, f)
  <1>1. /\ s \in Store /\ u \in Store /\ u.founder = f /\ u.member = s.member
        /\ u.admin = [s.admin EXCEPT ![f] = "active"]
        /\ u.audit = s.audit \cup {e} /\ e.actor = f
    <2>1. s \in Store /\ TRUE \in BOOLEAN
      BY DEF Good
    <2>2. e.actor = f
      BY EntryType, KindsType
    <2>3. GroupChange(s, f, TRUE)
      BY <2>1, GroupFields
    <2> QED BY <2>1, <2>2, <2>3 DEF GroupChange
  <1>2. /\ s.admin \in [Devices -> {"none", "active", "removed"}]
        /\ \A y \in Devices : s.admin[y] = "none"
    BY <1>1 DEF Good, Store
  <1>3. IsAdmin(u, d) => Entry("created", d, d) \in u.audit
    <2>1. CASE f = d
      BY <1>1, <2>1
    <2>2. CASE f # d
      BY <1>1, <1>2, <2>2 DEF IsAdmin
    <2> QED BY <2>1, <2>2
  <1>4. e.actor = d \/ e \in store[e.actor].audit
    BY <1>1
  <1> HIDE DEF u, e
  <1>5. /\ IsAdmin(u, f) /\ u.founder # None
        /\ \A y \in Devices : store[d].admin[y] = "removed" => u.admin[y] = "removed"
    BY <1>1, <1>2, NoneIsNoDevice DEF Good, IsAdmin
  <1>6. Good(d, u)
    BY <1>1, <1>3, <1>4, <1>5 DEF Good
  <1> QED BY <1>6 DEF u

LEMMA MessageFields ==
    ASSUME NEW m \in Message
    PROVE  /\ m.device \in Devices
           /\ m.type \in {"join", "leave"} => m.req \in Request
           /\ m.type \in {"joined", "left"} => m.by \in Devices /\ m.approved \in BOOLEAN
           /\ m.type = "revoke" => m.by \in Devices
  BY DEF Message

LEMMA BackedKeeps ==
    ASSUME \A e \in Devices : store[e].audit \subseteq store'[e].audit,
           NEW m \in Message, Backed(store, m)
    PROVE  Backed(store', m)
  BY MessageFields DEF Backed

\* A step of the connections, and of the tables.
ChanStep ==
    \/ chan' = chan
    \/ \E d, e \in Devices, m \in Message :
          Backed(store', m) /\ chan' = [chan EXCEPT ![d][e] = Append(@, m)]
    \/ \E d, e \in Devices :
          chan[d][e] # << >> /\ chan' = [chan EXCEPT ![d][e] = Tail(@)]
    \/ \E d, e \in Devices : chan' = [chan EXCEPT ![d][e] = << >>, ![e][d] = << >>]

StoreStep ==
    \/ store' = store
    \/ \E d \in Devices : \E s \in Store : Good(d, s) /\ Update(d, s)

\* The types of what the steps of the proof leave to the end.
RestType ==
    /\ locked \in [Devices -> BOOLEAN]
    /\ joins \in [Devices -> [Devices -> Request \cup {None}]]
    /\ leaves \in [Devices -> [Devices -> Request \cup {None}]]
    /\ sending \in [Devices -> Suspended \cup {None}]
    /\ requests \in 0..MaxRequests
    /\ faults \in 0..MaxFaults

\* What the connections carry stays backed.
LEMMA ChanKeeps ==
    ASSUME GInv, \A m \in Message : Backed(store, m) => Backed(store', m), ChanStep
    PROVE  chan' \in [Devices -> [Devices -> Seq(Message)]] /\ MessagesAreBacked'
  <1>0. /\ chan \in [Devices -> [Devices -> Seq(Message)]]
        /\ \A d, e \in Devices : \A i \in 1..Len(chan[d][e]) : Backed(store, chan[d][e][i])
    BY DEF GInv, GTypeOK, MessagesAreBacked
  <1>1. \A d, e \in Devices : \A i \in 1..Len(chan[d][e]) :
           chan[d][e][i] \in Message /\ Backed(store', chan[d][e][i])
    <2> TAKE d, e \in Devices
    <2> TAKE i \in 1..Len(chan[d][e])
    <2>1. chan[d][e][i] \in Message
      BY <1>0
    <2> QED BY <1>0, <2>1
  <1>2. CASE chan' = chan
    BY <1>0, <1>1, <1>2 DEF MessagesAreBacked
  <1>3. ASSUME NEW d \in Devices, NEW e \in Devices, NEW q \in Seq(Message),
               \A i \in 1..Len(q) : Backed(store', q[i]),
               chan' = [chan EXCEPT ![d][e] = q]
        PROVE  chan' \in [Devices -> [Devices -> Seq(Message)]] /\ MessagesAreBacked'
    <2>1. chan' \in [Devices -> [Devices -> Seq(Message)]]
      BY <1>0, <1>3
    <2>2. \A x, y \in Devices :
             chan'[x][y] = IF x = d /\ y = e THEN q ELSE chan[x][y]
      BY <1>0, <1>3
    <2>3. ASSUME NEW x \in Devices, NEW y \in Devices, NEW i \in 1..Len(chan'[x][y])
          PROVE  Backed(store', chan'[x][y][i])
      <3>1. CASE x = d /\ y = e
        BY <1>3, <2>2, <3>1
      <3>2. CASE ~(x = d /\ y = e)
        BY <1>1, <2>2, <3>2
      <3> QED BY <3>1, <3>2
    <2> QED BY <2>1, <2>3 DEF MessagesAreBacked
  <1>4. ASSUME NEW d \in Devices, NEW e \in Devices, NEW m \in Message, Backed(store', m),
               chan' = [chan EXCEPT ![d][e] = Append(@, m)]
        PROVE  chan' \in [Devices -> [Devices -> Seq(Message)]] /\ MessagesAreBacked'
    <2> DEFINE q == Append(chan[d][e], m)
    <2>1. q \in Seq(Message) /\ Len(q) = Len(chan[d][e]) + 1 /\ Len(chan[d][e]) \in Nat
      BY <1>0
    <2>2. ASSUME NEW i \in 1..Len(q) PROVE Backed(store', q[i])
      <3>1. CASE i = Len(q)
        <4>1. q[i] = m
          BY <1>0, <3>1
        <4> QED BY <1>4, <4>1
      <3>2. CASE i # Len(q)
        <4>0. chan[d][e] \in Seq(Message) /\ i \in 1..Len(chan[d][e])
          <5>1. chan[d][e] \in Seq(Message)
            BY <1>0
          <5>2. i \in Nat /\ 1 <= i /\ i <= Len(q)
            BY <2>1
          <5>3. i <= Len(chan[d][e])
            <6> DEFINE n == Len(q)
                       k == Len(chan[d][e])
            <6>1. n = k + 1 /\ k \in Nat /\ i \in Nat /\ i <= n /\ i # n
              BY <2>1, <3>2, <5>2
            <6> HIDE DEF n, k
            <6>2. i <= k
              BY <6>1
            <6> QED BY <6>2 DEF k
          <5> QED BY <2>1, <5>1, <5>2, <5>3
        <4>1. i \in 1..Len(chan[d][e]) /\ q[i] = chan[d][e][i]
          BY <4>0
        <4> QED BY <1>1, <4>1
      <3> QED BY <3>1, <3>2
    <2>3. chan' = [chan EXCEPT ![d][e] = q]
      BY <1>0, <1>4
    <2> HIDE DEF q
    <2> QED BY <1>3, <2>1, <2>2, <2>3
  <1>5. ASSUME NEW d \in Devices, NEW e \in Devices, chan[d][e] # << >>,
               chan' = [chan EXCEPT ![d][e] = Tail(@)]
        PROVE  chan' \in [Devices -> [Devices -> Seq(Message)]] /\ MessagesAreBacked'
    <2> DEFINE q == Tail(chan[d][e])
    <2>1. q \in Seq(Message) /\ Len(q) = Len(chan[d][e]) - 1 /\ Len(chan[d][e]) \in Nat
      BY <1>0, <1>5
    <2>2. ASSUME NEW i \in 1..Len(q) PROVE Backed(store', q[i])
      <3>1. i + 1 \in 1..Len(chan[d][e]) /\ q[i] = chan[d][e][i + 1]
        BY <1>0, <1>5, <2>1
      <3> QED BY <1>1, <3>1
    <2>3. chan' = [chan EXCEPT ![d][e] = q]
      BY <1>0, <1>5
    <2> HIDE DEF q
    <2> QED BY <1>3, <2>1, <2>2, <2>3
  <1>6. ASSUME NEW d \in Devices, NEW e \in Devices,
               chan' = [chan EXCEPT ![d][e] = << >>, ![e][d] = << >>]
        PROVE  chan' \in [Devices -> [Devices -> Seq(Message)]] /\ MessagesAreBacked'
    <2>1. chan' \in [Devices -> [Devices -> Seq(Message)]]
      <3> DEFINE c == [chan EXCEPT ![d][e] = << >>]
      <3>0. << >> \in Seq(Message)
        OBVIOUS
      <3>1. c \in [Devices -> [Devices -> Seq(Message)]]
        <4> DEFINE r == [chan[d] EXCEPT ![e] = << >>]
        <4>1. r \in [Devices -> Seq(Message)] /\ c = [chan EXCEPT ![d] = r]
          BY <1>0, <3>0
        <4> HIDE DEF r
        <4> QED BY <1>0, <4>1
      <3>2. chan' = [c EXCEPT ![e][d] = << >>]
        BY <1>0, <1>6
      <3> HIDE DEF c
      <3> QED BY <3>0, <3>1, <3>2
    <2>2. \A x, y \in Devices : chan'[x][y] = << >> \/ chan'[x][y] = chan[x][y]
      BY <1>0, <1>6
    <2>3. ASSUME NEW x \in Devices, NEW y \in Devices, NEW i \in 1..Len(chan'[x][y])
          PROVE  Backed(store', chan'[x][y][i])
      BY <1>1, <2>2
    <2> QED BY <2>1, <2>3 DEF MessagesAreBacked
  <1> QED BY <1>2, <1>4, <1>5, <1>6 DEF ChanStep

LEMMA StepKeeps ==
    ASSUME GInv, StoreStep, ChanStep, RestType'
    PROVE  GInv' /\ Stays
  <1>1. /\ store' \in [Devices -> Store] /\ AlwaysAnAdmin' /\ AttributionHolds'
        /\ AdminHasFounded' /\ NoGroupNoRow' /\ Stays
        /\ \A e \in Devices : store[e].audit \subseteq store'[e].audit
    <2>1. CASE store' = store
      BY <2>1 DEF GInv, GTypeOK, AlwaysAnAdmin, AttributionHolds, AdminHasFounded,
                  NoGroupNoRow, Stays, IsAdmin
    <2>2. CASE \E d \in Devices : \E s \in Store : Good(d, s) /\ Update(d, s)
      BY <2>2, StoreKeeps
    <2> QED BY <2>1, <2>2 DEF StoreStep
  <1>2. \A m \in Message : Backed(store, m) => Backed(store', m)
    BY <1>1, BackedKeeps
  <1>3. chan' \in [Devices -> [Devices -> Seq(Message)]] /\ MessagesAreBacked'
    BY <1>2, ChanKeeps
  <1>4. GTypeOK'
    BY <1>1, <1>3 DEF GTypeOK, RestType
  <1> QED BY <1>1, <1>3, <1>4 DEF GInv

LEMMA SendStep ==
    ASSUME GInv, NEW d \in Devices, NEW to \in Devices, NEW m \in Message,
           Send(d, to, m), Backed(store', m)
    PROVE  ChanStep /\ faults' \in 0..MaxFaults
  <1>0. faults \in 0..MaxFaults
    BY DEF GInv, GTypeOK
  <1>1. CASE chan' = [chan EXCEPT ![d][to] = Append(@, m)] /\ UNCHANGED faults
    BY <1>0, <1>1 DEF ChanStep
  <1>2. CASE Fault("loss") /\ UNCHANGED chan
    BY <1>0, <1>2, GroupBounds DEF ChanStep, Fault
  <1> QED BY <1>1, <1>2 DEF Send

\* What a handler finds at the head of the connection.
LEMMA ArrivesStep ==
    ASSUME GInv, NEW from \in Devices, NEW d \in Devices, chan[from][d] # << >>,
           chan' = [chan EXCEPT ![from][d] = Tail(@)]
    PROVE  /\ ChanStep
           /\ Head(chan[from][d]) \in Message /\ Backed(store, Head(chan[from][d]))
  <1>1. ChanStep
    BY DEF ChanStep
  <1>2. chan[from][d] \in Seq(Message)
    BY DEF GInv, GTypeOK
  <1>3. 1 \in 1..Len(chan[from][d]) /\ Head(chan[from][d]) = chan[from][d][1]
    BY <1>2
  <1>4. Head(chan[from][d]) \in Message
    BY <1>2
  <1>5. Backed(store, chan[from][d][1])
    BY <1>3 DEF GInv, MessagesAreBacked
  <1> QED BY <1>1, <1>3, <1>4, <1>5

LEMMA MessageTypes ==
    ASSUME NEW x \in Devices, NEW by \in Devices, NEW ok \in BOOLEAN, NEW r \in Request
    PROVE  /\ JoinRequest(x, r) \in Message /\ LeaveRequest(x, r) \in Message
           /\ JoinResponse(x, by, ok) \in Message /\ LeaveResponse(x, by, ok) \in Message
           /\ Revocation(x, by) \in Message
           /\ Backed(store', JoinRequest(x, r)) /\ Backed(store', LeaveRequest(x, r))
           /\ Backed(store', JoinResponse(x, by, FALSE))
           /\ Backed(store', LeaveResponse(x, by, FALSE))
  BY DEF JoinRequest, LeaveRequest, JoinResponse, LeaveResponse, Revocation, Message, Backed

LEMMA GInvInit == GInit => GInv
  <1> SUFFICES ASSUME GInit PROVE GInv
    OBVIOUS
  <1> USE DEF GInit
  <1>1. EmptyStore \in Store /\ EmptyStore.founder = None /\ EmptyStore.audit = {}
        /\ \A x \in Devices : EmptyStore.admin[x] = "none" /\ EmptyStore.member[x] = "none"
    BY DEF EmptyStore, Store
  <1>2. << >> \in Seq(Message)
    OBVIOUS
  <1>3. GTypeOK
    BY <1>1, <1>2, GroupBounds DEF GTypeOK
  <1>4. AlwaysAnAdmin /\ AttributionHolds /\ AdminHasFounded /\ NoGroupNoRow
    BY <1>1 DEF AlwaysAnAdmin, AttributionHolds, AdminHasFounded, NoGroupNoRow, IsAdmin
  <1>5. MessagesAreBacked
    BY DEF MessagesAreBacked
  <1> QED BY <1>3, <1>4, <1>5 DEF GInv

\* The /group commands that change only the tables.
LEMMA TableCommandKeeps ==
    ASSUME GInv, NEW d \in Devices,
           \/ Create(d) \/ \E on \in BOOLEAN : SetPolicy(d, on)
           \/ \E x \in Devices : ApproveUnasked(d, x) \/ AddAdmin(d, x) \/ RemoveAdmin(d, x)
    PROVE  GInv' /\ Stays
  <1> USE GoodSelf
  <1>1. UNCHANGED <<locked, joins, leaves, sending, chan, requests, faults>>
    BY DEF Create, SetPolicy, ApproveUnasked, AddAdmin, RemoveAdmin, awaited
  <1>2. ChanStep /\ RestType'
    BY <1>1 DEF ChanStep, RestType, GInv, GTypeOK
  <1>3. \E s : Good(d, s) /\ Update(d, s)
    <2>1. CASE Create(d)
      <3> DEFINE g == CreatedGroup(store[d], d)
      <3>1. store[d].founder = None /\ Update(d, Recorded(g, d, d)) /\ store[d] \in Store
        BY <2>1 DEF Create, GInv, GTypeOK
      <3>2. Good(d, g)
        BY <3>1, GoodCreated
      <3>3. MayRecord(g, d, d)
        <4>1. /\ store[d].admin \in [Devices -> {"none", "active", "removed"}]
              /\ store[d].member[d] = "none"
          BY <3>1 DEF Store, GInv, NoGroupNoRow
        <4>2. GroupChange(store[d], d, TRUE)
          BY <3>1, GroupFields
        <4> QED BY <4>1, <4>2, NoneIsNoDevice DEF GroupChange, MayRecord, IsAdmin
      <3> HIDE DEF g
      <3> QED BY <3>1, <3>2, <3>3, GoodRecorded
    <2>2. ASSUME NEW on \in BOOLEAN, SetPolicy(d, on) PROVE \E s : Good(d, s) /\ Update(d, s)
      BY <2>2, GoodPolicy DEF SetPolicy
    <2>3. ASSUME NEW x \in Devices, ApproveUnasked(d, x)
          PROVE  \E s : Good(d, s) /\ Update(d, s)
      BY <2>3, GoodRecorded DEF ApproveUnasked
    <2>4. ASSUME NEW x \in Devices, AddAdmin(d, x) PROVE \E s : Good(d, s) /\ Update(d, s)
      BY <2>4, GoodAdded DEF AddAdmin
    <2>5. ASSUME NEW x \in Devices, RemoveAdmin(d, x)
          PROVE  \E s : Good(d, s) /\ Update(d, s)
      BY <2>5, GoodRemoved DEF RemoveAdmin
    <2> QED BY <2>1, <2>2, <2>3, <2>4, <2>5
  <1>4. StoreStep
    BY <1>3 DEF StoreStep, Good
  <1> QED BY <1>2, <1>4, StepKeeps

\* The /group commands that send.
LEMMA RequestKeeps ==
    ASSUME GInv, NEW d \in Devices, NEW x \in Devices,
           \/ Join(d, x) \/ Reject(d, x) \/ RejectLeave(d, x)
    PROVE  GInv' /\ Stays
  <1>0. /\ RestType /\ d \in Devices /\ x \in Devices
        /\ FALSE \in BOOLEAN
    BY DEF GInv, GTypeOK, RestType
  <1>1. UNCHANGED <<store, locked, joins, leaves>>
    BY DEF Join, Reject, RejectLeave, awaited
  <1>2. ChanStep /\ faults' \in 0..MaxFaults /\ requests' \in 0..MaxRequests
    <2>1. CASE Join(d, x)
      <3>1. /\ requests + 1 \in Request /\ requests' = requests + 1 /\ requests' \in 0..MaxRequests
            /\ Send(d, x, JoinRequest(d, requests + 1))
        BY <1>0, <2>1, GroupBounds DEF Join, Request, RestType
      <3>2. /\ JoinRequest(d, requests + 1) \in Message
            /\ Backed(store', JoinRequest(d, requests + 1))
        BY <1>0, <3>1, MessageTypes
      <3> QED BY <1>0, <3>1, <3>2, SendStep
    <2>2. CASE Reject(d, x)
      <3>1. Send(d, x, JoinResponse(x, d, FALSE)) /\ requests' = requests
        BY <2>2 DEF Reject
      <3>2. /\ JoinResponse(x, d, FALSE) \in Message
            /\ Backed(store', JoinResponse(x, d, FALSE))
        BY <1>0 DEF JoinResponse, Message, Backed
      <3> QED BY <1>0, <3>1, <3>2, SendStep DEF RestType
    <2>3. CASE RejectLeave(d, x)
      <3>1. Send(d, x, LeaveResponse(x, d, FALSE)) /\ requests' = requests
        BY <2>3 DEF RejectLeave
      <3>2. /\ LeaveResponse(x, d, FALSE) \in Message
            /\ Backed(store', LeaveResponse(x, d, FALSE))
        BY <1>0 DEF LeaveResponse, Message, Backed
      <3> QED BY <1>0, <3>1, <3>2, SendStep DEF RestType
    <2> QED BY <2>1, <2>2, <2>3
  <1>3. sending' \in [Devices -> Suspended \cup {None}]
    <2>1. CASE Join(d, x)
      BY <1>0, <2>1 DEF Join, RestType
    <2>2. CASE Reject(d, x)
      <3>1. [table |-> "joins", device |-> x] \in Suspended
        BY DEF Suspended
      <3> QED BY <1>0, <2>2, <3>1 DEF Reject, RestType
    <2>3. CASE RejectLeave(d, x)
      <3>1. [table |-> "leaves", device |-> x] \in Suspended
        BY DEF Suspended
      <3> QED BY <1>0, <2>3, <3>1 DEF RejectLeave, RestType
    <2> QED BY <2>1, <2>2, <2>3
  <1>4. RestType' /\ StoreStep
    BY <1>0, <1>1, <1>2, <1>3 DEF RestType, StoreStep
  <1> QED BY <1>2, <1>4, StepKeeps

\* The answers and the revocation: recorded, then sent.
LEMMA AnswerKeeps ==
    ASSUME GInv, NEW d \in Devices, NEW x \in Devices,
           \/ Approve(d, x) \/ ApproveLeave(d, x) \/ Revoke(d, x)
    PROVE  GInv' /\ Stays
  <1>0. /\ RestType /\ store[d] \in Store /\ Good(d, store[d])
        /\ store \in [Devices -> Store]
    BY GoodSelf DEF GInv, GTypeOK, RestType
  <1>1. UNCHANGED <<locked, joins, leaves, requests>>
    BY DEF Approve, ApproveLeave, Revoke, awaited
  <1>2. MemberChange(store[d], x, d)
    BY <1>0, MemberFields
  <1>3. ASSUME Approve(d, x)
        PROVE  ChanStep /\ StoreStep /\ faults' \in 0..MaxFaults
    <2>1. /\ MayRecord(store[d], x, d) /\ Update(d, Recorded(store[d], x, d))
          /\ Send(d, x, JoinResponse(x, d, TRUE))
      BY <1>3 DEF Approve
    <2>2. Good(d, Recorded(store[d], x, d))
      BY <1>0, <2>1, GoodRecorded
    <2>3. /\ Entry("issued", x, d) \in store'[d].audit
          /\ Entry("created", d, d) \in store'[d].audit
      <3>1. Entry("created", d, d) \in store[d].audit
        BY <2>1 DEF MayRecord, GInv, AdminHasFounded
      <3>2. store'[d] = Recorded(store[d], x, d)
        BY <1>0, <2>1 DEF Update
      <3> QED BY <1>2, <3>1, <3>2 DEF MemberChange
    <2>4. JoinResponse(x, d, TRUE) \in Message /\ Backed(store', JoinResponse(x, d, TRUE))
      BY <2>3 DEF JoinResponse, Message, Backed
    <2> QED BY <2>1, <2>2, <2>4, SendStep DEF StoreStep, Good
  <1>4. ASSUME ApproveLeave(d, x)
        PROVE  ChanStep /\ StoreStep /\ faults' \in 0..MaxFaults
    <2>1. /\ MayMark(store[d], x) /\ Update(d, Marked(store[d], x, d))
          /\ Send(d, x, LeaveResponse(x, d, TRUE))
      BY <1>4 DEF ApproveLeave, MayLeave, MayRevoke, LeaveResponse
    <2>2. Good(d, Marked(store[d], x, d))
      BY <1>0, <2>1, GoodMarked
    <2>3. Entry("revoked", x, d) \in store'[d].audit
      <3>2. store'[d] = Marked(store[d], x, d)
        BY <1>0, <2>1 DEF Update
      <3> QED BY <1>2, <3>2 DEF MemberChange
    <2>4. LeaveResponse(x, d, TRUE) \in Message /\ Backed(store', LeaveResponse(x, d, TRUE))
      BY <2>3 DEF LeaveResponse, Message, Backed
    <2> QED BY <2>1, <2>2, <2>4, SendStep DEF StoreStep, Good
  <1>5. ASSUME Revoke(d, x)
        PROVE  ChanStep /\ StoreStep /\ faults' \in 0..MaxFaults
    <2>1. /\ MayMark(store[d], x) /\ Update(d, Marked(store[d], x, d))
          /\ UNCHANGED <<chan, faults>> \/ Send(d, x, Revocation(x, d))
      BY <1>5 DEF Revoke, MayRevoke
    <2>2. Good(d, Marked(store[d], x, d))
      BY <1>0, <2>1, GoodMarked
    <2>3. Entry("revoked", x, d) \in store'[d].audit
      <3>2. store'[d] = Marked(store[d], x, d)
        BY <1>0, <2>1 DEF Update
      <3> QED BY <1>2, <3>2 DEF MemberChange
    <2>4. Revocation(x, d) \in Message /\ Backed(store', Revocation(x, d))
      BY <2>3 DEF Revocation, Message, Backed
    <2>5. ChanStep /\ faults' \in 0..MaxFaults
      <3>1. CASE UNCHANGED <<chan, faults>>
        BY <1>0, <3>1 DEF ChanStep, RestType
      <3>2. CASE Send(d, x, Revocation(x, d))
        BY <2>4, <3>2, SendStep
      <3> QED BY <2>1, <3>1, <3>2
    <2> QED BY <2>1, <2>2, <2>5 DEF StoreStep, Good
  <1>6. sending' \in [Devices -> Suspended \cup {None}]
    <2>1. /\ [table |-> "joins", device |-> x] \in Suspended
          /\ [table |-> "leaves", device |-> x] \in Suspended
      BY DEF Suspended
    <2>2. \/ sending' = sending
          \/ \E t \in Suspended : sending' = [sending EXCEPT ![d] = t]
      BY <2>1 DEF Approve, ApproveLeave, Revoke
    <2> QED BY <1>0, <2>2 DEF RestType
  <1>7. ChanStep /\ StoreStep /\ faults' \in 0..MaxFaults
    BY <1>3, <1>4, <1>5
  <1>8. RestType'
    BY <1>0, <1>1, <1>6, <1>7 DEF RestType
  <1> QED BY <1>7, <1>8, StepKeeps

LEMMA LeaveKeeps ==
    ASSUME GInv, NEW d \in Devices, Leave(d)
    PROVE  GInv' /\ Stays
  <1>0. /\ RestType /\ Good(d, store[d])
    BY GoodSelf DEF GInv, GTypeOK, RestType
  <1>1. UNCHANGED <<locked, joins, leaves, sending>>
    BY DEF Leave, awaited
  <1>2. ChanStep /\ StoreStep /\ faults' \in 0..MaxFaults /\ requests' \in 0..MaxRequests
    <2>1. CASE /\ MayLeaveAlone(store[d], d) /\ Update(d, Marked(store[d], d, d))
               /\ UNCHANGED <<chan, requests, faults>>
      <3>1. Good(d, Marked(store[d], d, d))
        BY <1>0, <2>1, GoodMarked DEF MayLeaveAlone
      <3> QED BY <1>0, <2>1, <3>1 DEF ChanStep, StoreStep, RestType, Good
    <2>2. ASSUME requests < MaxRequests, requests' = requests + 1, UNCHANGED store,
                 NEW a \in Devices, Send(d, a, LeaveRequest(d, requests + 1))
          PROVE  ChanStep /\ StoreStep /\ faults' \in 0..MaxFaults /\ requests' \in 0..MaxRequests
      <3>1. requests + 1 \in Request /\ requests' \in 0..MaxRequests
        BY <1>0, <2>2, GroupBounds DEF Request, RestType
      <3>2. /\ LeaveRequest(d, requests + 1) \in Message
            /\ Backed(store', LeaveRequest(d, requests + 1))
        BY <3>1 DEF LeaveRequest, Message, Backed
      <3> QED BY <2>2, <3>1, <3>2, SendStep DEF StoreStep
    <2> QED BY <2>1, <2>2 DEF Leave
  <1>3. RestType'
    BY <1>0, <1>1, <1>2 DEF RestType
  <1> QED BY <1>2, <1>3, StepKeeps

LEMMA RowType ==
    ASSUME NEW t \in [Devices -> [Devices -> Request \cup {None}]],
           NEW d \in Devices, NEW y \in Devices, NEW v \in Request \cup {None}
    PROVE  [t EXCEPT ![d][y] = v] \in [Devices -> [Devices -> Request \cup {None}]]
  <1> DEFINE r == [t[d] EXCEPT ![y] = v]
  <1>1. r \in [Devices -> Request \cup {None}] /\ [t EXCEPT ![d][y] = v] = [t EXCEPT ![d] = r]
    OBVIOUS
  <1> HIDE DEF r
  <1>2. [t EXCEPT ![d] = r] \in [Devices -> [Devices -> Request \cup {None}]]
    BY <1>1
  <1> QED BY <1>1, <1>2

\* The handlers of requests, a locked device and what the device does alone.
LEMMA QuietKeeps ==
    ASSUME GInv, NEW from \in Devices, NEW d \in Devices,
           \/ OnJoinRequest(from, d) \/ OnLeaveRequest(from, d) \/ OnLocked(from, d)
           \/ Disconnect(from, d) \/ SendReturns(d) \/ Lock(d)
    PROVE  GInv' /\ Stays
  <1>0. RestType /\ chan \in [Devices -> [Devices -> Seq(Message)]]
    BY DEF GInv, GTypeOK, RestType
  <1>1. store' = store /\ requests' = requests
    BY DEF OnJoinRequest, OnLeaveRequest, OnLocked, Disconnect, SendReturns, Lock
  <1>2. ChanStep
    <2>1. CASE OnJoinRequest(from, d) \/ OnLeaveRequest(from, d) \/ OnLocked(from, d)
      BY <2>1, ArrivesStep DEF OnJoinRequest, OnLeaveRequest, OnLocked, Arrives
    <2>2. CASE Disconnect(from, d) \/ SendReturns(d) \/ Lock(d)
      BY <2>2 DEF Disconnect, SendReturns, Lock, ChanStep
    <2> QED BY <2>1, <2>2
  <1>3. faults' \in 0..MaxFaults
    <2>1. faults' = faults \/ (faults < MaxFaults /\ faults' = faults + 1)
      BY DEF OnJoinRequest, OnLeaveRequest, OnLocked, Disconnect, SendReturns, Lock, Fault
    <2>2. faults \in 0..MaxFaults
      BY <1>0 DEF RestType
    <2> QED BY <2>1, <2>2, GroupBounds
  <1>4. locked' \in [Devices -> BOOLEAN]
    <2>1. locked' = locked \/ locked' = [locked EXCEPT ![d] = ~@]
      BY DEF OnJoinRequest, OnLeaveRequest, OnLocked, Disconnect, SendReturns, Lock
    <2> QED BY <1>0, <2>1 DEF RestType
  <1>5. sending' \in [Devices -> Suspended \cup {None}]
    <2>1. sending' = sending \/ sending' = [sending EXCEPT ![d] = None]
      BY DEF OnJoinRequest, OnLeaveRequest, OnLocked, Disconnect, SendReturns, Lock, awaited
    <2> QED BY <1>0, <2>1 DEF RestType
  <1>6. /\ joins' \in [Devices -> [Devices -> Request \cup {None}]]
        /\ leaves' \in [Devices -> [Devices -> Request \cup {None}]]
    <2> DEFINE m == Head(chan[from][d])
               T == [Devices -> [Devices -> Request \cup {None}]]
    <2>0. joins \in T /\ leaves \in T
      BY <1>0 DEF RestType
    <2>1. CASE OnJoinRequest(from, d)
      <3>1. m \in Message /\ m.type = "join"
        BY <2>1, ArrivesStep DEF OnJoinRequest, Arrives
      <3>2. m.device \in Devices /\ m.req \in Request
        BY <3>1, MessageFields
      <3>3. /\ leaves' = leaves
            /\ joins' = joins \/ joins' = [joins EXCEPT ![d][m.device] = m.req]
        BY <2>1 DEF OnJoinRequest
      <3>4. [joins EXCEPT ![d][m.device] = m.req] \in T
        BY <2>0, <3>2, RowType
      <3> HIDE DEF m
      <3> QED BY <2>0, <3>3, <3>4
    <2>2. CASE OnLeaveRequest(from, d)
      <3>1. m \in Message /\ m.type = "leave"
        BY <2>2, ArrivesStep DEF OnLeaveRequest, Arrives
      <3>2. m.device \in Devices /\ m.req \in Request
        BY <3>1, MessageFields
      <3>3. /\ joins' = joins
            /\ leaves' = leaves \/ leaves' = [leaves EXCEPT ![d][m.device] = m.req]
        BY <2>2 DEF OnLeaveRequest
      <3>4. [leaves EXCEPT ![d][m.device] = m.req] \in T
        BY <2>0, <3>2, RowType
      <3> HIDE DEF m
      <3> QED BY <2>0, <3>3, <3>4
    <2>3. CASE SendReturns(d)
      <3>1. sending[d] \in Suspended
        BY <1>0, <2>3 DEF SendReturns, RestType
      <3>2. sending[d].device \in Devices
        BY <3>1 DEF Suspended
      <3>3. /\ joins' = joins \/ joins' = [joins EXCEPT ![d][sending[d].device] = None]
            /\ leaves' = leaves \/ leaves' = [leaves EXCEPT ![d][sending[d].device] = None]
        BY <2>3 DEF SendReturns
      <3>4. /\ [joins EXCEPT ![d][sending[d].device] = None] \in T
            /\ [leaves EXCEPT ![d][sending[d].device] = None] \in T
        BY <2>0, <3>2, RowType
      <3> QED BY <2>0, <3>3, <3>4
    <2>4. CASE OnLocked(from, d) \/ Disconnect(from, d) \/ Lock(d)
      <3>1. joins' = joins /\ leaves' = leaves
        BY <2>4 DEF OnLocked, Disconnect, Lock, awaited
      <3> QED BY <2>0, <3>1
    <2> QED BY <2>1, <2>2, <2>3, <2>4
  <1>7. RestType' /\ StoreStep
    BY <1>0, <1>1, <1>3, <1>4, <1>5, <1>6 DEF RestType, StoreStep
  <1> QED BY <1>2, <1>7, StepKeeps

\* The handlers of answers and revocations: what they record was recorded by
\* the device that signed it.
LEMMA VerdictKeeps ==
    ASSUME GInv, NEW from \in Devices, NEW d \in Devices,
           \/ OnJoinResponse(from, d) \/ OnLeaveResponse(from, d)
           \/ OnMembershipRevoke(from, d)
    PROVE  GInv' /\ Stays
  <1> DEFINE m == Head(chan[from][d])
  <1>0. RestType /\ Good(d, store[d])
    BY GoodSelf DEF GInv, GTypeOK, RestType
  <1>1. UNCHANGED <<locked, joins, leaves, sending, requests>>
    BY DEF OnJoinResponse, OnLeaveResponse, OnMembershipRevoke, awaited
  <1>2. ChanStep /\ m \in Message /\ Backed(store, m)
    BY ArrivesStep DEF OnJoinResponse, OnLeaveResponse, OnMembershipRevoke, Arrives
  <1>3. m.device \in Devices
    BY <1>2, MessageFields
  <1>4. CASE OnJoinResponse(from, d)
    <2> DEFINE s == Anchored(store[d], m)
    <2>1. /\ m.type = "joined"
          /\ \/ /\ Update(d, IF MayJoin(s, m) THEN Recorded(s, m.device, m.by) ELSE s)
                /\ UNCHANGED faults
             \/ Fault("unknown") /\ UNCHANGED store
      BY <1>4 DEF OnJoinResponse, Arrives
    <2>2. m.by \in Devices
      BY <1>2, <2>1, MessageFields
    <2>3. m.approved => /\ Entry("issued", m.device, m.by) \in store[m.by].audit
                        /\ Entry("created", m.by, m.by) \in store[m.by].audit
      BY <1>2, <2>1 DEF Backed
    <2> HIDE DEF m
    <2>4. Good(d, s)
      BY <1>0, <2>2, <2>3, GoodCreated DEF Anchored
    <2> HIDE DEF s
    <2>5. MayJoin(s, m) => Good(d, Recorded(s, m.device, m.by))
      BY <1>3, <2>2, <2>3, <2>4, GoodRecorded DEF MayJoin
    <2>6. StoreStep
      BY <2>1, <2>4, <2>5 DEF StoreStep, Good
    <2>7. faults' \in 0..MaxFaults
      <3>1. faults \in 0..MaxFaults
        BY <1>0 DEF RestType
      <3>2. faults' = faults \/ (faults < MaxFaults /\ faults' = faults + 1)
        BY <2>1 DEF Fault
      <3> QED BY <3>1, <3>2, GroupBounds
    <2>8. RestType'
      BY <1>0, <1>1, <2>7 DEF RestType
    <2> QED BY <1>2, <2>6, <2>8, StepKeeps
  <1>5. CASE OnLeaveResponse(from, d)
    <2>1. /\ m.type = "left" /\ faults' = faults
          /\ Update(d, IF MayLeave(store[d], m) THEN Marked(store[d], m.device, m.by)
                       ELSE store[d])
      BY <1>5 DEF OnLeaveResponse, Arrives
    <2>2. m.by \in Devices
      BY <1>2, <2>1, MessageFields
    <2>3. m.approved => Entry("revoked", m.device, m.by) \in store[m.by].audit
      BY <1>2, <2>1 DEF Backed
    <2> HIDE DEF m
    <2>4. MayLeave(store[d], m) => Good(d, Marked(store[d], m.device, m.by))
      BY <1>0, <1>3, <2>2, <2>3, GoodMarked DEF MayLeave, MayRevoke
    <2>5. StoreStep
      BY <1>0, <2>1, <2>4 DEF StoreStep, Good
    <2>6. RestType'
      BY <1>0, <1>1, <2>1 DEF RestType
    <2> QED BY <1>2, <2>5, <2>6, StepKeeps
  <1>6. CASE OnMembershipRevoke(from, d)
    <2>1. /\ m.type = "revoke" /\ faults' = faults
          /\ Update(d, IF MayRevoke(store[d], m.device, m.by)
                       THEN Marked(store[d], m.device, m.by) ELSE store[d])
      BY <1>6 DEF OnMembershipRevoke, Arrives
    <2>2. m.by \in Devices
      BY <1>2, <2>1, MessageFields
    <2>3. Entry("revoked", m.device, m.by) \in store[m.by].audit
      BY <1>2, <2>1 DEF Backed
    <2> HIDE DEF m
    <2>4. MayRevoke(store[d], m.device, m.by) => Good(d, Marked(store[d], m.device, m.by))
      BY <1>0, <1>3, <2>2, <2>3, GoodMarked DEF MayRevoke
    <2>5. StoreStep
      BY <1>0, <2>1, <2>4 DEF StoreStep, Good
    <2>6. RestType'
      BY <1>0, <1>1, <2>1 DEF RestType
    <2> QED BY <1>2, <2>5, <2>6, StepKeeps
  <1> QED BY <1>4, <1>5, <1>6

LEMMA GInvNext == GInv /\ [GNext]_gvars => GInv' /\ Stays
  <1> SUFFICES ASSUME GInv, [GNext]_gvars PROVE GInv' /\ Stays
    OBVIOUS
  <1>1. ASSUME NEW d \in Devices, CommandStep(d) PROVE GInv' /\ Stays
    <2>1. CASE \/ Create(d) \/ \E on \in BOOLEAN : SetPolicy(d, on)
               \/ \E x \in Devices :
                     ApproveUnasked(d, x) \/ AddAdmin(d, x) \/ RemoveAdmin(d, x)
      BY <2>1, TableCommandKeeps
    <2>2. CASE Leave(d)
      BY <2>2, LeaveKeeps
    <2>3. CASE \E x \in Devices : Join(d, x) \/ Reject(d, x) \/ RejectLeave(d, x)
      BY <2>3, RequestKeeps
    <2>4. CASE \E x \in Devices : Approve(d, x) \/ ApproveLeave(d, x) \/ Revoke(d, x)
      BY <2>4, AnswerKeeps
    <2> QED BY <1>1, <2>1, <2>2, <2>3, <2>4 DEF CommandStep
  <1>2. ASSUME NEW d \in Devices, SendReturns(d) \/ Lock(d) PROVE GInv' /\ Stays
    BY <1>2, QuietKeeps
  <1>3. ASSUME NEW from \in Devices, NEW d \in Devices, Handle(from, d) \/ Disconnect(from, d)
        PROVE  GInv' /\ Stays
    <2>1. CASE \/ OnJoinRequest(from, d) \/ OnLeaveRequest(from, d) \/ OnLocked(from, d)
               \/ Disconnect(from, d)
      BY <2>1, QuietKeeps
    <2>2. CASE \/ OnJoinResponse(from, d) \/ OnLeaveResponse(from, d)
               \/ OnMembershipRevoke(from, d)
      BY <2>2, VerdictKeeps
    <2> QED BY <1>3, <2>1, <2>2 DEF Handle
  <1>4. CASE UNCHANGED gvars
    <2>1. UNCHANGED <<store, locked, joins, leaves, sending, chan, requests, faults>>
      BY <1>4 DEF gvars, awaited
    <2>2. StoreStep /\ ChanStep /\ RestType'
      BY <2>1 DEF StoreStep, ChanStep, RestType, GInv, GTypeOK
    <2> QED BY <2>2, StepKeeps
  <1> QED BY <1>1, <1>2, <1>3, <1>4 DEF GNext

LEMMA GInvHolds == GSpec => []GInv
  <1>1. GInv /\ [GNext]_gvars => GInv'
    BY GInvNext
  <1> QED BY <1>1, GInvInit, PTL DEF GSpec

\* The tables, pending requests and connections of all devices keep their types.
THEOREM GroupTypes == GSpec => []GTypeOK
  <1>1. GInv => GTypeOK
    BY DEF GInv
  <1> QED BY <1>1, GInvHolds, PTL

\* A group that a device knows never loses its last active admin
\* (remove_admin()), for any number of devices.
THEOREM GroupAlwaysAnAdmin == GSpec => []AlwaysAnAdmin
  <1>1. GInv => AlwaysAnAdmin
    BY DEF GInv
  <1> QED BY <1>1, GInvHolds, PTL

\* What the audit log of a device attributes to another device is in the log of
\* that device, whatever is lost, reordered or dropped
\* (process_join_response(), record_revocation()).
THEOREM GroupAttributionHolds == GSpec => []AttributionHolds
  <1>1. GInv => AttributionHolds
    BY DEF GInv
  <1> QED BY <1>1, GInvHolds, PTL

\* A revoked membership stays revoked and a removed admin removed, on every
\* device and through every later certificate (record_membership(), add_admin()).
THEOREM GroupTombstonesStay == GSpec => TombstonesStay
  <1>1. GInv /\ [GNext]_gvars => [Stays]_gvars
    BY GInvNext
  <1>2. GSpec => [][Stays]_gvars
    BY <1>1, GInvHolds, PTL DEF GSpec
  <1> QED BY <1>2 DEF TombstonesStay, Stays
=============================================================================
