---------------------------- MODULE KeyRotation -----------------------------
(***************************************************************************)
(* A device that changes its key, and a peer that follows it.              *)
(*                                                                         *)
(* The device keeps its private key in the keyring of the system or in a   *)
(* file (core/identity/key_storage.py) and its name and device id in       *)
(* identity.json (core/identity/identity_file.py): two writes, with a      *)
(* crash between any two of them.  A rotation also gives out a certificate *)
(* that leads from the old key to the new one (core/identity/rotation.py). *)
(* The peer gets the certificates late, in any order and repeatedly, and   *)
(* keeps them beside its trust table (core/trust/store.py), while its user *)
(* meets, approves and revokes the device under any of its keys.           *)
(*                                                                         *)
(* Keys are numbered as they are generated; a device id is the hash of its *)
(* key, so a key stands for both.                                          *)
(***************************************************************************)
EXTENDS Naturals, Sequences, FiniteSets, SequencesExt

CONSTANTS
    Nobody,         \* no key
    Torn,           \* a file that was being written
    MaxKeys,        \* keys the device generates
    MaxMishaps      \* crashes and errors of the keyring

KeyIds == 1..MaxKeys
Certificate == [old : KeyIds, new : KeyIds, time : Nat]

ASSUME KeyBounds == MaxKeys \in Nat /\ MaxMishaps \in Nat
ASSUME NoKeys == Nobody \notin Nat /\ Torn \notin Nat /\ Nobody # Torn

VARIABLES
    ring,       \* the private key in the keyring
    plain,      \* the private key in the fallback file
    hasRing,    \* the system has a keyring
    idfile,     \* the device id in identity.json
    runsAs,     \* the key the device runs with
    drawn,      \* keys generated so far
    mishaps,    \* crashes and errors of the keyring so far
    certs,      \* certificates given out
    trusts,     \* trusted_devices of the peer: the status of each key
    moved,      \* its identity_transitions, in the order of recorded_at
    approved    \* keys its user has approved

identity == <<ring, plain, hasRing, idfile, runsAs, drawn, mishaps, certs>>
table == <<trusts, moved, approved>>
kvars == <<identity, table>>

KTypeOK ==
    /\ ring \in KeyIds \cup {Nobody} /\ plain \in KeyIds \cup {Nobody, Torn}
    /\ hasRing \in BOOLEAN
    /\ idfile \in KeyIds \cup {Nobody, Torn} /\ runsAs \in KeyIds \cup {Nobody}
    /\ drawn \in 0..MaxKeys /\ mishaps \in 0..MaxMishaps
    /\ certs \subseteq Certificate
    /\ trusts \in [KeyIds -> {"UNKNOWN", "PENDING", "TRUSTED", "REVOKED"}]
    /\ ToSet(moved) \subseteq certs /\ IsInjective(moved)
    /\ approved \subseteq KeyIds

KInit ==
    /\ ring = Nobody /\ plain = Nobody /\ hasRing \in BOOLEAN
    /\ idfile = Nobody /\ runsAs = Nobody /\ drawn = 0 /\ mishaps = 0
    /\ certs = {}
    /\ trusts = [k \in KeyIds |-> "UNKNOWN"] /\ moved = <<>> /\ approved = {}

-----------------------------------------------------------------------------
(* The device.                                                             *)

Mishap == mishaps < MaxMishaps /\ mishaps' = mishaps + 1

\* save_private_key(): to the keyring, or to the file if there is none or it
\* raises.
SavePrivateKey(k, raises) ==
    IF hasRing /\ ~raises THEN ring' = k /\ plain' = plain
                          ELSE plain' = k /\ ring' = ring

\* load_private_key(): from the keyring, or from the file if there is none, it
\* raises or it has no key.
LoadPrivateKey(raises) ==
    IF hasRing /\ ~raises /\ ring # Nobody THEN ring ELSE plain

\* What has been written when _create_new() or rotate_identity() is cut short:
\* nothing, the beginning of the fallback file, the private key, or also the
\* beginning of identity.json.
Cuts == {"nothing", "torn key", "key", "torn"}

\* Writes a new identity.  It is whole only if nothing cut it short.
WriteIdentity(k, cut, raises) ==
    /\ CASE cut = "nothing" -> UNCHANGED <<ring, plain>>
         [] cut = "torn key" -> (~hasRing \/ raises) /\ plain' = Torn /\ ring' = ring
         [] OTHER -> SavePrivateKey(k, raises)
    /\ idfile' = IF cut = "whole" THEN k ELSE IF cut = "torn" THEN Torn ELSE idfile
    /\ runsAs' = IF cut = "whole" THEN k ELSE Nobody
    /\ drawn < MaxKeys /\ drawn' = drawn + 1
    /\ IF cut # "whole" \/ raises THEN Mishap ELSE UNCHANGED mishaps
    /\ raises => hasRing /\ cut # "nothing"
    /\ UNCHANGED hasRing

\* load_or_create_identity() without an identity.json: _create_new().
CreateNew ==
    /\ runsAs = Nobody /\ idfile = Nobody
    /\ \E cut \in Cuts \cup {"whole"}, raises \in BOOLEAN :
          WriteIdentity(drawn + 1, cut, raises)
    /\ UNCHANGED <<certs, table>>

\* Mutant: the stored key is not compared with identity.json.
LoadExistingUnchecked ==
    /\ runsAs = Nobody /\ idfile \in KeyIds
    /\ \E raises \in BOOLEAN :
          /\ LoadPrivateKey(raises) # Nobody
          /\ runsAs' = LoadPrivateKey(raises)
          /\ IF raises THEN hasRing /\ Mishap ELSE UNCHANGED mishaps
    /\ UNCHANGED <<ring, plain, hasRing, idfile, drawn, certs, table>>

\* load_or_create_identity() with one: _load_existing() raises if identity.json
\* cannot be read, and if it does not name the stored key.
LoadExisting ==
    /\ runsAs = Nobody /\ idfile \in KeyIds
    /\ \E raises \in BOOLEAN :
          /\ LoadPrivateKey(raises) = idfile
          /\ IF raises THEN hasRing /\ Mishap ELSE UNCHANGED mishaps
    /\ runsAs' = idfile
    /\ UNCHANGED <<ring, plain, hasRing, idfile, drawn, certs, table>>

\* Deleting identity.json, which is what the error message advises.
DeleteIdentityFile ==
    /\ runsAs = Nobody /\ idfile # Nobody
    /\ idfile = Torn \/ LoadPrivateKey(FALSE) # idfile
    /\ idfile' = Nobody
    /\ UNCHANGED <<ring, plain, hasRing, runsAs, drawn, mishaps, certs, table>>

Stop ==
    /\ runsAs # Nobody /\ runsAs' = Nobody
    /\ UNCHANGED <<ring, plain, hasRing, idfile, drawn, mishaps, certs, table>>

\* create_transition_certificate(), signed with the old key.
Transition(old, new) == [old |-> old, new |-> new, time |-> Cardinality(certs) + 1]

\* rotate_identity(): the certificate is made first and returned last.
RotateIdentity ==
    /\ runsAs # Nobody
    /\ \E cut \in Cuts \cup {"whole"}, raises \in BOOLEAN :
          /\ WriteIdentity(drawn + 1, cut, raises)
          /\ certs' = IF cut = "whole" THEN certs \cup {Transition(runsAs, drawn + 1)}
                                       ELSE certs
    /\ UNCHANGED table

-----------------------------------------------------------------------------
(* The peer.                                                               *)

\* A handshake with an unknown key: record_first_seen().
RecordFirstSeen ==
    /\ runsAs # Nobody /\ trusts[runsAs] = "UNKNOWN"
    /\ trusts' = [trusts EXCEPT ![runsAs] = "PENDING"]
    /\ UNCHANGED <<identity, moved, approved>>

\* approve()
ApproveKey(k) ==
    /\ trusts[k] \in {"PENDING", "TRUSTED"}
    /\ trusts' = [trusts EXCEPT ![k] = "TRUSTED"]
    /\ approved' = approved \cup {k}
    /\ UNCHANGED <<identity, moved>>

\* revoke_device()
RevokeKey(k) ==
    /\ trusts[k] \in {"PENDING", "TRUSTED"}
    /\ trusts' = [trusts EXCEPT ![k] = "REVOKED"]
    /\ UNCHANGED <<identity, moved, approved>>

\* Mutants: a key that the user never approved carries trust; a revoked key is
\* promoted.
CarriedFromPending(c) ==
    IF trusts[c.old] # "UNKNOWN" /\ trusts[c.new] \in {"UNKNOWN", "PENDING"}
    THEN [trusts EXCEPT ![c.new] = "TRUSTED"] ELSE trusts
CarriedToRevoked(c) ==
    IF trusts[c.old] = "TRUSTED" THEN [trusts EXCEPT ![c.new] = "TRUSTED"] ELSE trusts

\* Trust carries over, but not to a revoked key.
Carried(c) ==
    IF trusts[c.old] = "TRUSTED" /\ trusts[c.new] \in {"UNKNOWN", "PENDING"}
    THEN [trusts EXCEPT ![c.new] = "TRUSTED"] ELSE trusts

\* INSERT OR REPLACE INTO identity_transitions
Inserted(c) == Append(SelectSeq(moved, LAMBDA d : d # c), c)

\* record_rotation()
RecordRotation(c) ==
    /\ trusts[c.old] # "REVOKED"
    /\ trusts' = Carried(c) /\ moved' = Inserted(c)
    /\ UNCHANGED <<identity, approved>>

RECURSIVE Walked(_)
Walked(visited) ==
    LET next == visited
            \cup {c.new : c \in {d \in ToSet(moved) : d.old \in visited}}
            \cup {c.old : c \in {d \in ToSet(moved) : d.new \in visited}}
    IN  IF next = visited THEN visited ELSE Walked(next)

\* _order_key(): the time of the transition that introduced a key.
Introduced(k) ==
    LET Rows == {c \in ToSet(moved) : c.new = k}
    IN  IF Rows = {} THEN 0 ELSE (CHOOSE c \in Rows : TRUE).time

\* get_rotation_chain()
GetRotationChain(k) ==
    SetToSortSeq(Walked({k}), LAMBDA i, j : Introduced(i) < Introduced(j))

\* check_with_rotation(); the key of a device id never changes.
CheckWithRotation(k) ==
    LET found == {trusts[j] : j \in ToSet(GetRotationChain(k))}
    IN  IF "REVOKED" \in found THEN "REVOKED"
        ELSE IF "TRUSTED" \in found THEN "TRUSTED" ELSE trusts[k]

KNext ==
    \/ CreateNew \/ LoadExisting \/ DeleteIdentityFile \/ Stop \/ RotateIdentity
    \/ RecordFirstSeen
    \/ \E k \in KeyIds : ApproveKey(k) \/ RevokeKey(k)
    \/ \E c \in certs : RecordRotation(c)

KSpec == KInit /\ [][KNext]_kvars

-----------------------------------------------------------------------------
(* Properties.                                                             *)

\* The device runs only with the key its identity.json names, and that key is
\* stored, whatever crashed before and wherever the keyring failed: a device
\* never comes up under another identity than its own.  And unless a crash or
\* the keyring interfered it can come up again, after any number of rotations
\* (_load_existing(), rotate_identity()).
RunsAsNamed ==
    /\ runsAs # Nobody => runsAs = idfile /\ runsAs \in {ring, plain}
    /\ mishaps = 0 /\ idfile # Nobody => LoadPrivateKey(FALSE) = idfile

\* One revoked key taints its whole chain for good: no approval, rotation or
\* late certificate brings any of its keys back (check_with_rotation()).
TaintIsFinal ==
    [][\A k \in KeyIds : CheckWithRotation(k) = "REVOKED" =>
                       CheckWithRotation(k)' = "REVOKED"]_kvars

\* A key is trusted only if the user has approved it or a key of its chain:
\* certificates carry trust and never make it (record_rotation()).
TrustIsEarned ==
    \A k \in KeyIds : CheckWithRotation(k) = "TRUSTED" =>
        ToSet(GetRotationChain(k)) \cap approved # {}
=============================================================================
