---------------------------- MODULE VaultProofs -----------------------------
(***************************************************************************)
(* Proofs about module Vault, for any number of lock workers, rows, keys   *)
(* and faults.                                                             *)
(***************************************************************************)
EXTENDS Vault, TLAPS

Crit(d) == IF d = None THEN 0 ELSE d.crit
Newest == IF Unlocked THEN work ELSE disk

\* The stores and the auto-flush task exist with the working copy.
Wired == LockedIsDetached /\ (flusher => Unlocked)

\* Before the first unlock there is nothing volatile, and no vault without a
\* key file.
Before ==
    /\ app \in {"off", "prompt"} =>
          /\ work = None /\ stale = None /\ ~relocking
          /\ \A w \in Workers : pc[w] = "idle"
    /\ keyfile = None => disk = None /\ app \in {"off", "prompt"}

\* A worker that is about to prompt finds the vault locked.
Prompts == PromptedIsLocked /\ \A w \in Workers : pc[w] = "start" => ~Unlocked

\* No copy has rows that were not written, and a copy that was left behind
\* is left by a fault.
Copies ==
    /\ Durable(disk) <= written /\ Durable(work) <= written /\ Durable(stale) <= written
    /\ stale # None => failed /\ faults # 0

\* Once the program is up, the trust decisions are in every copy.
Migrated ==
    /\ MigrationKeepsTrust
    /\ HasLegacy => /\ work # None => work.trust
                    /\ stale # None => stale.trust
                    /\ app \in {"up", "exiting"} => ~legacy

\* Without a fault the newest copy has the verifier the key file asks for.
Keys == faults = 0 /\ keyfile # None => Crit(Newest) = keyfile

VInv == VTypeOK /\ Wired /\ Before /\ Prompts /\ Copies /\ Migrated /\ Keys /\ LockLosesNothing

\* Copies of the database, in the terms of the types.
LEMMA Types ==
    ASSUME VTypeOK
    PROVE  /\ disk = None \/ disk \in Contents
           /\ work = None \/ work \in Contents
           /\ stale = None \/ stale \in Contents
           /\ keyfile = None \/ keyfile \in 0..MaxGen
           /\ legacy \in BOOLEAN /\ attached \in BOOLEAN /\ flusher \in BOOLEAN
           /\ autoOn \in BOOLEAN /\ idle \in BOOLEAN /\ relocking \in BOOLEAN
           /\ failed \in BOOLEAN
           /\ pc \in [Workers -> {"idle", "start", "cancel", "modal"}]
           /\ gen \in 0..MaxGen /\ written \in 0..MaxRows /\ faults \in 0..MaxFaults
  BY DEF VTypeOK

LEMMA ContentsFacts ==
    /\ None \notin Contents /\ None \notin Nat /\ Fresh \in Contents
    /\ Fresh.rows = 0 /\ Fresh.crit = 0
    /\ \A d \in Contents :
          /\ d.rows \in 0..MaxRows /\ d.crit \in 0..MaxGen
          /\ d.auto \in BOOLEAN /\ d.trust \in BOOLEAN
          /\ Durable(d) = d.rows /\ Crit(d) = d.crit
    /\ Durable(None) = 0 /\ Crit(None) = 0
  <1>1. None \notin Contents /\ None \notin Nat
    BY NoneIsNothing
  <1>2. /\ Fresh \in Contents /\ Fresh.rows = 0 /\ Fresh.crit = 0
    BY VaultBounds DEF Fresh, Contents
  <1>3. ASSUME NEW d \in Contents
        PROVE  /\ d.rows \in 0..MaxRows /\ d.crit \in 0..MaxGen
               /\ d.auto \in BOOLEAN /\ d.trust \in BOOLEAN
    BY DEF Contents
  <1>4. ASSUME NEW d \in Contents PROVE Durable(d) = d.rows /\ Crit(d) = d.crit
    BY <1>1 DEF Durable, Crit
  <1>5. Durable(None) = 0 /\ Crit(None) = 0
    BY DEF Durable, Crit
  <1> QED BY <1>1, <1>2, <1>3, <1>4, <1>5

\* Steps of loops, workers and commands that leave the database alone.
LEMMA DataKeeps ==
    ASSUME VInv,
           UNCHANGED <<keyfile, legacy, disk, work, stale, attached, flusher, gen,
                       written, failed, faults>>,
           \/ app' = app
           \/ app = "up" /\ app' = "exiting"
    PROVE  Wired' /\ Copies' /\ Migrated' /\ Keys' /\ LockLosesNothing'
  <1>1. Unlocked' = Unlocked /\ Newest' = Newest
    BY DEF Unlocked, Newest
  <1>2. Wired'
    BY <1>1 DEF VInv, Wired, LockedIsDetached
  <1>3. Copies'
    BY DEF VInv, Copies, Durable
  <1>4. Migrated'
    BY DEF VInv, Migrated, MigrationKeepsTrust
  <1>5. Keys'
    BY <1>1 DEF VInv, Keys, Crit
  <1>6. LockLosesNothing'
    BY DEF VInv, LockLosesNothing, Durable, Unlocked
  <1> QED BY <1>2, <1>3, <1>4, <1>5, <1>6

\* What Prompt(w) does when the vault is locked.
LEMMA PromptKeeps ==
    ASSUME VInv, NEW w \in Workers, Prompt(w), work' = None
    PROVE  /\ Prompts' /\ relocking' \in BOOLEAN
           /\ pc' \in [Workers -> {"idle", "start", "cancel", "modal"}]
  <1>0. /\ pc \in [Workers -> {"idle", "start", "cancel", "modal"}] /\ relocking \in BOOLEAN
        /\ \A v \in Workers : pc[v] = "modal" => relocking
        /\ \A u, v \in Workers : pc[u] = "modal" /\ pc[v] = "modal" => u = v
    BY Types DEF VInv, Prompts, PromptedIsLocked
  <1>1. ~Unlocked'
    BY DEF Unlocked
  <1>2. CASE relocking
    <2>1. pc' = [pc EXCEPT ![w] = "idle"] /\ relocking' = relocking
      BY <1>2 DEF Prompt
    <2> QED BY <1>0, <1>1, <1>2, <2>1 DEF Prompts, PromptedIsLocked
  <1>3. CASE ~relocking
    <2>1. pc' = [pc EXCEPT ![w] = "modal"] /\ relocking' = TRUE
      BY <1>3 DEF Prompt
    <2> QED BY <1>0, <1>1, <1>3, <2>1 DEF Prompts, PromptedIsLocked
  <1> QED BY <1>2, <1>3

\* The locked part of _perform_hard_lock(): what was in the working copy is on
\* disk, or the flush failed and the copy is left behind.
LEMMA LockKeeps ==
    ASSUME VInv, HardLock \/ HardLockFails, UNCHANGED <<keyfile, legacy, gen, written>>,
           \/ app' = app
           \/ app = "up" /\ app' = "exiting"
    PROVE  /\ work' = None
           /\ {disk', stale'} \subseteq {None} \cup Contents
           /\ attached' = FALSE /\ flusher' = FALSE /\ failed' \in BOOLEAN
           /\ faults' \in 0..MaxFaults
           /\ disk = None \/ disk' # None
           /\ keyfile = None => disk' = None /\ stale' = None
           /\ app \in {"off", "prompt"} => stale' = None
           /\ Wired' /\ Copies' /\ Migrated' /\ Keys' /\ LockLosesNothing'
  <1> USE ContentsFacts, VaultBounds, Types
  <1>0. /\ VTypeOK /\ Wired /\ Before /\ Copies /\ Migrated /\ Keys /\ LockLosesNothing
        /\ keyfile = None => work = None /\ disk = None
        /\ app \in {"off", "prompt"} => work = None
    BY DEF VInv, Before
  <1>1. CASE HardLock
    <2>1. /\ work' = None /\ stale' = None /\ attached' = FALSE /\ flusher' = FALSE
          /\ disk' = Newest /\ failed' = failed /\ faults' = faults
      BY <1>1 DEF HardLock, Newest
    <2>2. (disk' = None \/ disk' \in Contents) /\ (disk = None \/ disk' # None)
      BY <1>0, <2>1 DEF Newest, Unlocked
    <2>3. ~Unlocked' /\ Newest' = Newest
      BY <2>1 DEF Unlocked, Newest
    <2>4. Wired'
      BY <2>1, <2>3 DEF Wired, LockedIsDetached
    <2>5. Copies'
      BY <1>0, <2>1 DEF Copies, Durable, Newest
    <2>6. Migrated'
      BY <1>0, <2>1 DEF Migrated, MigrationKeepsTrust, Newest, Unlocked
    <2>7. Keys'
      BY <1>0, <2>1, <2>3 DEF Keys, Crit
    <2>8. LockLosesNothing'
      BY <1>0, <2>1, <2>3 DEF LockLosesNothing, Newest, Unlocked, Durable
    <2>9. keyfile = None => disk' = None
      BY <1>0, <2>1 DEF Newest, Unlocked
    <2> QED BY <1>0, <2>1, <2>2, <2>4, <2>5, <2>6, <2>7, <2>8, <2>9
  <1>2. CASE HardLockFails
    <2>1. /\ work # None /\ work' = None /\ stale' = work /\ attached' = FALSE
          /\ flusher' = FALSE /\ disk' = disk /\ failed' = TRUE
          /\ faults < MaxFaults /\ faults' = faults + 1
      BY <1>2 DEF HardLockFails, Unlocked, Fault
    <2>2. faults' \in 0..MaxFaults /\ faults' # 0
      BY <1>0, <2>1
    <2>3. ~Unlocked'
      BY <2>1 DEF Unlocked
    <2>4. Wired'
      BY <2>1, <2>3 DEF Wired, LockedIsDetached
    <2>5. Copies'
      BY <1>0, <2>1, <2>2 DEF Copies, Durable
    <2>6. Migrated'
      BY <1>0, <2>1 DEF Migrated, MigrationKeepsTrust
    <2>7. Keys' /\ LockLosesNothing'
      BY <2>1, <2>2 DEF Keys, LockLosesNothing
    <2> QED BY <1>0, <2>1, <2>2, <2>4, <2>5, <2>6, <2>7
  <1> QED BY <1>1, <1>2

\* The end of the process, with what it flushed last.
LEMMA StoppedKeeps ==
    ASSUME VTypeOK, Stopped, UNCHANGED keyfile, keyfile = None => disk' = None
    PROVE  /\ work' = None /\ stale' = None /\ Wired' /\ Before' /\ Prompts'
           /\ {attached', flusher', autoOn', idle', relocking'} \subseteq BOOLEAN
           /\ pc' \in [Workers -> {"idle", "start", "cancel", "modal"}]
           /\ app' = "off" /\ auto' = "none" /\ cmd' = None
  <1>1. /\ app' = "off" /\ work' = None /\ stale' = None /\ attached' = FALSE
        /\ flusher' = FALSE /\ autoOn' = TRUE /\ idle' = FALSE /\ relocking' = FALSE
        /\ pc' = [w \in Workers |-> "idle"] /\ auto' = "none" /\ cmd' = None
    BY DEF Stopped
  <1>2. ~Unlocked'
    BY <1>1 DEF Unlocked
  <1>3. Wired'
    BY <1>1, <1>2 DEF Wired, LockedIsDetached
  <1>4. Before'
    BY <1>1 DEF Before
  <1>5. Prompts'
    BY <1>1, <1>2 DEF Prompts, PromptedIsLocked
  <1> QED BY <1>1, <1>3, <1>4, <1>5

\* A session opens on what the disk holds.
LEMMA OpenKeeps ==
    ASSUME VTypeOK, NEW db \in Contents, OpenSession(db)
    PROVE  /\ work' = db /\ work' # None /\ stale' = None /\ Wired'
           /\ {attached', flusher', autoOn', idle'} \subseteq BOOLEAN
  <1>1. /\ work' = db /\ stale' = None /\ attached' = TRUE /\ flusher' = TRUE
        /\ autoOn' = db.auto /\ idle' = FALSE
    BY DEF OpenSession
  <1>2. work' # None /\ autoOn' \in BOOLEAN
    BY <1>1, ContentsFacts
  <1>3. Wired'
    BY <1>1, <1>2 DEF Wired, LockedIsDetached, Unlocked
  <1> QED BY <1>1, <1>2, <1>3

\* The rest of _setup(): migration, then the first unlock.
LEMMA SetupKeeps ==
    ASSUME VInv, SetupUnlock
    PROVE  VInv'
  <1> USE ContentsFacts, VaultBounds, Types
  <1>0. /\ VTypeOK /\ Before /\ Copies /\ Migrated /\ Keys /\ LockLosesNothing
        /\ work = None /\ stale = None /\ ~relocking /\ \A w \in Workers : pc[w] = "idle"
        /\ keyfile # None /\ app = "prompt"
    BY DEF VInv, SetupUnlock, Before
  <1>1. /\ Loaded \in Contents /\ Durable(Loaded) = Durable(disk) /\ Crit(Loaded) = Crit(disk)
        /\ HasLegacy /\ ~legacy => Loaded.trust
    BY <1>0 DEF Loaded, Durable, Crit, Migrated, MigrationKeepsTrust
  <1>2. \E db \in Contents :
           /\ Durable(db) = Durable(disk) /\ Crit(db) = Crit(disk)
           /\ disk' = disk \/ disk' = db
           /\ \/ /\ faults' = faults /\ legacy' = FALSE
                 /\ HasLegacy => db.trust /\ disk' # None /\ disk'.trust
                 /\ OpenSession(db) /\ app' = "up" /\ auto' = "poll"
                 /\ UNCHANGED <<relocking, pc, cmd>>
              \/ /\ faults' = faults + 1 /\ faults < MaxFaults /\ legacy' = legacy
                 /\ legacy /\ disk' = db /\ Stopped
    <2>1. CASE legacy
      <3> DEFINE db == [Loaded EXCEPT !.trust = TRUE]
      <3>1. /\ db \in Contents /\ db.trust = TRUE
            /\ Durable(db) = Durable(Loaded) /\ Crit(db) = Crit(Loaded)
        <4>1. db \in Contents
          BY <1>1 DEF Contents
        <4>2. db.trust = TRUE /\ db.rows = Loaded.rows /\ db.crit = Loaded.crit
          BY <1>1 DEF Contents
        <4> HIDE DEF db
        <4> QED BY <1>1, <4>1, <4>2
      <3>2. disk' = db
        BY <2>1 DEF SetupUnlock, Migrate
      <3>3. CASE faults' = faults
        <4>0. faults # faults + 1
          BY <1>0
        <4>1. legacy' = FALSE
          BY <2>1, <3>3, <4>0 DEF SetupUnlock, Migrate, Fault
        <4>2. /\ OpenSession(disk') /\ app' = "up" /\ auto' = "poll"
              /\ UNCHANGED <<relocking, pc, cmd>>
          BY <2>1, <3>3 DEF SetupUnlock
        <4>3. OpenSession(db)
          BY <3>2, <4>2 DEF OpenSession
        <4> HIDE DEF db
        <4> QED BY <1>1, <3>1, <3>2, <3>3, <4>1, <4>2, <4>3
      <3>4. CASE faults' # faults
        <4>1. /\ faults' = faults + 1 /\ faults < MaxFaults /\ legacy' = legacy /\ Stopped
          BY <2>1, <3>4 DEF SetupUnlock, Migrate, Fault, NoFault
        <4> HIDE DEF db
        <4> QED BY <1>1, <2>1, <3>1, <3>2, <4>1
      <3> QED BY <3>3, <3>4
    <2>2. CASE ~legacy
      <3>1. /\ legacy' = legacy /\ disk' = disk /\ faults' = faults
            /\ OpenSession(Loaded) /\ app' = "up" /\ auto' = "poll"
            /\ UNCHANGED <<relocking, pc, cmd>>
        BY <2>2 DEF SetupUnlock
      <3>2. HasLegacy => disk' # None /\ disk'.trust
        BY <1>0, <2>2, <3>1 DEF Migrated, MigrationKeepsTrust
      <3>3. legacy' = FALSE
        BY <1>0, <2>2, <3>1
      <3> QED BY <1>1, <2>2, <3>1, <3>2, <3>3
    <2> QED BY <2>1, <2>2
  <1>3. PICK db \in Contents :
           /\ Durable(db) = Durable(disk) /\ Crit(db) = Crit(disk)
           /\ disk' = disk \/ disk' = db
           /\ \/ /\ faults' = faults /\ legacy' = FALSE
                 /\ HasLegacy => db.trust /\ disk' # None /\ disk'.trust
                 /\ OpenSession(db) /\ app' = "up" /\ auto' = "poll"
                 /\ UNCHANGED <<relocking, pc, cmd>>
              \/ /\ faults' = faults + 1 /\ faults < MaxFaults /\ legacy' = legacy
                 /\ legacy /\ disk' = db /\ Stopped
    BY <1>2
  <1>4. UNCHANGED <<keyfile, gen, written, failed>>
    BY DEF SetupUnlock
  <1>5. CASE /\ faults' = faults /\ legacy' = FALSE
             /\ HasLegacy => db.trust /\ disk' # None /\ disk'.trust
             /\ OpenSession(db) /\ app' = "up" /\ auto' = "poll"
             /\ UNCHANGED <<relocking, pc, cmd>>
    <2>1. /\ work' = db /\ work' # None /\ stale' = None /\ Wired'
          /\ {attached', flusher', autoOn', idle'} \subseteq BOOLEAN
      BY <1>0, <1>5, OpenKeeps
    <2>2. VTypeOK'
      BY <1>0, <1>3, <1>4, <1>5, <2>1 DEF VTypeOK
    <2>3. Before'
      BY <1>0, <1>4, <1>5 DEF Before
    <2>4. Prompts'
      BY <1>0, <1>5 DEF Prompts, PromptedIsLocked
    <2>5. Copies'
      BY <1>0, <1>3, <1>4, <2>1 DEF Copies, Durable
    <2>6. Migrated'
      BY <1>5, <2>1 DEF Migrated, MigrationKeepsTrust
    <2>7. Keys'
      <3>1. Newest' = db /\ Newest = disk
        BY <1>0, <2>1 DEF Newest, Unlocked
      <3> QED BY <1>0, <1>3, <1>4, <1>5, <3>1 DEF Keys, Crit
    <2>8. LockLosesNothing'
      BY <1>0, <1>3, <1>4, <2>1 DEF LockLosesNothing, Unlocked, Durable
    <2> QED BY <2>1, <2>2, <2>3, <2>4, <2>5, <2>6, <2>7, <2>8 DEF VInv
  <1>6. CASE /\ faults' = faults + 1 /\ faults < MaxFaults /\ legacy' = legacy
             /\ legacy /\ disk' = db /\ Stopped
    <2>1. /\ work' = None /\ stale' = None /\ Wired' /\ Before' /\ Prompts'
          /\ {attached', flusher', autoOn', idle', relocking'} \subseteq BOOLEAN
          /\ pc' \in [Workers -> {"idle", "start", "cancel", "modal"}]
          /\ app' = "off" /\ auto' = "none" /\ cmd' = None
      BY <1>0, <1>4, <1>6, StoppedKeeps
    <2>2. faults' \in 0..MaxFaults /\ faults' # 0
      BY <1>0, <1>6
    <2>3. VTypeOK'
      BY <1>0, <1>4, <1>6, <2>1, <2>2 DEF VTypeOK
    <2>4. Copies'
      BY <1>0, <1>3, <1>4, <1>6, <2>1 DEF Copies, Durable
    <2>5. Migrated'
      BY <1>6, <2>1 DEF Migrated, MigrationKeepsTrust
    <2>6. Keys'
      BY <2>2 DEF Keys
    <2>7. LockLosesNothing'
      BY <1>0, <1>3, <1>4, <1>6, <2>1 DEF LockLosesNothing, Unlocked, Durable
    <2> QED BY <2>1, <2>3, <2>4, <2>5, <2>6, <2>7 DEF VInv
  <1> QED BY <1>3, <1>5, <1>6

LEMMA VInvInit == VInit => VInv
  <1> SUFFICES ASSUME VInit PROVE VInv
    OBVIOUS
  <1> USE ContentsFacts, VaultBounds, LegacyIsBoolean DEF VInit
  <1>1. VTypeOK
    <2>1. /\ gen \in 0..MaxGen /\ written \in 0..MaxRows /\ faults \in 0..MaxFaults
          /\ pc \in [Workers -> {"idle", "start", "cancel", "modal"}]
      OBVIOUS
    <2>2. /\ legacy \in BOOLEAN /\ failed \in BOOLEAN
          /\ {attached, flusher, autoOn, idle, relocking} \subseteq BOOLEAN
      BY Zenon
    <2>3. /\ {disk, work, stale} \subseteq {None} \cup Contents
          /\ keyfile \in {None} \cup (0..MaxGen) /\ cmd \in {None} \cup Command
          /\ app \in {"off", "prompt", "up", "exiting"}
          /\ auto \in {"none", "poll", "cancel", "dead"}
      BY Zenon
    <2> QED BY <2>1, <2>2, <2>3, Zenon DEF VTypeOK
  <1>2. Wired /\ Before
    BY DEF Wired, LockedIsDetached, Unlocked, Before
  <1>5. Prompts
    BY DEF Prompts, PromptedIsLocked, Unlocked
  <1>3. Copies /\ Keys /\ LockLosesNothing
    BY DEF Copies, Keys, LockLosesNothing, Unlocked
  <1>4. Migrated
    BY DEF Migrated, MigrationKeepsTrust
  <1> QED BY <1>1, <1>2, <1>3, <1>4, <1>5 DEF VInv

\* The working copy changes while the vault stays unlocked; rows counts what is
\* committed to it.
LEMMA UnlockedKeeps ==
    ASSUME VInv, work # None, work' \in Contents,
           UNCHANGED <<app, legacy, disk, stale, attached, flusher, relocking, pc, failed>>,
           keyfile' = keyfile \/ (keyfile # None /\ keyfile' # None),
           written' - written = work'.rows - work.rows, written' \in Nat,
           work'.rows >= work.rows,
           work'.trust = work.trust,
           faults' \in Nat, faults' >= faults,
           faults' = 0 => (keyfile' # None => work'.crit = keyfile')
    PROVE  Wired' /\ Before' /\ Prompts' /\ Copies' /\ Migrated' /\ Keys' /\ LockLosesNothing'
  <1> USE ContentsFacts, VaultBounds, Types
  <1>0. /\ VTypeOK /\ Wired /\ Before /\ Prompts /\ Copies /\ Migrated /\ LockLosesNothing
    BY DEF VInv
  <1>1. Unlocked /\ Unlocked' /\ work \in Contents /\ work' # None /\ Newest' = work'
    BY <1>0 DEF Unlocked, Newest
  <1>2. Wired'
    BY <1>0, <1>1 DEF Wired, LockedIsDetached
  <1>3. Before'
    BY <1>0 DEF Before
  <1>4. Prompts'
    BY <1>0, <1>1 DEF Prompts, PromptedIsLocked
  <1>5. Copies'
    <2>1. Durable(work') <= written'
      BY <1>0, <1>1 DEF Copies
    <2>2. Durable(disk') <= written' /\ Durable(stale') <= written'
      BY <1>0, <1>1 DEF Copies, Durable
    <2>3. stale' # None => failed' /\ faults' # 0
      BY <1>0 DEF Copies
    <2> QED BY <2>1, <2>2, <2>3 DEF Copies, Durable
  <1>6. Migrated'
    BY <1>0, <1>1 DEF Migrated, MigrationKeepsTrust
  <1>7. Keys'
    BY <1>1 DEF Keys, Crit
  <1>8. LockLosesNothing'
    BY <1>0, <1>1 DEF LockLosesNothing, Durable
  <1> QED BY <1>2, <1>3, <1>4, <1>5, <1>6, <1>7, <1>8

\* The answer of a critical-key command.
LEMMA CriticalKeeps ==
    ASSUME VInv, CriticalAnswered, app = "up", cmd # None, UNCHANGED <<idle, locking>>
    PROVE  VInv'
  <1> USE ContentsFacts, VaultBounds, Types
  <1>0. /\ VTypeOK /\ Before /\ Keys /\ work # None /\ work \in Contents /\ keyfile # None
        /\ cmd' = None
    BY DEF VInv, Before, CriticalAnswered, Unlocked
  <1>1. /\ UNCHANGED <<legacy, disk, stale, attached, flusher, autoOn, written, failed,
                       idle, relocking, pc, auto>>
    BY DEF CriticalAnswered, locking
  <1>2. PICK g \in 0..MaxGen : WriteCritical(g) /\ gen' \in 0..MaxGen
    <2>1. CASE cmd.op = "clear"
      BY <1>0, <2>1 DEF CriticalAnswered
    <2>2. CASE cmd.op # "clear"
      BY <1>0, <2>2 DEF CriticalAnswered
    <2> QED BY <2>1, <2>2
  <1>3. /\ work' \in Contents /\ work'.rows = work.rows /\ work'.trust = work.trust
        /\ work'.crit = g
    <2>1. work' = [work EXCEPT !.crit = g]
      BY <1>2 DEF WriteCritical
    <2> QED BY <1>0, <1>2, <2>1 DEF Contents
  <1>4. \/ keyfile' = g /\ app' = app /\ faults' = faults
        \/ keyfile' = keyfile /\ app' = "exiting" /\ faults < MaxFaults /\ faults' = faults + 1
    BY <1>2 DEF WriteCritical, Fault, NoFault
  <1>5. /\ faults' \in 0..MaxFaults /\ faults' >= faults /\ keyfile' \in 0..MaxGen
        /\ faults' = 0 => work'.crit = keyfile'
        /\ app' \in {"up", "exiting"}
    BY <1>0, <1>3, <1>4
  <1>6. VTypeOK'
    BY <1>0, <1>1, <1>2, <1>3, <1>5 DEF VTypeOK
  <1>7. Unlocked /\ Unlocked' /\ Newest' = work'
    BY <1>0, <1>3 DEF Unlocked, Newest
  <1>8. Wired'
    BY <1>1, <1>7 DEF VInv, Wired, LockedIsDetached
  <1>9. Before'
    BY <1>5 DEF Before
  <1>10. Prompts'
    BY <1>1, <1>7 DEF VInv, Prompts, PromptedIsLocked
  <1>11. Copies'
    <2>1. Durable(work') = Durable(work)
      BY <1>0, <1>3
    <2>2. stale' # None => failed' /\ faults' # 0
      BY <1>0, <1>1, <1>4 DEF VInv, Copies
    <2> QED BY <1>1, <2>1, <2>2 DEF VInv, Copies, Durable
  <1>12. Migrated'
    BY <1>0, <1>1, <1>3 DEF VInv, Migrated, MigrationKeepsTrust, Before
  <1>13. Keys'
    BY <1>3, <1>5, <1>7 DEF Keys, Crit
  <1>14. LockLosesNothing'
    BY <1>0, <1>1, <1>3, <1>7 DEF VInv, LockLosesNothing, Durable
  <1> QED BY <1>6, <1>8, <1>9, <1>10, <1>11, <1>12, <1>13, <1>14 DEF VInv

LEMMA ExitKeeps ==
    ASSUME VInv, Exit
    PROVE  VInv'
  <1> USE ContentsFacts, VaultBounds, Types
  <1> DEFINE db == IF Unlocked THEN work ELSE stale
  <1>0. /\ VTypeOK /\ Before /\ Copies /\ Migrated /\ Keys /\ LockLosesNothing /\ keyfile # None
        /\ app \in {"up", "exiting"}
        /\ HasLegacy => ~legacy
    BY DEF VInv, Before, Exit, Migrated
  <1>1. UNCHANGED <<keyfile, legacy, gen, written>> /\ Stopped
    BY DEF Exit
  <1>2. /\ work' = None /\ stale' = None /\ Wired' /\ Before' /\ Prompts'
        /\ {attached', flusher', autoOn', idle', relocking'} \subseteq BOOLEAN
        /\ pc' \in [Workers -> {"idle", "start", "cancel", "modal"}]
        /\ app' = "off" /\ auto' = "none" /\ cmd' = None
    BY <1>0, <1>1, StoppedKeeps
  <1>3. /\ db = None \/ db \in Contents
        /\ disk = None \/ disk \in Contents
        /\ \/ disk' = (IF db = None THEN disk ELSE db) /\ UNCHANGED <<failed, faults>>
           \/ db # None /\ faults < MaxFaults /\ faults' = faults + 1 /\ failed' = TRUE
              /\ disk' = disk
    BY <1>0 DEF Exit, Fault
  <1>4. /\ disk' \in {None} \cup Contents /\ faults' \in 0..MaxFaults /\ failed' \in BOOLEAN
    <2>1. disk' \in {None} \cup Contents
      <3> HIDE DEF db
      <3> QED BY <1>3
    <2>2. faults' \in 0..MaxFaults
      BY <1>0, <1>3
    <2>3. failed' \in BOOLEAN
      <3>1. failed \in BOOLEAN
        BY <1>0
      <3>2. failed' = failed \/ failed' = TRUE
        BY <1>3
      <3> QED BY <3>1, <3>2, Zenon
    <2> QED BY <2>1, <2>2, <2>3
  <1>5. VTypeOK'
    BY <1>0, <1>1, <1>2, <1>4 DEF VTypeOK
  <1>6. Copies'
    BY <1>0, <1>1, <1>2, <1>3 DEF Copies, Durable
  <1>7. Migrated'
    BY <1>0, <1>1, <1>2, <1>3 DEF Migrated, MigrationKeepsTrust
  <1>8. ~Unlocked' /\ Newest' = disk'
    BY <1>2 DEF Unlocked, Newest
  <1>9. Keys'
    <2>1. CASE faults' = 0
      <3>1. faults = 0 /\ stale = None /\ disk' = Newest
        BY <1>0, <1>3, <2>1 DEF Copies, Newest, Unlocked
      <3> QED BY <1>0, <1>1, <1>8, <3>1 DEF Keys, Crit
    <2> QED BY <2>1 DEF Keys
  <1>10. LockLosesNothing'
    <2>1. CASE ~failed'
      <3>1. ~failed /\ stale = None /\ disk' = Newest
        BY <1>0, <1>3, <2>1 DEF Copies, Newest, Unlocked
      <3> QED BY <1>0, <1>1, <1>8, <3>1 DEF LockLosesNothing, Newest, Durable
    <2> QED BY <2>1 DEF LockLosesNothing
  <1> QED BY <1>2, <1>5, <1>6, <1>7, <1>9, <1>10 DEF VInv

LEMMA CrashKeeps ==
    ASSUME VInv, Crash
    PROVE  VInv'
  <1> USE ContentsFacts, VaultBounds, Types
  <1>0. VTypeOK /\ Before /\ Copies /\ Migrated
    BY DEF VInv
  <1>1. /\ UNCHANGED <<keyfile, legacy, disk, gen, failed>> /\ Stopped
        /\ faults < MaxFaults /\ faults' = faults + 1 /\ written' = Durable(disk)
    BY DEF Crash, disks, Fault
  <1>2. /\ work' = None /\ stale' = None /\ Wired' /\ Before' /\ Prompts'
        /\ {attached', flusher', autoOn', idle', relocking'} \subseteq BOOLEAN
        /\ pc' \in [Workers -> {"idle", "start", "cancel", "modal"}]
        /\ app' = "off" /\ auto' = "none" /\ cmd' = None
    BY <1>0, <1>1, StoppedKeeps DEF Before
  <1>3. faults' \in 0..MaxFaults /\ faults' # 0 /\ written' \in 0..MaxRows
    BY <1>0, <1>1
  <1>4. VTypeOK'
    BY <1>0, <1>1, <1>2, <1>3 DEF VTypeOK
  <1>5. Copies'
    BY <1>1, <1>2, <1>3 DEF Copies, Durable
  <1>6. Migrated'
    BY <1>0, <1>1, <1>2 DEF Migrated, MigrationKeepsTrust
  <1>7. Keys'
    BY <1>3 DEF Keys
  <1>8. LockLosesNothing'
    BY <1>1, <1>2 DEF LockLosesNothing, Unlocked, Durable
  <1> QED BY <1>2, <1>4, <1>5, <1>6, <1>7, <1>8 DEF VInv

\* The steps of the program's start, and of the open database.
LEMMA DatabaseKeeps ==
    ASSUME VInv,
           \/ Start \/ CreateVault \/ Write \/ AutoFlush
           \/ \E on \in BOOLEAN : SetAutoLock(on)
    PROVE  VInv'
  <1> USE ContentsFacts, VaultBounds, Types DEF disks, session, locking, history
  <1>0. /\ VTypeOK /\ Wired /\ Before /\ Prompts /\ Copies /\ Migrated /\ Keys
        /\ LockLosesNothing
    BY DEF VInv
  <1>1. CASE Start
    <2>1. /\ app = "off" /\ app' = "prompt"
          /\ UNCHANGED <<keyfile, legacy, disk, work, stale, attached, flusher, autoOn, idle,
                         relocking, pc, auto, cmd, gen, written, failed, faults>>
      BY <1>1 DEF Start
    <2>2. Unlocked' = Unlocked /\ Newest' = Newest
      BY <2>1 DEF Unlocked, Newest
    <2>3. VTypeOK'
      BY <1>0, <2>1 DEF VTypeOK
    <2>4. Wired' /\ Before' /\ Prompts'
      BY <1>0, <2>1, <2>2 DEF Wired, LockedIsDetached, Before, Prompts, PromptedIsLocked
    <2>5. Copies' /\ Migrated'
      BY <1>0, <2>1 DEF Copies, Durable, Migrated, MigrationKeepsTrust
    <2>6. Keys' /\ LockLosesNothing'
      BY <1>0, <2>1, <2>2 DEF Keys, Crit, LockLosesNothing, Durable, Unlocked
    <2> QED BY <2>3, <2>4, <2>5, <2>6 DEF VInv
  <1>2. CASE CreateVault
    <2>1. /\ app = "prompt" /\ keyfile = None /\ keyfile' = 0
          /\ UNCHANGED <<app, legacy, disk, work, stale, attached, flusher, autoOn, idle,
                         relocking, pc, auto, cmd, gen, written, failed, faults>>
      BY <1>2 DEF CreateVault
    <2>2. Unlocked' = Unlocked /\ disk = None /\ Newest' = None
      BY <1>0, <2>1 DEF Unlocked, Newest, Before
    <2>3. VTypeOK'
      BY <1>0, <2>1 DEF VTypeOK
    <2>4. Wired' /\ Before' /\ Prompts'
      BY <1>0, <2>1, <2>2 DEF Wired, LockedIsDetached, Before, Prompts, PromptedIsLocked
    <2>5. Copies' /\ Migrated'
      BY <1>0, <2>1 DEF Copies, Durable, Migrated, MigrationKeepsTrust
    <2>6. Keys' /\ LockLosesNothing'
      BY <1>0, <2>1, <2>2 DEF Keys, Crit, LockLosesNothing, Durable, Unlocked
    <2> QED BY <2>3, <2>4, <2>5, <2>6 DEF VInv
  <1>3. CASE Write
    <2>1. /\ attached /\ written < MaxRows /\ written' = written + 1
          /\ work' = [work EXCEPT !.rows = @ + 1]
          /\ UNCHANGED <<app, keyfile, legacy, disk, stale, attached, flusher, autoOn, idle,
                         relocking, pc, auto, cmd, gen, failed, faults>>
      BY <1>3 DEF Write
    <2>2. work # None /\ work \in Contents /\ work.rows <= written
      BY <1>0, <2>1 DEF Wired, LockedIsDetached, Unlocked, Copies
    <2>3. /\ work' \in Contents /\ work'.rows = work.rows + 1 /\ work'.crit = work.crit
          /\ work'.trust = work.trust
      BY <1>0, <2>1, <2>2 DEF Contents
    <2>4. VTypeOK'
      BY <1>0, <2>1, <2>3 DEF VTypeOK
    <2>5. faults' = 0 => (keyfile' # None => work'.crit = keyfile')
      BY <1>0, <2>1, <2>2, <2>3 DEF Keys, Newest, Unlocked
    <2>6. /\ written' - written = work'.rows - work.rows /\ written' \in Nat
          /\ work'.rows >= work.rows /\ faults' \in Nat /\ faults' >= faults
      BY <1>0, <2>1, <2>2, <2>3
    <2>7. Wired' /\ Before' /\ Prompts' /\ Copies' /\ Migrated' /\ Keys' /\ LockLosesNothing'
      BY <2>1, <2>2, <2>3, <2>5, <2>6, UnlockedKeeps
    <2> QED BY <2>4, <2>7 DEF VInv
  <1>4. CASE AutoFlush
    <2>1. /\ flusher /\ work # None /\ work \in Contents
          /\ UNCHANGED <<app, keyfile, legacy, work, stale, attached, autoOn, idle,
                         relocking, pc, auto, cmd, gen, written, failed>>
          /\ \/ disk' = work /\ flusher' = flusher /\ faults' = faults
             \/ faults < MaxFaults /\ faults' = faults + 1 /\ flusher' = FALSE /\ disk' = disk
      BY <1>0, <1>4 DEF AutoFlush, Wired, Unlocked, Fault, NoFault
    <2>2. /\ disk' \in {None} \cup Contents /\ flusher' \in BOOLEAN /\ faults' \in 0..MaxFaults
          /\ faults' = 0 => faults = 0
          /\ faults # 0 => faults' # 0
      <3>1. flusher' \in BOOLEAN
        BY <1>0, <2>1, Zenon DEF VTypeOK
      <3>2. disk' \in {None} \cup Contents
        <4>1. disk = None \/ disk \in Contents
          BY <1>0
        <4>2. disk' = disk \/ disk' = work
          BY <2>1
        <4> QED BY <2>1, <4>1, <4>2
      <3>3. /\ faults' \in 0..MaxFaults
            /\ faults' = 0 => faults = 0
            /\ faults # 0 => faults' # 0
        <4>1. faults' = faults \/ (faults < MaxFaults /\ faults' = faults + 1)
          BY <2>1
        <4> QED BY <1>0, <4>1
      <3> QED BY <3>1, <3>2, <3>3
    <2>3. Unlocked /\ Unlocked' /\ Newest' = work /\ Newest = work
      BY <2>1 DEF Unlocked, Newest
    <2>4. VTypeOK'
      BY <1>0, <2>1, <2>2 DEF VTypeOK
    <2>5. Wired' /\ Prompts'
      BY <1>0, <2>1, <2>3 DEF Wired, LockedIsDetached, Prompts, PromptedIsLocked
    <2>6. Before'
      BY <1>0, <2>1 DEF Before
    <2>7. Copies'
      BY <1>0, <2>1, <2>2 DEF Copies, Durable
    <2>8. Migrated'
      BY <1>0, <2>1 DEF Migrated, MigrationKeepsTrust
    <2>9. Keys' /\ LockLosesNothing'
      BY <1>0, <2>1, <2>2, <2>3 DEF Keys, Crit, LockLosesNothing, Durable
    <2> QED BY <2>4, <2>5, <2>6, <2>7, <2>8, <2>9 DEF VInv
  <1>5. ASSUME NEW on \in BOOLEAN, SetAutoLock(on) PROVE VInv'
    <2>1. /\ work # None /\ autoOn' = on /\ idle' = FALSE
          /\ work' = [work EXCEPT !.auto = on]
          /\ UNCHANGED <<app, keyfile, legacy, disk, stale, attached, flusher,
                         relocking, pc, auto, cmd, gen, written, failed, faults>>
      BY <1>5 DEF SetAutoLock, Unlocked
    <2>2. work \in Contents /\ work.rows <= written
      BY <1>0, <2>1 DEF Copies
    <2>3. /\ work' \in Contents /\ work'.rows = work.rows /\ work'.crit = work.crit
          /\ work'.trust = work.trust
      BY <1>0, <2>1, <2>2 DEF Contents
    <2>4. VTypeOK'
      <3>1. {attached', flusher', autoOn', idle', relocking'} \subseteq BOOLEAN
        BY <1>0, <1>5, <2>1, Zenon DEF VTypeOK
      <3>2. {disk', work', stale'} \subseteq {None} \cup Contents
        BY <1>0, <2>1, <2>3 DEF VTypeOK
      <3> QED BY <1>0, <2>1, <3>1, <3>2 DEF VTypeOK
    <2>5. faults' = 0 => (keyfile' # None => work'.crit = keyfile')
      BY <1>0, <2>1, <2>2, <2>3 DEF Keys, Newest, Unlocked
    <2>6. /\ written' - written = work'.rows - work.rows /\ written' \in Nat
          /\ work'.rows >= work.rows /\ faults' \in Nat /\ faults' >= faults
      BY <1>0, <2>1, <2>2, <2>3
    <2>7. Wired' /\ Before' /\ Prompts' /\ Copies' /\ Migrated' /\ Keys' /\ LockLosesNothing'
      BY <2>1, <2>2, <2>3, <2>5, <2>6, UnlockedKeeps
    <2> QED BY <2>4, <2>7 DEF VInv
  <1> QED BY <1>1, <1>2, <1>3, <1>4, <1>5

\* The steps of loops, workers and commands that leave the database alone.
LEMMA WaitingKeeps ==
    ASSUME VInv,
           \/ TimePasses \/ Touch \/ AutoPoll
           \/ \E op \in CriticalOps : BeginCritical(op)
           \/ \E w \in Workers : LockKey(w) \/ InputWhenLocked(w) \/ WorkerStarts(w)
           \/ /\ app = "up"
              /\ Dropped \/ RaisesLocked
              /\ UNCHANGED <<idle, locking>>
    PROVE  VInv'
  <1> USE Types DEF disks, session, locking, history
  <1>0. VTypeOK /\ Before /\ Prompts
    BY DEF VInv
  <1>1. /\ UNCHANGED <<keyfile, legacy, disk, work, stale, attached, flusher, autoOn, gen,
                       written, failed, faults>>
        /\ app \in {"up", "exiting"} /\ app' \in {"up", "exiting"}
        /\ app' = app \/ (app = "up" /\ app' = "exiting")
    BY DEF TimePasses, Touch, Ready, AutoPoll, BeginCritical, LockKey, InputWhenLocked,
           WorkerStarts, Dropped, RaisesLocked
  <1>2. Wired' /\ Copies' /\ Migrated' /\ Keys' /\ LockLosesNothing'
    BY <1>1, DataKeeps
  <1>3. Before'
    BY <1>0, <1>1 DEF Before
  <1>4. /\ idle' \in BOOLEAN
        /\ auto' \in {"none", "poll", "cancel", "dead"}
        /\ cmd' \in {None} \cup Command
    <2>1. idle' = idle \/ idle' = TRUE \/ idle' = FALSE
      BY DEF TimePasses, Touch, AutoPoll, BeginCritical, LockKey, InputWhenLocked,
             WorkerStarts
    <2>2. auto' = auto \/ auto' = "cancel"
      BY DEF TimePasses, Touch, AutoPoll, BeginCritical, LockKey, InputWhenLocked,
             WorkerStarts
    <2>3. \/ cmd' = cmd \/ cmd' = None
          \/ \E op \in CriticalOps : BeginCritical(op)
      BY DEF TimePasses, Touch, AutoPoll, LockKey, InputWhenLocked, WorkerStarts,
             Dropped, RaisesLocked
    <2>4. ASSUME NEW op \in CriticalOps, BeginCritical(op) PROVE cmd' \in Command
      <3>1. keyfile \in 0..MaxGen /\ cmd' = [op |-> op, kf |-> keyfile]
        BY <1>0, <2>4 DEF BeginCritical, Ready, Before
      <3> QED BY <3>1 DEF Command
    <2>5. cmd' \in {None} \cup Command
      BY <1>0, <2>3, <2>4 DEF VTypeOK
    <2> QED BY <1>0, <2>1, <2>2, <2>5 DEF VTypeOK
  <1>5. /\ Prompts' /\ relocking' \in BOOLEAN
        /\ pc' \in [Workers -> {"idle", "start", "cancel", "modal"}]
    <2>1. CASE UNCHANGED <<relocking, pc>>
      BY <1>0, <1>1, <2>1 DEF Prompts, PromptedIsLocked, Unlocked
    <2>2. ASSUME NEW w \in Workers, Prompt(w), ~Unlocked
          PROVE  /\ Prompts' /\ relocking' \in BOOLEAN
                 /\ pc' \in [Workers -> {"idle", "start", "cancel", "modal"}]
      BY <1>1, <2>2, PromptKeeps DEF Unlocked
    <2>3. ASSUME NEW w \in Workers, NEW s \in {"start", "cancel"},
                 pc' = [pc EXCEPT ![w] = s], UNCHANGED relocking, s = "start" => ~Unlocked
          PROVE  /\ Prompts' /\ relocking' \in BOOLEAN
                 /\ pc' \in [Workers -> {"idle", "start", "cancel", "modal"}]
      BY <1>0, <1>1, <2>3 DEF Prompts, PromptedIsLocked, Unlocked
    <2>4. ASSUME NEW w \in Workers, LockKey(w)
          PROVE  /\ Prompts' /\ relocking' \in BOOLEAN
                 /\ pc' \in [Workers -> {"idle", "start", "cancel", "modal"}]
      BY <2>2, <2>3, <2>4 DEF LockKey
    <2>5. ASSUME NEW w \in Workers, InputWhenLocked(w)
          PROVE  /\ Prompts' /\ relocking' \in BOOLEAN
                 /\ pc' \in [Workers -> {"idle", "start", "cancel", "modal"}]
      BY <2>3, <2>5 DEF InputWhenLocked
    <2>6. ASSUME NEW w \in Workers, WorkerStarts(w)
          PROVE  /\ Prompts' /\ relocking' \in BOOLEAN
                 /\ pc' \in [Workers -> {"idle", "start", "cancel", "modal"}]
      BY <1>0, <2>2, <2>6 DEF WorkerStarts, Prompts
    <2>7. \/ UNCHANGED <<relocking, pc>>
          \/ \E w \in Workers : LockKey(w) \/ InputWhenLocked(w) \/ WorkerStarts(w)
      BY DEF TimePasses, Touch, AutoPoll, BeginCritical
    <2> QED BY <2>1, <2>4, <2>5, <2>6, <2>7
  <1>6. VTypeOK'
    BY <1>0, <1>1, <1>4, <1>5 DEF VTypeOK
  <1> QED BY <1>2, <1>3, <1>5, <1>6 DEF VInv

\* The steps that lock and unlock.
LEMMA LockingKeeps ==
    ASSUME VInv, AutoLock \/ \E w \in Workers : LockWorker(w) \/ Unlock(w)
    PROVE  VInv'
  <1> USE ContentsFacts, VaultBounds, Types DEF disks, session, locking, history
  <1>0. VTypeOK /\ Wired /\ Before /\ Prompts /\ Copies /\ Migrated /\ Keys /\ LockLosesNothing
    BY DEF VInv
  <1>1. ASSUME app = "up", UNCHANGED <<app, keyfile, legacy, gen, written>>,
               HardLock \/ HardLockFails
        PROVE  /\ work' = None /\ {disk', stale'} \subseteq {None} \cup Contents
               /\ {attached', flusher', failed'} \subseteq BOOLEAN /\ faults' \in 0..MaxFaults
               /\ Wired' /\ Before' /\ Copies' /\ Migrated' /\ Keys' /\ LockLosesNothing'
    <2>1. /\ work' = None /\ {disk', stale'} \subseteq {None} \cup Contents
          /\ attached' = FALSE /\ flusher' = FALSE /\ failed' \in BOOLEAN
          /\ faults' \in 0..MaxFaults
          /\ Wired' /\ Copies' /\ Migrated' /\ Keys' /\ LockLosesNothing'
      BY <1>1, LockKeeps
    <2>2. Before'
      BY <1>0, <1>1 DEF Before
    <2> QED BY <2>1, <2>2
  <1>2. CASE AutoLock
    <2>1. /\ app = "up"
          /\ UNCHANGED <<app, keyfile, legacy, autoOn, idle, relocking, cmd, gen, written>>
          /\ auto' \in {"poll", "dead"}
          /\ HardLock \/ HardLockFails
          /\ pc' = pc \/ \E w \in Workers : pc' = [pc EXCEPT ![w] = "start"]
      BY <1>2 DEF AutoLock
    <2>2. /\ work' = None /\ {disk', stale'} \subseteq {None} \cup Contents
          /\ {attached', flusher', failed'} \subseteq BOOLEAN /\ faults' \in 0..MaxFaults
          /\ Wired' /\ Before' /\ Copies' /\ Migrated' /\ Keys' /\ LockLosesNothing'
      BY <1>1, <2>1
    <2>3. ~Unlocked'
      BY <2>2 DEF Unlocked
    <2>4. Prompts' /\ pc' \in [Workers -> {"idle", "start", "cancel", "modal"}]
      BY <1>0, <2>1, <2>3 DEF Prompts, PromptedIsLocked
    <2>5. VTypeOK'
      BY <1>0, <2>1, <2>2, <2>4 DEF VTypeOK
    <2> QED BY <2>2, <2>4, <2>5 DEF VInv
  <1>3. ASSUME NEW w \in Workers, LockWorker(w) PROVE VInv'
    <2>1. /\ app = "up"
          /\ UNCHANGED <<keyfile, legacy, autoOn, idle, auto, cmd, gen, written>>
          /\ \/ HardLock /\ Prompt(w) /\ app' = app
             \/ HardLockFails /\ app' = "exiting" /\ UNCHANGED <<pc, relocking>>
      BY <1>3 DEF LockWorker
    <2>2. /\ work' = None /\ {disk', stale'} \subseteq {None} \cup Contents
          /\ attached' = FALSE /\ flusher' = FALSE /\ failed' \in BOOLEAN
          /\ faults' \in 0..MaxFaults
          /\ Wired' /\ Copies' /\ Migrated' /\ Keys' /\ LockLosesNothing'
      BY <2>1, LockKeeps
    <2>3. Before' /\ app' \in {"up", "exiting"}
      BY <1>0, <2>1 DEF Before
    <2>4. ~Unlocked'
      BY <2>2 DEF Unlocked
    <2>5. /\ Prompts' /\ relocking' \in BOOLEAN
          /\ pc' \in [Workers -> {"idle", "start", "cancel", "modal"}]
      <3>1. CASE Prompt(w)
        BY <2>2, <3>1, PromptKeeps
      <3>2. CASE UNCHANGED <<pc, relocking>>
        BY <1>0, <2>4, <3>2 DEF Prompts, PromptedIsLocked
      <3> QED BY <2>1, <3>1, <3>2
    <2>6. VTypeOK'
      <3>1. {attached', flusher', autoOn', idle', relocking'} \subseteq BOOLEAN
        BY <1>0, <2>1, <2>2, <2>5
      <3> QED BY <1>0, <2>1, <2>2, <2>3, <2>5, <3>1 DEF VTypeOK
    <2> QED BY <2>2, <2>3, <2>5, <2>6 DEF VInv
  <1>4. ASSUME NEW w \in Workers, Unlock(w) PROVE VInv'
    <2>1. /\ app = "up" /\ pc[w] = "modal" /\ relocking' = FALSE
          /\ OpenSession(Loaded) /\ pc' = [pc EXCEPT ![w] = "idle"]
          /\ \A v \in Workers : pc[v] # "start"
          /\ UNCHANGED <<app, keyfile, legacy, disk, auto, cmd, gen, written, failed, faults>>
      BY <1>4 DEF Unlock
    <2>2. ~Unlocked /\ keyfile # None
      BY <1>0, <2>1 DEF Prompts, PromptedIsLocked, Before
    <2>3. /\ Loaded \in Contents /\ Durable(Loaded) = Durable(disk)
          /\ Crit(Loaded) = Crit(disk)
          /\ HasLegacy => disk # None /\ Loaded = disk /\ disk.trust
      BY <1>0, <2>1 DEF Loaded, Migrated, MigrationKeepsTrust
    <2>4. /\ work' = Loaded /\ work' # None /\ stale' = None /\ Wired'
          /\ {attached', flusher', autoOn', idle'} \subseteq BOOLEAN
      BY <1>0, <2>1, <2>3, OpenKeeps
    <2>5. /\ \A v \in Workers : pc'[v] \notin {"modal", "start"}
          /\ pc' \in [Workers -> {"idle", "start", "cancel", "modal"}]
      BY <1>0, <2>1 DEF Prompts, PromptedIsLocked
    <2>6. VTypeOK'
      BY <1>0, <2>1, <2>3, <2>4, <2>5 DEF VTypeOK
    <2>7. Before' /\ Prompts'
      BY <2>1, <2>2, <2>5 DEF Before, Prompts, PromptedIsLocked
    <2>8. Copies'
      BY <1>0, <2>1, <2>3, <2>4 DEF Copies, Durable
    <2>9. Migrated'
      BY <1>0, <2>1, <2>3, <2>4 DEF Migrated, MigrationKeepsTrust
    <2>10. Newest = disk /\ Newest' = Loaded /\ Unlocked'
      BY <2>2, <2>4 DEF Newest, Unlocked
    <2>11. Keys'
      BY <1>0, <2>1, <2>3, <2>10 DEF Keys, Crit
    <2>12. LockLosesNothing'
      BY <1>0, <2>1, <2>2, <2>3, <2>4, <2>10 DEF LockLosesNothing, Durable
    <2> QED BY <2>4, <2>6, <2>7, <2>8, <2>9, <2>11, <2>12 DEF VInv
  <1> QED BY <1>2, <1>3, <1>4

LEMMA VInvNext == VInv /\ [VNext]_vvars => VInv'
  <1> SUFFICES ASSUME VInv, [VNext]_vvars PROVE VInv'
    OBVIOUS
  <1>1. CASE SetupUnlock
    BY <1>1, SetupKeeps
  <1>2. CASE \/ Start \/ CreateVault \/ Write \/ AutoFlush
             \/ \E on \in BOOLEAN : SetAutoLock(on)
    BY <1>2, DatabaseKeeps
  <1>3. CASE \/ TimePasses \/ Touch \/ AutoPoll
             \/ \E op \in CriticalOps : BeginCritical(op)
             \/ \E w \in Workers : LockKey(w) \/ InputWhenLocked(w) \/ WorkerStarts(w)
    BY <1>3, WaitingKeeps
  <1>4. CASE AutoLock \/ \E w \in Workers : LockWorker(w) \/ Unlock(w)
    BY <1>4, LockingKeeps
  <1>5. CASE AnswerCritical
    <2>1. /\ app = "up" /\ cmd # None /\ UNCHANGED <<idle, locking>>
          /\ Dropped \/ RaisesLocked \/ CriticalAnswered
      BY <1>5 DEF AnswerCritical, Answerable
    <2>2. CASE Dropped \/ RaisesLocked
      BY <2>1, <2>2, WaitingKeeps
    <2>3. CASE CriticalAnswered
      BY <2>1, <2>3, CriticalKeeps
    <2> QED BY <2>1, <2>2, <2>3
  <1>6. CASE Exit
    BY <1>6, ExitKeeps
  <1>7. CASE Crash
    BY <1>7, CrashKeeps
  <1>8. CASE UNCHANGED vvars
    <2>1. UNCHANGED <<app, keyfile, legacy, disk, work, stale, attached, flusher, autoOn, idle,
                      relocking, pc, auto, cmd, gen, written, failed, faults>>
      BY <1>8 DEF vvars, disks, session, locking, history
    <2>2. Wired' /\ Copies' /\ Migrated' /\ Keys' /\ LockLosesNothing'
      BY <2>1, DataKeeps
    <2>3. VTypeOK' /\ Before' /\ Prompts'
      BY <2>1 DEF VInv, VTypeOK, Before, Prompts, PromptedIsLocked, Unlocked
    <2> QED BY <2>2, <2>3 DEF VInv
  <1> QED BY <1>1, <1>2, <1>3, <1>4, <1>5, <1>6, <1>7, <1>8 DEF VNext, LoopStep

LEMMA VInvHolds == VSpec => []VInv
  BY VInvInit, VInvNext, PTL DEF VSpec

\* Every variable of the vault keeps its type, whatever the number of lock
\* workers, rows, keys and faults.
THEOREM VaultTypes == VSpec => []VTypeOK
  <1>1. VInv => VTypeOK
    BY DEF VInv
  <1> QED BY <1>1, VInvHolds, PTL

\* The unlock prompt never stands before an open vault and there is never a
\* second one, for any number of lock workers (_reunlock_vault()).
THEOREM VaultPromptedIsLocked == VSpec => []PromptedIsLocked
  <1>1. VInv => PromptedIsLocked
    BY DEF VInv, Prompts
  <1> QED BY <1>1, VInvHolds, PTL

\* The stores and the history are wired to a working copy exactly while the
\* session is unlocked (_perform_hard_lock(), _reunlock_vault()).
THEOREM VaultLockedIsDetached == VSpec => []LockedIsDetached
  <1>1. VInv => LockedIsDetached
    BY DEF VInv, Wired
  <1> QED BY <1>1, VInvHolds, PTL

\* Locking, unlocking, quitting and restarting lose no committed row unless the
\* flush of a lock failed (VaultDatabase.lock()).
THEOREM VaultLockLosesNothing == VSpec => []LockLosesNothing
  <1>1. VInv => LockLosesNothing
    BY DEF VInv
  <1> QED BY <1>1, VInvHolds, PTL

\* While no fault has happened, the key file and the vault name the same
\* critical-action key, whatever sequence of set, change, clear, lock and
\* restart led there (set_, change_ and clear_critical_action_key()).
THEOREM VaultCriticalKeyAgrees == VSpec => []CriticalKeyAgrees
  <1>1. VInv => CriticalKeyAgrees
    BY DEF VInv, Keys, CriticalKeyAgrees, Configured, Verifies, Newest, Crit, Unlocked
  <1> QED BY <1>1, VInvHolds, PTL

\* The trust decisions of the plaintext trust.db are at all times in that file
\* or in the vault file, crashes included (migrate_plaintext_trust_db()).
THEOREM VaultMigrationKeepsTrust == VSpec => []MigrationKeepsTrust
  <1>1. VInv => MigrationKeepsTrust
    BY DEF VInv, Migrated
  <1> QED BY <1>1, VInvHolds, PTL
=============================================================================
