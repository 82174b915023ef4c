------------------------------- MODULE Vault --------------------------------
(***************************************************************************)
(* The vault of one device: the key file (core/vault/keyfile.py), the      *)
(* encrypted database and its plaintext working copy                       *)
(* (core/vault/database.py), the session with its idle timer and its       *)
(* critical-action key (core/vault/session.py), and the lock workers,      *)
(* loops and commands of the application that drive them (app/ui/app.py).  *)
(*                                                                         *)
(* A lock is not atomic: _perform_hard_lock() first awaits the             *)
(* cancellation of the transfer tasks, so the auto-lock loop and any       *)
(* number of Ctrl+L workers can be inside it together.  A command that     *)
(* prompts is suspended until its modal is answered, and the vault can be  *)
(* locked meanwhile.  The working copy is volatile: a crash leaves what    *)
(* the last flush() and the last save_vault_keyfile() wrote.               *)
(*                                                                         *)
(* Secrets are abstracted to right and wrong.  The two salts of the        *)
(* critical-action key are a generation: the verifier of one generation    *)
(* answers only to the salts of the same generation.                       *)
(***************************************************************************)
EXTENDS Integers, FiniteSets

CONSTANTS
    Workers,        \* bound on live lock and unlock workers
    None,           \* no file, no database, no command
    Faults,         \* subset of {"crash", "flush", "save"}
    HasLegacy,      \* a plaintext trust.db exists at first start
    MaxRows,        \* bound on rows written to the database
    MaxGen,         \* bound on critical-action keys ever set
    MaxFaults       \* bound on faults

ASSUME LegacyIsBoolean == HasLegacy \in BOOLEAN
ASSUME VaultBounds == MaxRows \in Nat /\ MaxGen \in Nat /\ MaxFaults \in Nat

VARIABLES
    app,        \* off, prompt (in _setup), up, exiting (an exception ends it)
    keyfile,    \* vault_keyfile.json: None or the generation of its critical salts
    legacy,     \* the plaintext trust.db exists
    disk,       \* vault.db: None or the contents of the last flush
    work,       \* the session's working copy; None while the session is locked
    stale,      \* a working copy that a failed lock left behind in app.vault_db
    attached,   \* the stores and the persistence use the working copy
    flusher,    \* the auto-flush task is alive
    autoOn,     \* auto_lock_seconds # 0
    idle,       \* the idle timeout has expired
    relocking,  \* _relocking: the unlock modal is up
    pc,         \* workers: idle, start, cancel (in cancel_group), modal
    auto,       \* the auto-lock loop: none, poll, cancel, dead
    cmd,        \* the command that is waiting for its modal
    gen,        \* generations of critical salts drawn so far
    written,    \* rows the program still counts on (a crash forfeits unflushed ones)
    failed,     \* a flush of a lock has failed
    faults      \* faults so far

disks == <<keyfile, legacy, disk>>
session == <<work, stale, attached, flusher, autoOn>>
locking == <<relocking, pc, auto>>
history == <<gen, written, failed, faults>>
vvars == <<app, disks, session, idle, locking, cmd, history>>

Contents == [rows : 0..MaxRows, crit : 0..MaxGen, auto : BOOLEAN, trust : BOOLEAN]

\* The schema of a first run, with the default settings.
Fresh == [rows |-> 0, crit |-> 0, auto |-> TRUE, trust |-> FALSE]

CriticalOps == {"set", "change", "clear"}
Command == [op : CriticalOps, kf : 0..MaxGen]

ASSUME NoneIsNothing == None \notin Nat \cup Contents \cup Command

VTypeOK ==
    /\ app \in {"off", "prompt", "up", "exiting"}
    /\ keyfile \in {None} \cup (0..MaxGen)
    /\ legacy \in BOOLEAN
    /\ {disk, work, stale} \subseteq {None} \cup Contents
    /\ {attached, flusher, autoOn, idle, relocking} \subseteq BOOLEAN
    /\ pc \in [Workers -> {"idle", "start", "cancel", "modal"}]
    /\ auto \in {"none", "poll", "cancel", "dead"}
    /\ cmd \in {None} \cup Command
    /\ gen \in 0..MaxGen
    /\ written \in 0..MaxRows
    /\ failed \in BOOLEAN
    /\ faults \in 0..MaxFaults

VInit ==
    /\ app = "off"
    /\ keyfile = None
    /\ legacy = HasLegacy
    /\ disk = None /\ work = None /\ stale = None
    /\ attached = FALSE /\ flusher = FALSE /\ autoOn = TRUE
    /\ idle = FALSE
    /\ relocking = FALSE
    /\ pc = [w \in Workers |-> "idle"]
    /\ auto = "none"
    /\ cmd = None
    /\ gen = 0 /\ written = 0 /\ failed = FALSE /\ faults = 0

-----------------------------------------------------------------------------
(* Helpers.                                                                *)

\* is_unlocked: there is a key and a live database.
Unlocked == work # None

Fault(kind) == kind \in Faults /\ faults < MaxFaults /\ faults' = faults + 1
NoFault == UNCHANGED faults

\* What VaultDatabase.unlock() loads.
Loaded == IF disk = None THEN Fresh ELSE disk

\* Rows a restart finds.
Durable(d) == IF d = None THEN 0 ELSE d.rows

\* The process is gone: nothing volatile is left.
Stopped ==
    /\ app' = "off"
    /\ work' = None /\ stale' = None
    /\ attached' = FALSE /\ flusher' = FALSE /\ autoOn' = TRUE
    /\ idle' = FALSE
    /\ relocking' = FALSE
    /\ pc' = [w \in Workers |-> "idle"]
    /\ auto' = "none"
    /\ cmd' = None

\* critical_action_key_configured()
Configured(kf) == kf \notin {None, 0}

\* verify_critical_action_key() when the right secret is entered.
Verifies(kf) == Configured(kf) /\ work.crit = kf

-----------------------------------------------------------------------------
(* Start: _setup() and _unlock_vault().                                    *)

\* The program starts and asks for the passphrase, or for a new one.
Start ==
    /\ app = "off"
    /\ app' = "prompt"
    /\ UNCHANGED <<disks, session, idle, locking, cmd, history>>

\* create_vault(): the key file is saved before the recovery code is shown.
CreateVault ==
    /\ app = "prompt" /\ keyfile = None
    /\ keyfile' = 0
    /\ UNCHANGED <<app, legacy, disk, session, idle, locking, cmd, history>>

\* Mutant: the plaintext file is removed before the vault is flushed.
MigrateRemovingFirst(db) ==
    /\ legacy
    /\ \/ disk' = [db EXCEPT !.trust = TRUE] /\ legacy' = FALSE /\ NoFault
       \/ Fault("crash") /\ legacy' = FALSE /\ UNCHANGED disk

\* migrate_plaintext_trust_db(): copy, flush, then remove the old file; a
\* crash can come between the last two.
Migrate(db) ==
    /\ legacy
    /\ disk' = [db EXCEPT !.trust = TRUE]
    /\ \/ legacy' = FALSE /\ NoFault
       \/ Fault("crash") /\ UNCHANGED legacy

\* VaultDatabase.unlock() and VaultSession.unlock(), which loads the settings,
\* and the wiring of the stores.
OpenSession(db) ==
    /\ work' = db
    /\ stale' = None
    /\ attached' = TRUE /\ flusher' = TRUE
    /\ autoOn' = db.auto
    /\ idle' = FALSE

\* The right secret is entered: the rest of _setup().
SetupUnlock ==
    /\ app = "prompt" /\ keyfile # None
    /\ \/ legacy /\ Migrate(Loaded)
       \/ ~legacy /\ UNCHANGED <<legacy, disk, faults>>
    /\ IF faults' = faults
       THEN /\ OpenSession(IF legacy THEN disk' ELSE Loaded)
            /\ app' = "up"
            /\ auto' = "poll"
            /\ UNCHANGED <<relocking, pc, cmd>>
       ELSE Stopped
    /\ UNCHANGED <<keyfile, gen, written, failed>>

-----------------------------------------------------------------------------
(* The database while the vault is unlocked.                               *)

\* VaultPersistence and the stores commit a row to the working copy.
Write ==
    /\ attached /\ written < MaxRows
    /\ work' = [work EXCEPT !.rows = @ + 1]
    /\ written' = written + 1
    /\ UNCHANGED <<app, disks, stale, attached, flusher, autoOn, idle, locking,
                   cmd, gen, failed, faults>>

\* One turn of _auto_flush_loop(); a flush that raises ends the task.
AutoFlush ==
    /\ flusher
    /\ \/ disk' = work /\ flusher' = flusher /\ NoFault
       \/ Fault("flush") /\ flusher' = FALSE /\ UNCHANGED disk
    /\ UNCHANGED <<app, keyfile, legacy, work, stale, attached, autoOn, idle,
                   locking, cmd, gen, written, failed>>

\* /autolock: set_auto_lock_seconds() stores the setting and touches the timer.
SetAutoLock(on) ==
    /\ app = "up" /\ Unlocked /\ cmd = None
    /\ autoOn' = on
    /\ work' = [work EXCEPT !.auto = on]
    /\ idle' = FALSE
    /\ UNCHANGED <<app, disks, stale, attached, flusher, locking, cmd, history>>

\* No input for auto_lock_seconds.
TimePasses ==
    /\ app = "up" /\ Unlocked /\ autoOn
    /\ idle' = TRUE
    /\ UNCHANGED <<app, disks, session, locking, cmd, history>>

-----------------------------------------------------------------------------
(* Locking: _perform_hard_lock(), _lock_and_reprompt(), _reunlock_vault(), *)
(* _auto_lock_loop().                                                      *)

\* Mutant: the working copy is destroyed without a flush.
HardLockUnflushed ==
    /\ attached' = FALSE /\ flusher' = FALSE
    /\ work' = None /\ stale' = None
    /\ UNCHANGED <<disk, failed, faults>>

\* The part of _perform_hard_lock() after the await: detach, then
\* VaultSession.lock(), which wipes the key and lets VaultDatabase.lock()
\* stop the auto-flush task, flush, and destroy the working copy.
HardLock ==
    /\ attached' = FALSE /\ flusher' = FALSE
    /\ work' = None /\ stale' = None
    /\ disk' = IF Unlocked THEN work ELSE disk
    /\ UNCHANGED <<failed, faults>>

\* The flush raises: the session is locked all the same, and app.vault_db
\* still names the working copy.
HardLockFails ==
    /\ Unlocked /\ Fault("flush")
    /\ attached' = FALSE /\ flusher' = FALSE
    /\ work' = None /\ stale' = work
    /\ failed' = TRUE
    /\ UNCHANGED disk

\* Mutant: the prompt is opened although one is up.
PromptAgain(w) ==
    /\ relocking' = TRUE
    /\ pc' = [pc EXCEPT ![w] = "modal"]

\* _reunlock_vault() up to its modal.
Prompt(w) ==
    IF relocking
    THEN pc' = [pc EXCEPT ![w] = "idle"] /\ UNCHANGED relocking
    ELSE relocking' = TRUE /\ pc' = [pc EXCEPT ![w] = "modal"]

\* _auto_lock_loop() finds the session idle and awaits cancel_group().
AutoPoll ==
    /\ app = "up" /\ auto = "poll"
    /\ ~relocking /\ Unlocked /\ autoOn /\ idle
    /\ auto' = "cancel"
    /\ UNCHANGED <<app, disks, session, idle, relocking, pc, cmd, history>>

\* Mutant: the auto-lock loop leaves the prompt to somebody else.
AutoLockUnprompted ==
    /\ app = "up" /\ auto = "cancel"
    /\ HardLock /\ auto' = "poll"
    /\ UNCHANGED <<app, keyfile, legacy, autoOn, idle, relocking, pc, cmd, gen, written>>

\* The tasks are gone: it locks and starts the unlock worker; a flush that
\* raises ends the loop.
AutoLock ==
    /\ app = "up" /\ auto = "cancel"
    /\ \/ /\ HardLock
          /\ auto' = "poll"
          /\ \E w \in Workers : pc[w] = "idle" /\ pc' = [pc EXCEPT ![w] = "start"]
       \/ HardLockFails /\ auto' = "dead" /\ UNCHANGED pc
    /\ UNCHANGED <<app, keyfile, legacy, autoOn, idle, relocking, cmd, gen, written>>

\* Ctrl+L or /lock: action_lock_vault().
LockKey(w) ==
    /\ app = "up" /\ pc[w] = "idle" /\ ~relocking
    /\ IF Unlocked
       THEN pc' = [pc EXCEPT ![w] = "cancel"] /\ UNCHANGED relocking
       ELSE Prompt(w)
    /\ UNCHANGED <<app, disks, session, idle, auto, cmd, history>>

\* Its cancel_group() returns: lock and prompt.  An exception ends the program.
LockWorker(w) ==
    /\ app = "up" /\ pc[w] = "cancel"
    /\ \/ HardLock /\ Prompt(w) /\ UNCHANGED app
       \/ HardLockFails /\ app' = "exiting" /\ UNCHANGED <<pc, relocking>>
    /\ UNCHANGED <<keyfile, legacy, autoOn, idle, auto, cmd, gen, written>>

\* on_input_submitted() while the vault is locked: _reunlock_work().
InputWhenLocked(w) ==
    /\ app = "up" /\ ~Unlocked /\ ~relocking /\ cmd = None
    /\ pc[w] = "idle"
    /\ pc' = [pc EXCEPT ![w] = "start"]
    /\ UNCHANGED <<app, disks, session, idle, relocking, auto, cmd, history>>

\* An unlock worker starts.
WorkerStarts(w) ==
    /\ app = "up" /\ pc[w] = "start"
    /\ Prompt(w)
    /\ UNCHANGED <<app, disks, session, idle, auto, cmd, history>>

\* The right secret is entered in the unlock modal.  By then the workers that
\* were waiting to start have started.
Unlock(w) ==
    /\ app = "up" /\ pc[w] = "modal"
    /\ \A v \in Workers : pc[v] # "start"
    /\ OpenSession(Loaded)
    /\ relocking' = FALSE
    /\ pc' = [pc EXCEPT ![w] = "idle"]
    /\ UNCHANGED <<app, disks, auto, cmd, history>>

-----------------------------------------------------------------------------
(* Commands.  One runs at a time; its modal is answered while no unlock    *)
(* modal is on top of it.                                                  *)

Ready == app = "up" /\ Unlocked /\ cmd = None
Answerable == app = "up" /\ cmd # None /\ ~relocking

\* The command returns without an effect.
Dropped ==
    /\ cmd' = None
    /\ UNCHANGED <<app, disks, session, history>>

\* SessionLockedError leaves the command and ends the program.
RaisesLocked ==
    /\ ~Unlocked
    /\ cmd' = None
    /\ app' = "exiting"
    /\ UNCHANGED <<disks, session, history>>

\* _handle_critical_key_command() up to its modal: the key file is loaded.
BeginCritical(op) ==
    /\ Ready
    /\ op = "set" <=> ~Configured(keyfile)
    /\ cmd' = [op |-> op, kf |-> keyfile]
    /\ idle' = FALSE
    /\ UNCHANGED <<app, disks, session, locking, history>>

\* Mutant: the verifier in the vault is left as it was.
WriteCriticalKeyFileOnly(g) ==
    /\ work' = work
    /\ \/ keyfile' = g /\ UNCHANGED app /\ NoFault
       \/ Fault("save") /\ app' = "exiting" /\ UNCHANGED keyfile

\* _write_critical_verifier(), or the deletion of the setting, commits to the
\* working copy; then save_vault_keyfile(), which can raise.
WriteCritical(g) ==
    /\ work' = [work EXCEPT !.crit = g]
    /\ \/ keyfile' = g /\ UNCHANGED app /\ NoFault
       \/ Fault("save") /\ app' = "exiting" /\ UNCHANGED keyfile

\* The secrets are entered: set_, change_ or clear_critical_action_key().
CriticalAnswered ==
    /\ Unlocked
    /\ cmd.op \in {"change", "clear"} => Verifies(cmd.kf)
    /\ IF cmd.op = "clear"
       THEN WriteCritical(0) /\ UNCHANGED gen
       ELSE gen < MaxGen /\ WriteCritical(gen + 1) /\ gen' = gen + 1
    /\ cmd' = None
    /\ UNCHANGED <<legacy, disk, stale, attached, flusher, autoOn, written,
                   failed>>

\* A cancelled modal, a wrong or weak secret, or the right one.
AnswerCritical ==
    /\ Answerable /\ cmd.op \in CriticalOps
    /\ Dropped \/ RaisesLocked \/ CriticalAnswered
    /\ UNCHANGED <<idle, locking>>

\* Any other input: _touch_session().
Touch ==
    /\ Ready
    /\ idle' = FALSE
    /\ UNCHANGED <<app, disks, session, locking, cmd, history>>

-----------------------------------------------------------------------------
(* The end of the program.                                                 *)

\* /quit, or an exception that ended the program: on_unmount() locks the
\* session, or else the database a failed lock left behind.
Exit ==
    /\ app \in {"up", "exiting"}
    /\ LET db == IF Unlocked THEN work ELSE stale
       IN  \/ disk' = (IF db = None THEN disk ELSE db) /\ UNCHANGED <<failed, faults>>
           \/ db # None /\ Fault("flush") /\ failed' = TRUE /\ UNCHANGED disk
    /\ Stopped
    /\ UNCHANGED <<keyfile, legacy, gen, written>>

\* A crash, at any moment: the files on disk are all that is left.
Crash ==
    /\ app # "off" /\ Fault("crash")
    /\ Stopped
    /\ written' = Durable(disk)
    /\ UNCHANGED <<disks, gen, failed>>

-----------------------------------------------------------------------------

LoopStep(w) == WorkerStarts(w) \/ LockWorker(w)

VNext ==
    \/ Start \/ CreateVault \/ SetupUnlock
    \/ Write \/ AutoFlush \/ TimePasses \/ Touch
    \/ \E on \in BOOLEAN : SetAutoLock(on)
    \/ AutoPoll \/ AutoLock
    \/ \E w \in Workers : LockKey(w) \/ InputWhenLocked(w) \/ LoopStep(w) \/ Unlock(w)
    \/ \E op \in CriticalOps : BeginCritical(op)
    \/ AnswerCritical
    \/ Exit \/ Crash

VSpec == VInit /\ [][VNext]_vvars

\* The event loop runs what is ready and cancel_group() returns within its
\* timeout; an exception that ends the program ends it.
VFairness ==
    /\ WF_vvars(AutoPoll) /\ WF_vvars(AutoLock)
    /\ \A w \in Workers : WF_vvars(LoopStep(w))
    /\ WF_vvars(app = "exiting" /\ Exit)

-----------------------------------------------------------------------------
(* Properties.                                                             *)

\* The unlock prompt never stands before an open vault and there is never a
\* second one: _reunlock_vault() replaces the session's database without
\* saving it, so an unlock of an unlocked vault would lose the rows of the
\* working copy and leave its auto-flush task writing over the vault file.
PromptedIsLocked ==
    /\ \A w \in Workers : pc[w] = "modal" => ~Unlocked /\ relocking
    /\ \A v, w \in Workers : pc[v] = "modal" /\ pc[w] = "modal" => v = w

\* The stores and the history are wired to a working copy exactly while the
\* session is unlocked, whichever of the lock workers and loops are under way
\* (TrustStore, GroupStore, LocatorStore and VaultPersistence raise or drop
\* what they are given while they have no connection).
LockedIsDetached == attached <=> Unlocked

\* Locking, unlocking and quitting lose no committed row, in any interleaving
\* of lock workers, commands and the auto-lock loop, unless the flush of a
\* lock failed (VaultDatabase.lock()).
LockLosesNothing ==
    failed \/ written = Durable(IF Unlocked THEN work ELSE disk)

\* While no fault has happened, the key file and the vault name the same
\* critical-action key, so that the right secret verifies
\* (set_, change_ and clear_critical_action_key()).
CriticalKeyAgrees ==
    faults = 0 /\ Unlocked /\ Configured(keyfile) => Verifies(keyfile)

\* The trust decisions of the plaintext trust.db are at all times in that
\* file or in the vault file (migrate_plaintext_trust_db()).
MigrationKeepsTrust ==
    HasLegacy => legacy \/ (disk # None /\ disk.trust)

\* An idle vault is locked, whatever modal is up, unless there is input; and a
\* vault that was locked asks for the passphrase again.  Both only as long as
\* no flush fails, which ends the loop (_auto_lock_loop(), _reunlock_work()).
LockedIsPrompted ==
    [](failed = FALSE) =>
        /\ (Unlocked /\ idle) ~> (~Unlocked \/ ~idle)
        /\ (app = "up" /\ ~Unlocked) ~> (relocking \/ app # "up")
=============================================================================
