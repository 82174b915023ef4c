--------------------------- MODULE SecureStorage ----------------------------
(***************************************************************************)
(* The secure files of one device: the storage directory                   *)
(* (core/vault/secure_file.py), the file actions                           *)
(* (core/vault/file_actions.py), the check of what may be opened           *)
(* (core/vault/executable_detection.py), the re-authentication rules of    *)
(* the session (core/vault/session.py) and the file commands               *)
(* (app/ui/app.py).                                                        *)
(*                                                                         *)
(* A secure file is a ciphertext and its metadata, two files that are      *)
(* written and removed one after the other.  A command that prompts waits  *)
(* for its modal, and the vault may be locked meanwhile.  A crash can come *)
(* between any two writes of an action.  The vault itself is module Vault, *)
(* the group gate is ExportGate: here it lets an export through or not.    *)
(***************************************************************************)
EXTENDS Naturals

CONSTANTS
    Files,          \* secure ids that can be drawn
    ContentOf,      \* what is stored under each: header and extension
    Idle            \* no command

Headers == {"empty", "program", "document", "text", "other"}

ASSUME ContentIsTyped == ContentOf \in [Files -> [header : Headers, suspicious : BOOLEAN]]

VARIABLES
    enc,        \* ids with a ciphertext on disk
    meta,       \* ids with metadata on disk
    used,       \* ids drawn so far
    ghosts,     \* ids whose deletion a crash cut short
    temps,      \* plaintext temporaries: the id and what became of it
    exported,   \* ids with an exported plaintext copy
    locked,     \* the vault is locked
    dontAsk,    \* _dont_ask_again_files
    critical,   \* a critical-action key is configured
    command     \* the command that waits for its modal

stored == <<enc, meta, used, ghosts, temps, exported>>
access == <<locked, dontAsk, critical>>
ssvars == <<stored, access, command>>

FileOps == {"open", "secure", "delete"}

SSTypeOK ==
    /\ enc \subseteq used /\ meta \subseteq used
    /\ ghosts \subseteq used \ enc /\ used \subseteq Files
    /\ temps \subseteq used \X {"shown", "left"}
    /\ exported \subseteq used
    /\ {locked, dontAsk, critical} \subseteq BOOLEAN
    /\ command = Idle \/ command \in [op : FileOps \cup {"export"}, file : Files]
    /\ dontAsk => ~locked

SSInit ==
    /\ enc = {} /\ meta = {} /\ used = {} /\ ghosts = {} /\ temps = {} /\ exported = {}
    /\ locked = FALSE /\ dontAsk = FALSE /\ critical = FALSE
    /\ command = Idle

-----------------------------------------------------------------------------
(* What may be opened.                                                     *)

\* _check_magic_bytes(), with _is_known_safe_format() and _is_likely_text().
CheckMagicBytes(header) ==
    IF header = "program" THEN "yes"
    ELSE IF header \in {"empty", "document", "text"} THEN "no" ELSE "inconclusive"

\* is_executable() as check_executable_for_open() calls it.
IsExecutable(c) ==
    \/ CheckMagicBytes(c.header) \in {"yes", "inconclusive"}
    \/ c.suspicious

-----------------------------------------------------------------------------
(* The session.                                                            *)

\* requires_reauth() for a file action.
RequiresReauth == ~(dontAsk /\ ~locked)

\* set_dont_ask_again_files(), of which the application has no command.
SetDontAsk(on) ==
    /\ command = Idle
    /\ dontAsk' = IF on /\ locked THEN dontAsk ELSE on
    /\ UNCHANGED <<stored, locked, critical, command>>

\* The critical-action key is set or cleared.
SetCritical ==
    /\ ~locked /\ command = Idle /\ critical' = ~critical
    /\ UNCHANGED <<stored, locked, dontAsk, command>>

\* lock() clears the flag and unlock() leaves it cleared.
LockOrUnlock ==
    /\ locked' = ~locked /\ dontAsk' = FALSE
    /\ UNCHANGED <<stored, critical, command>>

\* authorize_export() with or without the secret.
AuthorizesExport(secret) == ~locked /\ (critical => secret)

-----------------------------------------------------------------------------
(* The file actions.                                                       *)

Return == command' = Idle /\ UNCHANGED <<locked, dontAsk>>

\* The program stops inside an action and is started and unlocked again.
Crashes == command' = Idle /\ locked' = FALSE /\ dontAsk' = FALSE

\* Mutant: the metadata is written first.
EncryptMetaFirst(f) ==
    /\ used' = used \cup {f}
    /\ meta' = meta \cup {f}
    /\ \/ enc' = enc \cup {f} /\ Return
       \/ UNCHANGED enc /\ Crashes
    /\ UNCHANGED <<ghosts, temps, exported>>

\* encrypt_file(): the ciphertext, then _save_metadata(), which replaces the
\* file in one step.
Encrypt(f) ==
    /\ used' = used \cup {f}
    /\ enc' = enc \cup {f}
    /\ \/ meta' = meta \cup {f} /\ Return
       \/ UNCHANGED meta /\ Crashes
    /\ UNCHANGED <<ghosts, temps, exported>>

\* delete_secure_file(): the ciphertext goes first.
Delete(f) ==
    /\ enc' = enc \ {f}
    /\ \/ meta' = meta \ {f} /\ Return /\ UNCHANGED ghosts
       \/ UNCHANGED meta /\ Crashes /\ ghosts' = ghosts \cup {f}
    /\ UNCHANGED <<used, temps, exported>>

\* open_secure_file(): decrypt_file() to a temporary, which is destroyed again
\* if executable_checker objects; a crash leaves it.
Open(f) ==
    /\ \/ /\ IsExecutable(ContentOf[f]) /\ Return /\ UNCHANGED temps
       \/ /\ ~IsExecutable(ContentOf[f]) /\ Return
          /\ temps' = temps \cup {<<f, "shown">>}
       \/ Crashes /\ temps' = temps \cup {<<f, "left">>}
    /\ UNCHANGED <<enc, meta, used, ghosts, exported>>

Fails == command' = Idle /\ UNCHANGED <<stored, access>>

\* move_to_secure_storage(), delete_secure_file_action(), open_secure_file():
\* each asks is_unlocked and requires_reauth() again.
FileAction(op, f) ==
    \/ /\ locked \/ RequiresReauth \/ (op # "secure" /\ f \notin enc)
       /\ Fails
    \/ /\ ~locked /\ ~RequiresReauth
       /\ \/ op = "secure" /\ Encrypt(f)
          \/ op = "delete" /\ f \in enc /\ Delete(f)
          \/ op = "open" /\ f \in enc /\ Open(f)
       /\ UNCHANGED critical

\* export_secure_file(): the group gate, the personal gate, then decrypt_file()
\* to a name that is free.
ExportFile(f, gate, secret) ==
    \/ /\ ~(gate /\ AuthorizesExport(secret) /\ f \in enc)
       /\ Fails
    \/ /\ gate /\ AuthorizesExport(secret) /\ f \in enc
       /\ exported' = exported \cup {f}
       /\ Return \/ Crashes
       /\ UNCHANGED <<enc, meta, used, ghosts, temps, critical>>

-----------------------------------------------------------------------------
(* The commands.  f is the file list_secure_files() finds for the prefix;  *)
(* /secure draws a new id.                                                 *)

Named(op, f) == IF op = "secure" THEN f \notin used ELSE f \in meta

\* /open, /secure and /delete: at once, or after the passphrase prompt.
FileCommand(op, f) ==
    /\ ~locked /\ command = Idle /\ Named(op, f)
    /\ IF RequiresReauth
       THEN command' = [op |-> op, file |-> f] /\ UNCHANGED <<stored, access>>
       ELSE FileAction(op, f)

\* The prompt is cancelled or the answer wrong, or verify_passphrase() raises
\* because the vault was locked meanwhile.
GivenUp == command # Idle /\ Fails

\* The right passphrase: the handler goes on.
Answered ==
    /\ command # Idle /\ command.op \in FileOps /\ ~locked
    /\ FileAction(command.op, command.file)

\* /export: prompts if a critical-action key is configured.
ExportCommand(f, gate) ==
    /\ ~locked /\ command = Idle /\ f \in meta
    /\ IF critical
       THEN command' = [op |-> "export", file |-> f] /\ UNCHANGED <<stored, access>>
       ELSE ExportFile(f, gate, FALSE)

\* The right secret: _handle_export_file() goes on and passes none.
ExportAnswered(gate) ==
    /\ command # Idle /\ command.op = "export" /\ ~locked
    /\ ExportFile(command.file, gate, FALSE)

SSNext ==
    \/ SetCritical \/ LockOrUnlock
    \/ \E on \in BOOLEAN : SetDontAsk(on)
    \/ \E op \in FileOps, f \in Files : FileCommand(op, f)
    \/ GivenUp \/ Answered
    \/ \E f \in Files, gate \in BOOLEAN : ExportCommand(f, gate)
    \/ \E gate \in BOOLEAN : ExportAnswered(gate)

SSSpec == SSInit /\ [][SSNext]_ssvars

-----------------------------------------------------------------------------
(* Properties.                                                             *)

\* Every file that /files lists can be decrypted, also after a crash in the
\* middle of an encryption; only a crash in the middle of a deletion leaves a
\* name without a file (encrypt_file(), delete_secure_file()).
ListedIsReadable == meta \ ghosts \subseteq enc

\* Plaintext leaves the storage, and files leave or enter it, only while the
\* vault is unlocked, whenever it was locked since the command was given; and
\* an export never gets past a configured critical-action key without the
\* secret (_handle_export_file(), export_secure_file(), authorize_export()).
ActsOnlyUnlocked ==
    [][stored' # stored => ~locked /\ (exported' # exported => ~critical)]_ssvars

\* The viewer is never given a file whose content is, or may be, a program,
\* or whose name says so (open_secure_file(), is_executable()).
ShownIsHarmless ==
    \A f \in Files : <<f, "shown">> \in temps =>
        /\ ContentOf[f].header \notin {"program", "other"}
        /\ ~ContentOf[f].suspicious

\* A command whose passphrase was entered and verified is carried out, if its
\* file is there and, for /open, is not refused as a program
\* (_handle_open_file(), _handle_move_to_secure(), _handle_delete_file()).
AuthorizedIsDone ==
    [][/\ Answered
       /\ command.op # "secure" => command.file \in enc
       /\ command.op = "open" => /\ ~IsExecutable(ContentOf[command.file])
                                 /\ <<command.file, "shown">> \notin temps
       => stored' # stored]_ssvars
=============================================================================
