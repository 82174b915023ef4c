------------------------ MODULE SecureStorageProofs -------------------------
(***************************************************************************)
(* Proofs about module SecureStorage, for any set of secure files.         *)
(*                                                                         *)
(* That a listed file is readable is inductive once the types are known    *)
(* and it is known that the file a suspended /secure will write is new:    *)
(* otherwise its encryption could bring back a deleted file.               *)
(***************************************************************************)
EXTENDS SecureStorage, TLAPS

\* The id a suspended /secure holds has not been used.
DrawnIsNew == command # Idle /\ command.op = "secure" => command.file \notin used

SSInv == SSTypeOK /\ DrawnIsNew /\ ListedIsReadable /\ ShownIsHarmless

\* What is_executable() lets through is neither a program nor unknown data,
\* and its name is not one of a program.
LEMMA HarmlessPasses ==
    ASSUME NEW f \in Files, ~IsExecutable(ContentOf[f])
    PROVE  ContentOf[f].header \notin {"program", "other"} /\ ~ContentOf[f].suspicious
  <1>1. ~ContentOf[f].suspicious
    BY DEF IsExecutable
  <1>2. CheckMagicBytes(ContentOf[f].header) \notin {"yes", "inconclusive"}
    BY DEF IsExecutable
  <1>3. ContentOf[f].header \notin {"program", "other"}
    BY <1>2 DEF CheckMagicBytes
  <1> QED BY <1>1, <1>3

\* Nothing changes but the command, which is over or waits for its modal.
LEMMA CommandKeeps ==
    ASSUME SSInv, UNCHANGED <<stored, access>>,
           \/ command' = Idle
           \/ \E op \in FileOps \cup {"export"}, f \in Files :
                 /\ command' = [op |-> op, file |-> f]
                 /\ op = "secure" => f \notin used
    PROVE  SSInv'
  <1>1. UNCHANGED <<enc, meta, used, ghosts, temps, exported, locked, dontAsk, critical>>
    BY DEF stored, access
  <1>2. SSTypeOK'
    <2>1. command' = Idle \/ command' \in [op : FileOps \cup {"export"}, file : Files]
      OBVIOUS
    <2> QED BY <1>1, <2>1 DEF SSInv, SSTypeOK
  <1>3. DrawnIsNew'
    BY <1>1 DEF DrawnIsNew
  <1>4. ListedIsReadable' /\ ShownIsHarmless'
    BY <1>1 DEF SSInv, ListedIsReadable, ShownIsHarmless
  <1> QED BY <1>2, <1>3, <1>4 DEF SSInv

\* The session changes while no new file is being added.
LEMMA SessionKeeps ==
    ASSUME SSInv, UNCHANGED <<stored, command>>,
           locked' \in BOOLEAN, dontAsk' \in BOOLEAN, critical' \in BOOLEAN,
           dontAsk' => ~locked'
    PROVE  SSInv'
  <1>1. UNCHANGED <<enc, meta, used, ghosts, temps, exported, command>>
    BY DEF stored
  <1>2. SSTypeOK'
    BY <1>1 DEF SSInv, SSTypeOK
  <1>3. DrawnIsNew' /\ ListedIsReadable' /\ ShownIsHarmless'
    BY <1>1 DEF SSInv, DrawnIsNew, ListedIsReadable, ShownIsHarmless
  <1> QED BY <1>2, <1>3 DEF SSInv

\* After an action, finished or cut short by a crash, the session is as it
\* must be.
LEMMA SessionAfter ==
    ASSUME SSTypeOK, Return \/ Crashes, UNCHANGED critical
    PROVE  /\ command' = Idle
           /\ {locked', dontAsk', critical'} \subseteq BOOLEAN
           /\ dontAsk' => ~locked'
  <1>1. {locked, dontAsk, critical} \subseteq BOOLEAN /\ (dontAsk => ~locked)
    BY DEF SSTypeOK
  <1>2. CASE Return
    BY <1>1, <1>2 DEF Return
  <1>3. CASE Crashes
    BY <1>1, <1>3 DEF Crashes
  <1> QED BY <1>2, <1>3

\* encrypt_file(), delete_secure_file() and open_secure_file(), finished or
\* cut short.
LEMMA FileActionKeeps ==
    ASSUME SSInv, NEW op \in FileOps, NEW f \in Files, op = "secure" => f \notin used,
           FileAction(op, f)
    PROVE  SSInv'
  <1>1. CASE Fails
    BY <1>1, CommandKeeps DEF Fails
  <1>2. CASE UNCHANGED critical /\ f \notin used /\ Encrypt(f)
    <2>1. /\ used' = used \cup {f} /\ enc' = enc \cup {f}
          /\ meta' = meta \cup {f} \/ meta' = meta
          /\ UNCHANGED <<ghosts, temps, exported>>
          /\ Return \/ Crashes
      BY <1>2 DEF Encrypt
    <2>2. /\ command' = Idle
          /\ {locked', dontAsk', critical'} \subseteq BOOLEAN /\ (dontAsk' => ~locked')
      BY <1>2, <2>1, SessionAfter DEF SSInv
    <2>3. SSTypeOK'
      BY <1>2, <2>1, <2>2 DEF SSInv, SSTypeOK
    <2>4. DrawnIsNew' /\ ShownIsHarmless'
      BY <2>1, <2>2 DEF SSInv, DrawnIsNew, ShownIsHarmless
    <2>5. ListedIsReadable'
      BY <2>1 DEF SSInv, ListedIsReadable
    <2> QED BY <2>3, <2>4, <2>5 DEF SSInv
  <1>3. CASE UNCHANGED critical /\ f \in enc /\ Delete(f)
    <2>1. /\ enc' = enc \ {f}
          /\ UNCHANGED <<used, temps, exported>>
          /\ \/ meta' = meta \ {f} /\ ghosts' = ghosts
             \/ meta' = meta /\ ghosts' = ghosts \cup {f}
          /\ Return \/ Crashes
      BY <1>3 DEF Delete
    <2>2. /\ command' = Idle
          /\ {locked', dontAsk', critical'} \subseteq BOOLEAN /\ (dontAsk' => ~locked')
      BY <1>3, <2>1, SessionAfter DEF SSInv
    <2>3. SSTypeOK'
      BY <1>3, <2>1, <2>2 DEF SSInv, SSTypeOK
    <2>4. DrawnIsNew' /\ ShownIsHarmless'
      BY <2>1, <2>2 DEF SSInv, DrawnIsNew, ShownIsHarmless
    <2>5. ListedIsReadable'
      BY <2>1 DEF SSInv, ListedIsReadable
    <2> QED BY <2>3, <2>4, <2>5 DEF SSInv
  <1>4. CASE UNCHANGED critical /\ f \in enc /\ Open(f)
    <2>1. /\ UNCHANGED <<enc, meta, used, ghosts, exported>>
          /\ \/ temps' = temps
             \/ temps' = temps \cup {<<f, "shown">>} /\ ~IsExecutable(ContentOf[f])
             \/ temps' = temps \cup {<<f, "left">>}
          /\ Return \/ Crashes
      BY <1>4 DEF Open
    <2>2. /\ command' = Idle
          /\ {locked', dontAsk', critical'} \subseteq BOOLEAN /\ (dontAsk' => ~locked')
      BY <1>4, <2>1, SessionAfter DEF SSInv
    <2>3. SSTypeOK'
      <3>1. temps' \subseteq used \X {"shown", "left"}
        BY <1>4, <2>1 DEF SSInv, SSTypeOK
      <3> QED BY <2>1, <2>2, <3>1 DEF SSInv, SSTypeOK
    <2>4. DrawnIsNew' /\ ListedIsReadable'
      BY <2>1, <2>2 DEF SSInv, DrawnIsNew, ListedIsReadable
    <2>5. ShownIsHarmless'
      BY <2>1, HarmlessPasses DEF SSInv, ShownIsHarmless
    <2> QED BY <2>3, <2>4, <2>5 DEF SSInv
  <1> QED BY <1>1, <1>2, <1>3, <1>4, Zenon DEF FileAction

\* export_secure_file() writes only outside the storage.
LEMMA ExportKeeps ==
    ASSUME SSInv, NEW f \in Files, NEW gate \in BOOLEAN, ExportFile(f, gate, FALSE)
    PROVE  SSInv'
  <1>1. CASE Fails
    BY <1>1, CommandKeeps DEF Fails
  <1>2. CASE ~Fails
    <2>1. /\ f \in enc /\ exported' = exported \cup {f}
          /\ Return \/ Crashes
          /\ UNCHANGED <<enc, meta, used, ghosts, temps, critical>>
      BY <1>2 DEF ExportFile
    <2>2. /\ command' = Idle
          /\ {locked', dontAsk', critical'} \subseteq BOOLEAN /\ (dontAsk' => ~locked')
      BY <2>1, SessionAfter DEF SSInv
    <2>3. SSTypeOK'
      BY <2>1, <2>2 DEF SSInv, SSTypeOK
    <2>4. DrawnIsNew' /\ ListedIsReadable' /\ ShownIsHarmless'
      BY <2>1, <2>2 DEF SSInv, DrawnIsNew, ListedIsReadable, ShownIsHarmless
    <2> QED BY <2>3, <2>4 DEF SSInv
  <1> QED BY <1>1, <1>2

LEMMA SSInvInit == SSInit => SSInv
  BY DEF SSInit, SSInv, SSTypeOK, DrawnIsNew, ListedIsReadable, ShownIsHarmless

\* Every command, answer and lock keeps the invariant.
LEMMA SSInvNext == SSInv /\ [SSNext]_ssvars => SSInv'
  <1> SUFFICES ASSUME SSInv, [SSNext]_ssvars PROVE SSInv'
    OBVIOUS
  <1>0. /\ {locked, dontAsk, critical} \subseteq BOOLEAN /\ (dontAsk => ~locked)
        /\ command # Idle => command.op \in FileOps \cup {"export"} /\ command.file \in Files
        /\ meta \subseteq Files
    BY DEF SSInv, SSTypeOK
  <1>1. CASE SetCritical
    BY <1>0, <1>1, SessionKeeps, Zenon DEF SetCritical
  <1>2. CASE LockOrUnlock
    BY <1>0, <1>2, SessionKeeps, Zenon DEF LockOrUnlock
  <1>3. CASE \E on \in BOOLEAN : SetDontAsk(on)
    <2>1. PICK on \in BOOLEAN : SetDontAsk(on)
      BY <1>3
    <2>2. dontAsk' \in BOOLEAN /\ (dontAsk' => ~locked)
      BY <1>0, <2>1 DEF SetDontAsk
    <2> QED BY <1>0, <2>1, <2>2, SessionKeeps DEF SetDontAsk
  <1>4. CASE \E op \in FileOps, f \in Files : FileCommand(op, f)
    <2>1. PICK op \in FileOps, f \in Files : FileCommand(op, f)
      BY <1>4
    <2>2. op = "secure" => f \notin used
      BY <2>1 DEF FileCommand, Named
    <2>3. CASE RequiresReauth
      BY <2>1, <2>2, <2>3, CommandKeeps DEF FileCommand
    <2>4. CASE ~RequiresReauth
      BY <2>1, <2>2, <2>4, FileActionKeeps DEF FileCommand
    <2> QED BY <2>3, <2>4
  <1>5. CASE GivenUp
    BY <1>5, CommandKeeps DEF GivenUp, Fails
  <1>6. CASE Answered
    BY <1>0, <1>6, FileActionKeeps DEF Answered, SSInv, DrawnIsNew
  <1>7. CASE \E f \in Files, gate \in BOOLEAN : ExportCommand(f, gate)
    <2>1. PICK f \in Files, gate \in BOOLEAN : ExportCommand(f, gate)
      BY <1>7
    <2>2. CASE critical
      BY <2>1, <2>2, CommandKeeps DEF ExportCommand
    <2>3. CASE ~critical
      BY <2>1, <2>3, ExportKeeps DEF ExportCommand
    <2> QED BY <2>2, <2>3
  <1>8. CASE \E gate \in BOOLEAN : ExportAnswered(gate)
    BY <1>0, <1>8, ExportKeeps DEF ExportAnswered
  <1>9. CASE UNCHANGED ssvars
    BY <1>9, CommandKeeps, SessionKeeps, <1>0, Zenon DEF ssvars, access
  <1> QED BY <1>1, <1>2, <1>3, <1>4, <1>5, <1>6, <1>7, <1>8, <1>9 DEF SSNext

\* The storage has its types, whatever commands are cut short.
THEOREM StorageTypes == SSSpec => []SSTypeOK
  <1>1. SSInv => SSTypeOK
    BY DEF SSInv
  <1> QED BY <1>1, SSInvInit, SSInvNext, PTL DEF SSSpec

\* For every number of files: what /files lists can be decrypted, but for the
\* files whose deletion a crash cut short (encrypt_file(), delete_secure_file()).
THEOREM StorageListedIsReadable == SSSpec => []ListedIsReadable
  <1>1. SSInv => ListedIsReadable
    BY DEF SSInv
  <1> QED BY <1>1, SSInvInit, SSInvNext, PTL DEF SSSpec

\* For every content: no file that is, may be or is named as a program reaches
\* the viewer (open_secure_file(), is_executable()).
THEOREM StorageShownIsHarmless == SSSpec => []ShownIsHarmless
  <1>1. SSInv => ShownIsHarmless
    BY DEF SSInv
  <1> QED BY <1>1, SSInvInit, SSInvNext, PTL DEF SSSpec

\* Files and plaintext move only while the vault is unlocked, and nothing is
\* exported past a critical-action key: every action asks again after its
\* modal (move_to_secure_storage(), export_secure_file(), authorize_export()).
THEOREM StorageActsOnlyUnlocked == SSSpec => ActsOnlyUnlocked
  <1> DEFINE A == stored' # stored => ~locked /\ (exported' # exported => ~critical)
  <1>0. ASSUME NEW op, NEW f, FileAction(op, f) PROVE A
    <2>1. CASE Fails
      BY <2>1 DEF Fails
    <2>2. CASE ~Fails
      <3>1. ~locked
        BY <1>0, <2>2, Zenon DEF FileAction
      <3>2. exported' = exported
        BY <1>0, <2>2, Zenon DEF FileAction, Encrypt, Delete, Open
      <3> QED BY <3>1, <3>2
    <2> QED BY <2>1, <2>2
  <1>1. ASSUME NEW f, NEW gate, ExportFile(f, gate, FALSE) PROVE A
    BY <1>1, Zenon DEF ExportFile, AuthorizesExport, Fails
  <1>2. ASSUME [SSNext]_ssvars PROVE [A]_ssvars
    <2>1. CASE SetCritical \/ LockOrUnlock
      BY <2>1 DEF SetCritical, LockOrUnlock
    <2>2. CASE \E on \in BOOLEAN : SetDontAsk(on)
      BY <2>2 DEF SetDontAsk
    <2>3. CASE \E op \in FileOps, f \in Files : FileCommand(op, f)
      BY <2>3, <1>0, Zenon DEF FileCommand
    <2>4. CASE GivenUp
      BY <2>4 DEF GivenUp, Fails
    <2>5. CASE Answered
      BY <2>5, <1>0, Zenon DEF Answered
    <2>6. CASE \E f \in Files, gate \in BOOLEAN : ExportCommand(f, gate)
      BY <2>6, <1>1, Zenon DEF ExportCommand
    <2>7. CASE \E gate \in BOOLEAN : ExportAnswered(gate)
      BY <2>7, <1>1, Zenon DEF ExportAnswered
    <2> QED BY <1>2, <2>1, <2>2, <2>3, <2>4, <2>5, <2>6, <2>7 DEF SSNext
  <1> QED BY <1>2, PTL DEF SSSpec, ActsOnlyUnlocked
=============================================================================
