------------------------------- MODULE MCVault ------------------------------
(***************************************************************************)
(* What a device keeps and lets go, for TLC: the vault with two background *)
(* loops; three secure files, a text, a text named as a script and data of *)
(* an unknown format; and the export gate with two groups of the device's  *)
(* own and one that it joined.                                             *)
(*                                                                         *)
(* The three modules share no state: SecureStorage locks and unlocks at    *)
(* any time and takes either answer of the gate.  So a behaviour follows   *)
(* one of them, and the run explores the states of each and not their      *)
(* product.                                                                *)
(***************************************************************************)
EXTENDS Vault, SecureStorage, ExportGate

CONSTANTS f1, f2, f3, g1, g2

MCContentOf == [f \in Files |->
    [header |-> IF f = f3 THEN "other" ELSE "text",
     suspicious |-> f = f2]]
MCOwn == <<g1, g2>>

VARIABLE part

Init == part \in {"vault", "files", "gate"} /\ VInit /\ SSInit /\ EInit
Next ==
    \/ part = "vault" /\ VNext /\ UNCHANGED <<part, ssvars, evars>>
    \/ part = "files" /\ SSNext /\ UNCHANGED <<part, vvars, evars>>
    \/ part = "gate" /\ ENext /\ UNCHANGED <<part, vvars, ssvars>>

FairSpec == Init /\ [][Next]_<<part, vvars, ssvars, evars>> /\ VFairness
=============================================================================
