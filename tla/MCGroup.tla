------------------------------ MODULE MCGroup -------------------------------
(***************************************************************************)
(* What devices and their users tell each other, for TLC: the messages of  *)
(* a group between two devices, the chat of one device, and the prompts    *)
(* its user answers.  The three modules share no state, so a behaviour     *)
(* follows one of them, and the run explores the states of each and not    *)
(* their product.  The fair actions of a module are disabled in its        *)
(* initial state, so its fairness asks nothing of the other behaviours.    *)
(*                                                                         *)
(* The group has one founder ("group"), or any device may found it         *)
(* ("rivals"), with one request, no fault and no lock.                     *)
(***************************************************************************)
EXTENDS GroupAuthority, ChatSession, TrustPrompts

VARIABLE part

Founders ==
    {d \in Devices : [type |-> "created", device |-> d, actor |-> d] \in store[d].audit}

MCInit == part \in {"group", "rivals", "chat", "prompts"} /\ GInit /\ Init /\ PInit
MCNext ==
    \/ /\ part = "group" /\ GNext /\ Cardinality(Founders') <= 1
       /\ UNCHANGED <<part, vars, pvars>>
    \/ /\ part = "rivals" /\ GNext
       /\ requests' <= 1 /\ faults' = 0 /\ \A d \in Devices : ~locked'[d]
       /\ UNCHANGED <<part, vars, pvars>>
    \/ part = "chat" /\ Next /\ UNCHANGED <<part, gvars, pvars>>
    \/ part = "prompts" /\ PNext /\ UNCHANGED <<part, gvars, vars>>

MCSpec ==
    /\ MCInit /\ [][MCNext]_<<part, gvars, vars, pvars>>
    /\ GFairness /\ Fairness
=============================================================================
