------------------------------- MODULE MCLink -------------------------------
(***************************************************************************)
(* How two devices come to trust each other, for TLC: sessions between two *)
(* devices that dial each other at the same time, and the keys that one of *)
(* them rotates while the other follows.  The two modules share no state,  *)
(* so a behaviour follows one of them, and the run explores the states of  *)
(* each and not their product.  Two connections are open at a time and one *)
(* end of one of them sends ("link"), or there is one connection and both  *)
(* of its ends send ("talk").                                              *)
(***************************************************************************)
EXTENDS SecureLink, KeyRotation

CONSTANTS c1, c2

MCDialer == [c \in Conns |-> IF c = c1 THEN A ELSE B]
MCTalkers == {<<c1, A>>, <<c1, B>>}

VARIABLE part

MCInit ==
    /\ part \in {"link", "talk", "keys"} /\ Init /\ KInit
    /\ part # "keys" => hasRing
MCNext ==
    \/ part = "link" /\ Next /\ sent'[c1][B] = 0 /\ UNCHANGED <<part, kvars>>
    \/ part = "talk" /\ Next /\ at'[c2] = at[c2] /\ UNCHANGED <<part, kvars>>
    \/ part = "keys" /\ KNext /\ UNCHANGED <<part, vars>>

MCSpec == MCInit /\ [][MCNext]_<<part, vars, kvars>> /\ Fairness
=============================================================================
