------------------------------- MODULE MCReach ------------------------------
(***************************************************************************)
(* The two ways of learning where a peer is, for TLC.  Discovery and       *)
(* Rendezvous share no state, so a behaviour follows one of them and       *)
(* leaves the other in its initial state: the run explores the states of   *)
(* each and not their product.                                             *)
(***************************************************************************)
EXTENDS Discovery, Rendezvous

CONSTANTS a1, a2, g1, g2

MCAddrs == {a1, a2}
MCGroupList == <<g1, g2>>
MCRevocable == {<<g1, "traveller">>, <<g2, "asker">>}

VARIABLE way

Init ==
    /\ way \in {"discovery", "rendezvous"} /\ DInit /\ RInit
    /\ way = "rendezvous" => addr = a1 /\ deaf = Absent
Next ==
    \/ way = "discovery" /\ DNext /\ UNCHANGED <<way, rvars>>
    \/ way = "rendezvous" /\ RNext /\ UNCHANGED <<way, dvars>>

Spec == Init /\ [][Next]_<<way, dvars, rvars>>

=============================================================================
