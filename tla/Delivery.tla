------------------------------ MODULE Delivery ------------------------------
(***************************************************************************)
(* What a file transfer promises to the users at its two ends, without     *)
(* connections, chunks, offsets, partial files or acks.  The receiver      *)
(* verifies a transfer at most once, a verified file appears under a free  *)
(* name in one step and stays there, and the sender is told exactly one    *)
(* outcome, "completed" only for a transfer the receiver has verified.     *)
(***************************************************************************)
EXTENDS Naturals

CONSTANTS
    Transfers,
    Names,      \* names in the downloads directory
    Vers,       \* contents a file can have
    Nothing     \* a name without a file

VARIABLES
    offered,    \* content offered by each transfer
    check,      \* the receiver's check: "none", "whole" or "placed"
    files,      \* the downloads directory
    verdict     \* what the sender is told

vars == <<offered, check, files, verdict>>

Init ==
    /\ offered \in [Transfers -> Vers]
    /\ check = [t \in Transfers |-> "none"]
    /\ files = [n \in Names |-> Nothing]
    /\ verdict = [t \in Transfers |-> "none"]

\* The sender settles what it offers, before anything is checked.
Choose(t, v) ==
    /\ check[t] = "none"
    /\ verdict[t] = "none"
    /\ offered' = [offered EXCEPT ![t] = v]
    /\ UNCHANGED <<check, files, verdict>>

Verify(t) ==
    /\ check[t] = "none"
    /\ check' = [check EXCEPT ![t] = "whole"]
    /\ UNCHANGED <<offered, files, verdict>>

Place(t, n) ==
    /\ check[t] = "whole"
    /\ files[n] = Nothing
    /\ check' = [check EXCEPT ![t] = "placed"]
    /\ files' = [files EXCEPT ![n] = offered[t]]
    /\ UNCHANGED <<offered, verdict>>

Tell(t, v) ==
    /\ verdict[t] = "none"
    /\ v = "completed" => check[t] # "none"
    /\ verdict' = [verdict EXCEPT ![t] = v]
    /\ UNCHANGED <<offered, check, files>>

\* A lost connection fails every transfer on it at once.
FailAll(T) ==
    /\ \A t \in T : verdict[t] = "none"
    /\ verdict' = [t \in Transfers |-> IF t \in T THEN "failed" ELSE verdict[t]]
    /\ UNCHANGED <<offered, check, files>>

Next ==
    \/ \E t \in Transfers :
          \/ Verify(t)
          \/ \E v \in Vers : Choose(t, v)
          \/ \E n \in Names : Place(t, n)
          \/ \E v \in {"completed", "rejected"} : Tell(t, v)
    \/ \E T \in SUBSET Transfers : FailAll(T)

Spec == Init /\ [][Next]_vars
=============================================================================
