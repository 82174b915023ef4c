---------------------------- MODULE TransferBase ----------------------------
(***************************************************************************)
(* What the two ends of a file transfer share: the transfer identifiers,   *)
(* the connections, the versions the offered file can have, and the two    *)
(* transition tables of core/transfer_state.py.                            *)
(*                                                                         *)
(* A version stands for a whole file content.  Its SHA-256 is the version  *)
(* itself (no collisions), its length is SizeOf[v], and its bytes are the  *)
(* cells <<v, 1>>, <<v, 2>>, ...  so that bytes of two versions, or of two *)
(* offsets, are told apart.  One offered file name is modelled: offers of  *)
(* different names never meet in the downloads directory.                  *)
(***************************************************************************)
EXTENDS Integers, Sequences, FiniteSets

CONSTANTS
    Transfers,          \* transfer_id values (each uuid4 is used once)
    Conns,              \* addr_key values
    Vers,               \* contents the offered file can have
    SizeOf,             \* [Vers -> Nat], the length of each content
    ChunkSize,          \* CHUNK_SIZE
    QueueCap            \* frames a connection holds before drain() suspends

ASSUME SomeConnection == Conns # {}
ASSUME SomeVersion == Vers # {}
ASSUME VersionsAreNumbered == Vers \subseteq Nat \ {0}
ASSUME SizesAreNatural == SizeOf \in [Vers -> Nat]
ASSUME ChunkIsPositive == ChunkSize \in Nat \ {0}
ASSUME QueueIsPositive == QueueCap \in Nat \ {0}

Zero == <<0, 0>>

Cell == (Vers \cup {0}) \X Nat

\* The bytes of a whole file of version v.
Content(v) == [i \in 1 .. SizeOf[v] |-> <<v, i>>]

\* n rounded down to a chunk boundary.
Aligned(n) == n - (n % ChunkSize)

SmallerOf(a, b) == IF a <= b THEN a ELSE b

OutgoingState ==
    {"NONE", "OFFERED", "WAITING_FOR_ACCEPT", "SENDING",
     "WAITING_FOR_COMPLETE_ACK", "COMPLETED", "FAILED", "REJECTED",
     "CANCELLED"}

\* _OUTGOING_TRANSITIONS; "NONE" is a transfer_id no object has yet.
OutgoingTransitions ==
    [s \in OutgoingState |->
        CASE s = "NONE"               -> {}
          [] s = "OFFERED"            -> {"WAITING_FOR_ACCEPT"}
          [] s = "WAITING_FOR_ACCEPT" ->
                {"SENDING", "FAILED", "REJECTED", "CANCELLED"}
          [] s = "SENDING"            ->
                {"WAITING_FOR_COMPLETE_ACK", "FAILED", "CANCELLED"}
          [] s = "WAITING_FOR_COMPLETE_ACK" ->
                {"COMPLETED", "FAILED", "CANCELLED"}
          [] OTHER                    -> {s}]

IncomingState ==
    {"NONE", "OFFERED", "ACCEPTED", "RECEIVING", "PAUSED", "RESUMING",
     "VERIFYING", "COMPLETED", "REJECTED", "CANCELLED", "FAILED", "EXPIRED"}

IncomingOutcomes == {"REJECTED", "CANCELLED", "FAILED", "EXPIRED"}

\* _INCOMING_TRANSITIONS.
IncomingTransitions ==
    [s \in IncomingState |->
        CASE s = "NONE"      -> {}
          [] s = "OFFERED"   -> {"ACCEPTED"} \cup IncomingOutcomes
          [] s = "ACCEPTED"  -> {"RECEIVING"} \cup IncomingOutcomes
          [] s = "RECEIVING" ->
                {"RECEIVING", "VERIFYING", "PAUSED"} \cup IncomingOutcomes
          [] s = "PAUSED"    -> {"RESUMING"} \cup IncomingOutcomes
          [] s = "RESUMING"  -> {"RECEIVING"} \cup IncomingOutcomes
          [] s = "VERIFYING" -> {"COMPLETED"} \cup IncomingOutcomes
          [] OTHER           -> {s}]
=============================================================================
