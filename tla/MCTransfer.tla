----------------------------- MODULE MCTransfer -----------------------------
(* One sender and one receiver, one connection at a time.                  *)
EXTENDS FileTransfer

CONSTANT d1

MCSizeOf == [v \in Vers |-> 5]
MCShortSizeOf == <<3, 1>>
MCDeviceOf == [c \in Conns |-> d1]
=============================================================================
