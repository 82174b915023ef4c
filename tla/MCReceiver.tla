----------------------------- MODULE MCReceiver -----------------------------
(* The receiver of offers of one file name, in two versions.               *)
EXTENDS TransferReceiver

CONSTANTS d1

MCSizeOf == <<3, 2>>

\* Both connections are with one device.
MCDeviceOf == [c \in Conns |-> d1]
=============================================================================
