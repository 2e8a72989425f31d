--------------------------- MODULE MCSendReceive ---------------------------
(* Instances of the send and receive tasks for TLC.                        *)
EXTENDS SendReceive
CONSTANTS i1, i2, h1
=============================================================================
