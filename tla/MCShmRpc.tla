------------------------------ MODULE MCShmRpc ------------------------------
(* Instances of ShmRpc for TLC.                                            *)
EXTENDS ShmRpc

CONSTANTS a, b, c       \* runs of dwq_client
=============================================================================
