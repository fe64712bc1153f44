---------------------------- MODULE MCWorkQueue ----------------------------
(* Instances of WorkQueue for TLC.                                         *)
EXTENDS WorkQueue

CONSTANTS a, b      \* files
=============================================================================
