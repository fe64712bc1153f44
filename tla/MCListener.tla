----------------------------- MODULE MCListener -----------------------------
(* Instances of Listener for TLC.                                          *)
EXTENDS Listener, TLC

CONSTANTS c1, c2, t1, t2, t3, s1, s2

\* Two threads share the file at c1.
SharedFile == t1 :> c1 @@ t2 :> c1 @@ t3 :> c2
=============================================================================
