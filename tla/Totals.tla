------------------------------- MODULE Totals -------------------------------
(* Sums and the like, for the schedulers and the exercises                 *)
EXTENDS Integers

Larger(x, y)  == IF x >= y THEN x ELSE y
Smaller(x, y) == IF x <= y THEN x ELSE y

\* f[1] + ... + f[n]
SumOf(f, n) ==
    LET upTo[k \in 0 .. n] == IF k = 0 THEN 0 ELSE upTo[k - 1] + f[k]
    IN  upTo[n]
=============================================================================
