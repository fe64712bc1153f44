-------------------------------- MODULE Packs --------------------------------
(***************************************************************************)
(* Exercises of src/30-question-writing-test-xianfengshangtai/ that fill a  *)
(* table with the best choices: the knapsacks of jichu8.cpp and             *)
(* leetcode/ZerorOnePack.cpp, and leetcode/Stolen.cpp.  Items are numbered  *)
(* from 1, the columns of a table from 0.                                   *)
(***************************************************************************)
EXTENDS Totals, Sequences, FiniteSetsExt

TotalOf(s, items) == SumOf([i \in DOMAIN s |-> IF i \in items THEN s[i] ELSE 0], Len(s))

\* The most that items of total weight W at most are worth
BestPack(w, v, W) ==
    Max({TotalOf(v, items) : items \in {t \in SUBSET DOMAIN w : TotalOf(w, t) <= W}})

-----------------------------------------------------------------------------
(* jichu8.cpp: w[], v[] and the best values V of the items i .. n           *)

\* Column 0 stays zero unless the item weighs nothing.
Rows(w, v, W) ==
    LET n == Len(w)
        V[i \in 1 .. n + 1] ==
            [j \in 0 .. W |->
                IF i = n + 1 \/ (j = 0 /\ w[i] > 0) THEN 0
                ELSE IF i = n THEN IF j < w[n] THEN 0 ELSE v[n]
                ELSE IF j < w[i] THEN V[i + 1][j]
                ELSE Larger(V[i + 1][j], V[i + 1][j - w[i]] + v[i])]
    IN  V

\* Row 1 has one cell, for which the first item must weigh less than W.
KnaspackIf(w, v, W, first) ==
    LET V == Rows(w, v, W)
    IN  [V EXCEPT ![1][W] = IF first THEN Larger(V[2][W], V[2][W - w[1]] + v[1])
                            ELSE V[2][W]]

\* Mutant of Knaspack: the first item is never taken.
KnaspackWithoutFirst(w, v, W) == KnaspackIf(w, v, W, FALSE)

Knaspack(w, v, W) == KnaspackIf(w, v, W, W > w[1])

\* The items in best[] and the W that is left, after the rows up to i
Traced(w, V, W) ==
    LET r[i \in 0 .. Len(w) - 1] ==
            IF i = 0 THEN [best |-> {}, W |-> W]
            ELSE LET p == r[i - 1]
                 IN  IF V[i][p.W] = V[i + 1][p.W] THEN p
                     ELSE [best |-> p.best \cup {i}, W |-> p.W - w[i]]
    IN  r

Traceback(w, V, W) ==
    LET n == Len(w)
        r == Traced(w, V, W)[n - 1]
    IN  IF V[n][r.W] # 0 THEN r.best \cup {n} ELSE r.best

\* The items chosen fit and are worth what the table says; that is the best unless
\* the first item alone fills the knapsack.  (With an item that weighs nothing the
\* walk back can leave the table: every item weighs something here.)
KnapsackIsRight(w, v, W) ==
    LET V == Knaspack(w, v, W)
        best == Traceback(w, V, W)
    IN  /\ TotalOf(w, best) <= W
        /\ TotalOf(v, best) = V[1][W]
        /\ W # w[1] => V[1][W] = BestPack(w, v, W)

-----------------------------------------------------------------------------
(* leetcode/ZerorOnePack.cpp                                               *)

Filled(w, val, t) ==
    LET dp[i \in 0 .. Len(w)] ==
            [j \in 0 .. t |->
                IF i = 0 THEN 0
                ELSE IF j >= w[i] THEN Larger(dp[i - 1][j - w[i]] + val[i], dp[i - 1][j])
                ELSE dp[i - 1][j]]
    IN  dp

ZeroOnePack(w, val, t) == Filled(w, val, t)[Len(w)][t]

-----------------------------------------------------------------------------
(* leetcode/Stolen.cpp                                                     *)

\* dp[i]: from the houses i .. n
Robbed(nums) ==
    LET n == Len(nums)
        dp[i \in 1 .. n] == IF i = n THEN nums[n]
                            ELSE IF i = n - 1 THEN Larger(nums[n], nums[n - 1])
                            ELSE Larger(dp[i + 2] + nums[i], dp[i + 1])
    IN  dp

rob(nums) == IF Len(nums) = 0 THEN 0 ELSE Robbed(nums)[1]

\* No two neighbours, and as much as that can bring
LootIsBest(nums) ==
    rob(nums) = Max({TotalOf(nums, t) : t \in {u \in SUBSET DOMAIN nums :
                                                 \A i \in u : i + 1 \notin u}})
=============================================================================
