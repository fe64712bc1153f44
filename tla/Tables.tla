------------------------------- MODULE Tables -------------------------------
(***************************************************************************)
(* Exercises of src/30-question-writing-test-xianfengshangtai/ that fill a  *)
(* table: knapsacks, coins, and the like.  Items are numbered from 1, the   *)
(* columns of a table from 0.  Tables that the code keeps in one array and  *)
(* overwrites are overwritten here, cell by cell in the code's order.       *)
(***************************************************************************)
EXTENDS Arrays, Packs

\* for (i ...) for (j ...)
Cells(rows, cols) ==
    FlattenSeq([k \in DOMAIN rows |-> [l \in DOMAIN cols |-> <<rows[k], cols[l]>>]])

-----------------------------------------------------------------------------
(* jichu9.cpp: all choices; a good is <<sign, w, p>>, its number in X first *)

\* BackTrack(i) takes good i if it fits, undoes that, and leaves it.
RECURSIVE BackTrack(_, _, _, _)
BackTrack(a, W, i, st) ==
    IF i > Len(a)
    THEN IF st.bestP < st.cp THEN [st EXCEPT !.X = st.cx, !.bestP = st.cp] ELSE st
    ELSE LET with == BackTrack(a, W, i + 1, [st EXCEPT !.cw = @ + a[i][2],
                                                !.cp = @ + a[i][3], !.cx[a[i][1]] = 1])
             back == [with EXCEPT !.cw = st.cw, !.cp = st.cp]
             next == IF st.cw + a[i][2] <= W THEN back ELSE st
         IN  BackTrack(a, W, i + 1, [next EXCEPT !.cx[a[i][1]] = 0])

\* However the goods are sorted the search finds the best value, and X says in the
\* original numbers which goods are worth it.
BacktrackIsRight(w, v, W) ==
    \A by \in {p \in [DOMAIN w -> DOMAIN w] : IsInjective(p)} :
        LET none == [i \in DOMAIN w |-> 0]
            r == BackTrack([i \in DOMAIN w |-> <<by[i], w[by[i]], v[by[i]]>>], W, 1,
                           [cw |-> 0, cp |-> 0, cx |-> none, X |-> none, bestP |-> 0])
            X == {i \in DOMAIN w : r.X[i] = 1}
        IN  /\ r.bestP = BestPack(w, v, W)
            /\ TotalOf(v, X) = r.bestP /\ TotalOf(w, X) <= W

\* The three knapsacks of the exercises
PacksAreBest(w, v, W) ==
    /\ KnapsackIsRight(w, v, W)
    /\ BacktrackIsRight(w, v, W)
    /\ ZeroOnePack(w, v, W) = BestPack(w, v, W)

-----------------------------------------------------------------------------
(* leetcode/BinMax_correct.cpp                                             *)

countZeroOnes(s) == [b \in {0, 1} |-> Cardinality({i \in DOMAIN s : s[i] = b})]

\* One table for all strings, from its last cell down.
findMaxForm(strs, m, n) ==
    LET Add(dp, k) ==
            LET a == countZeroOnes(strs[k])
            IN  FoldLeft(LAMBDA d, at : [d EXCEPT ![at] =
                             Larger(@, d[<<at[1] - a[0], at[2] - a[1]>>] + 1)],
                         dp, Cells(Down(m, a[0]), Down(n, a[1])))
    IN  FoldLeft(Add, [at \in (0 .. m) \X (0 .. n) |-> 0], Up(1, Len(strs)))[<<m, n>>]

\* Every string is used once at most: the most strings with m zeros and n ones.
FormIsLargest(strs, m, n) ==
    LET Used(t, b) == MapThenSumSet(LAMBDA i : countZeroOnes(strs[i])[b], t)
    IN  findMaxForm(strs, m, n) =
            Max({Cardinality(t) : t \in {u \in SUBSET DOMAIN strs :
                                            Used(u, 0) <= m /\ Used(u, 1) <= n}})

-----------------------------------------------------------------------------
(* leetcode/CoinChange.cpp, leetcode/CoinChange_correct.cpp                *)

Change(dp, amount) == IF dp[amount] > amount THEN -1 ELSE dp[amount]

Fewer(dp, i, value) == [dp EXCEPT ![i] = Smaller(dp[i - value] + 1, @)]

Unpaid(amount) == [i \in 0 .. amount |-> IF i = 0 THEN 0 ELSE amount + 1]

\* Amounts outside, coins inside
coinChange(coins, amount) ==
    LET Step(dp, at) == IF coins[at[2]] <= at[1] THEN Fewer(dp, at[1], coins[at[2]]) ELSE dp
    IN  Change(FoldLeft(Step, Unpaid(amount), Cells(Up(0, amount), Up(1, Len(coins)))),
               amount)

\* Coins outside, amounts inside
coinChangeCorrect(coins, amount) ==
    LET Step(dp, j) == FoldLeft(LAMBDA d, i : Fewer(d, i, coins[j]), dp, Up(coins[j], amount))
    IN  Change(FoldLeft(Step, Unpaid(amount), Up(1, Len(coins))), amount)

\* In either order of the loops it is the least number of coins.
ChangeIsLeast(coins, amount) ==
    LET pays == {c \in [DOMAIN coins -> 0 .. amount] :
                    MapThenSumSet(LAMBDA i : c[i] * coins[i], DOMAIN coins) = amount}
        least == IF pays = {} THEN -1 ELSE Min({TotalOf(c, DOMAIN coins) : c \in pays})
    IN  coinChange(coins, amount) = least /\ coinChangeCorrect(coins, amount) = least

-----------------------------------------------------------------------------
(* leetcode/MonkeyDpp.cpp, jichu34.cpp                                     *)

\* stone_dp[i]: the stones stepped on from i to the end of the bridge
Monkey(length, MinStep, MaxStep, an) ==
    LET Stone(i) == IF i \in an THEN 1 ELSE 0
        dp[i \in 0 .. length] ==
            IF i >= length - MaxStep THEN Stone(i)
            ELSE Min({dp[i + j] : j \in MinStep .. MaxStep}) + Stone(i)
    IN  dp[0]

\* It is the least over all ways across, which tread on `at`.
StonesAreFewest(length, MinStep, MaxStep, an) ==
    LET IsWay(at) ==
            /\ Max(at) >= length - MaxStep
            /\ \A i \in at \ {Max(at)} :
                  Min({j \in at : j > i}) - i \in MinStep .. MaxStep
    IN  Monkey(length, MinStep, MaxStep, an) =
            Min({Cardinality(at \cap an) :
                    at \in {u \in SUBSET (0 .. length - 1) : 0 \in u /\ IsWay(u)}})

Trees(n) ==
    LET sum[i \in 0 .. n] ==
            IF i <= 1 THEN 1 ELSE MapThenSumSet(LAMBDA j : sum[j] * sum[i - j - 1], 0 .. i - 1)
    IN  sum[n]

\* As many as there are ways to push and pop n elements.
TreesAreCounted(n) ==
    LET Opens(f, k) == Cardinality({i \in 1 .. k : f[i]})
    IN  Trees(n) = Cardinality({f \in [1 .. 2 * n -> BOOLEAN] :
            /\ Opens(f, 2 * n) = n
            /\ \A k \in 1 .. 2 * n : 2 * Opens(f, k) >= k})
=============================================================================
