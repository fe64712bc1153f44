------------------------------ MODULE Fenwick ------------------------------
(***************************************************************************)
(* The Fenwick trees of src/30-question-writing-test-xianfengshangtai/:     *)
(* jichu30.cpp (prefix sums, and maxima of ranges), jichu36.cpp             *)
(* (inversions) and leetcode/RightBigerThan.cpp.  All of them number their  *)
(* cells from 1.                                                            *)
(***************************************************************************)
EXTENDS Arrays

\* x & (x ^ (x - 1)), x & -x
lowbit(x) == Max({p \in {1, 2, 4, 8} : x % p = 0})

\* The cells pos, pos + lowbit(pos), ... up to last, and back.
RECURSIVE Above(_, _)
Above(pos, last) ==
    IF pos > last THEN {} ELSE {pos} \cup Above(pos + lowbit(pos), last)
RECURSIVE Below(_)
Below(pos) == IF pos <= 0 THEN {} ELSE {pos} \cup Below(pos - lowbit(pos))

\* c[i] += a[i], then the cells whose ranges lie in that of i
build(a) ==
    FoldLeft(LAMBDA c, i : Append(c, a[i] + MapThenSumSet(LAMBDA j : c[i - j],
                                        {j \in {1, 2, 4} : j < lowbit(i)})),
             <<>>, Up(1, Len(a)))

\* The loop of plus ends before the last cell (pos < n).
plus(t, pos, num) ==
    [a |-> [t.a EXCEPT ![pos] = @ + num],
     c |-> [i \in DOMAIN t.c |->
               IF i \in Above(pos, Len(t.c) - 1) THEN t.c[i] + num ELSE t.c[i]]]

sum(c, end) == MapThenSumSet(LAMBDA i : c[i], Below(end))

\* update(x): h of x and of the cells above it from the array and the cells below
updateMax(a, h, x) ==
    FoldLeft(LAMBDA g, y : [g EXCEPT ![y] =
                 Max({a[y]} \cup {g[y - j] : j \in {k \in {1, 2, 4} : k < lowbit(y)}})],
             h, SetToSortSeq(Above(x, Len(a)), <))

\* query(x, y): an element, then as many whole ranges as fit, and so on down.
RECURSIVE query(_, _, _, _), Ranges(_, _, _, _)
query(a, h, x, y) == IF y < x THEN 0 ELSE Larger(a[y], Ranges(a, h, x, y - 1))
Ranges(a, h, x, y) ==
    IF y > 0 /\ y - lowbit(y) >= x
    THEN Larger(h[y], Ranges(a, h, x, y - lowbit(y)))
    ELSE query(a, h, x, y)

\* After build every prefix sum is right; after plus it is, the last one aside
\* (its cell is never reached).  After update(1 .. n - 1), as main calls it, every
\* range has its maximum.
FenwickIsRight(a, pos, num) ==
    LET n == Len(a)
        c == build(a)
        h == FoldLeft(LAMBDA g, x : updateMax(a, g, x), [i \in 1 .. n |-> 0], Up(1, n - 1))
    IN  /\ \A e \in 0 .. n : sum(c, e) = SumOf(a, e)
        /\ LET t == plus([a |-> a, c |-> c], pos, num)
           IN  \A e \in 1 .. n - 1 : sum(t.c, e) = SumOf(t.a, e)
        /\ n > 1 => \A x \in 1 .. n : \A y \in x .. n :
              query(a, h, x, y) = Max(ToSet(SubSeq(a, x, y)))

\* The rank of x among the different values: sort, unique, lower_bound
getId(nums, x) == Cardinality({v \in ToSet(nums) : v < x}) + 1

\* Mutant of update: the loop ends before the last cell, as that of plus does.
updateShort(c, pos) ==
    [i \in DOMAIN c |-> IF i \in Above(pos, Len(c) - 1) THEN c[i] + 1 ELSE c[i]]

\* update of jichu36.cpp and Update of RightBigerThan.cpp do reach the last cell.
update(c, pos) == [i \in DOMAIN c |-> IF i \in Above(pos, Len(c)) THEN c[i] + 1 ELSE c[i]]

\* jichu36.cpp: inversions, less the k that may be left
Inversions(nums, k) ==
    LET Step(r, i) ==
            LET c == update(r.c, getId(nums, nums[i]))
            IN  [c |-> c, res |-> r.res + i - sum(c, getId(nums, nums[i]))]
        r == FoldLeft(Step, [c |-> [i \in DOMAIN nums |-> 0], res |-> 0], Up(1, Len(nums)))
    IN  IF r.res < k THEN 0 ELSE r.res - k

\* RightBigerThan.cpp: how many to the right are smaller, from the right
countSmaller(nums) ==
    LET Step(r, i) ==
            LET id == getId(nums, nums[i])
            IN  [c |-> update(r.c, id), out |-> <<sum(r.c, id - 1)>> \o r.out]
    IN  FoldLeft(Step, [c |-> [i \in 1 .. Len(nums) + 4 |-> 0], out |-> <<>>],
                 Down(Len(nums), 1)).out

\* Counting by ranks in a Fenwick tree gives the number of pairs out of order.
RanksCountPairs(nums, k) ==
    LET later(i) == {j \in i + 1 .. Len(nums) : nums[j] < nums[i]}
        all == MapThenSumSet(LAMBDA i : Cardinality(later(i)), DOMAIN nums)
    IN  /\ Inversions(nums, k) = Larger(all - k, 0)
        /\ countSmaller(nums) = [i \in DOMAIN nums |-> Cardinality(later(i))]
=============================================================================
