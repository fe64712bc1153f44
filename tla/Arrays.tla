------------------------------- MODULE Arrays -------------------------------
(***************************************************************************)
(* Exercises of src/30-question-writing-test-xianfengshangtai/ that walk    *)
(* one array of integers.  An array is a sequence (its C index i is i + 1   *)
(* here); an array changed in place is returned beside the result.  A cell  *)
(* read outside of the array is a parameter: it may hold anything.          *)
(***************************************************************************)
EXTENDS Totals, SequencesExt, FiniteSetsExt

\* The values of a loop variable that goes up from i to j, or down
Up(i, j)   == [k \in 1 .. Larger(0, j - i + 1) |-> i + k - 1]
Down(i, j) == [k \in 1 .. Larger(0, i - j + 1) |-> i - k + 1]

IsAscending(s) == \A i \in 1 .. Len(s) - 1 : s[i] <= s[i + 1]

-----------------------------------------------------------------------------
(* leetcode/MoveZero.cpp                                                   *)

\* Mutant of ShiftDown: no zero is written behind the elements that moved.
ShiftDownOpen(nums, i, last) ==
    [j \in DOMAIN nums |-> IF j < i \/ j >= last THEN nums[j] ELSE nums[j + 1]]

\* The element at i is a zero: the ones behind it, up to the zeros collected
\* so far, move one down.
ShiftDown(nums, i, last) ==
    [j \in DOMAIN nums |->
        IF j < i \/ j > last THEN nums[j] ELSE IF j = last THEN 0 ELSE nums[j + 1]]

\* for (i = 0; i < size - klen;)
RECURSIVE MoveZeroFrom(_, _, _)
MoveZeroFrom(nums, i, klen) ==
    IF i > Len(nums) - klen THEN [nums |-> nums, len |-> Len(nums) - klen]
    ELSE IF nums[i] = 0
    THEN MoveZeroFrom(ShiftDown(nums, i, Len(nums) - klen), i, klen + 1)
    ELSE MoveZeroFrom(nums, i + 1, klen)

MoveZero(nums) == MoveZeroFrom(nums, 1, 0)

\* MoveZero keeps the other elements in their order, in front, and counts them.
ZerosAreMoved(nums) ==
    LET rest == SelectSeq(nums, LAMBDA x : x # 0)
    IN  MoveZero(nums) = [nums |-> rest \o [i \in 1 .. Len(nums) - Len(rest) |-> 0],
                          len  |-> Len(rest)]

-----------------------------------------------------------------------------
(* leetcode/RemoveDulplicate.cpp, RemoveDuplicateTwice.cpp: sorted arrays   *)

Write(a, x) == [a EXCEPT !.nums[a.len + 1] = x, !.len = @ + 1]

\* The element in front of a duplicate is overwritten by the ones behind; the
\* first one is compared with whatever lies in front of the array.
RECURSIVE RemoveDuplicateFrom(_, _, _)
RemoveDuplicateFrom(before, a, i) ==
    IF i > a.len THEN a
    ELSE IF a.nums[i] = IF i = 1 THEN before ELSE a.nums[i - 1]
    THEN RemoveDuplicateFrom(IF i = 1 THEN a.nums[1] ELSE before,
            [nums |-> [j \in DOMAIN a.nums |->
                          IF j >= i - 1 /\ j < a.len THEN a.nums[j + 1] ELSE a.nums[j]],
             len  |-> a.len - 1], i)
    ELSE RemoveDuplicateFrom(before, a, i + 1)

RemoveDuplicate(nums, before) ==
    RemoveDuplicateFrom(before, [nums |-> nums, len |-> Len(nums)], 1)

\* The one that writes from index 0 on, and so drops the first element.
RemoveDuplicate1(nums) ==
    FoldLeft(LAMBDA a, i : IF a.nums[i - 1] # a.nums[i] THEN Write(a, a.nums[i]) ELSE a,
             [nums |-> nums, len |-> 0], Up(2, Len(nums)))

RemoveDuplicate2(nums) ==
    IF nums = <<>> THEN [nums |-> nums, len |-> 0]
    ELSE FoldLeft(LAMBDA a, j : IF a.nums[a.len] # a.nums[j] THEN Write(a, a.nums[j]) ELSE a,
                  [nums |-> nums, len |-> 1], Up(2, Len(nums)))

\* At most two of each: flag counts the equal ones in a row.
RemoveDuplicateII(nums) ==
    IF Len(nums) <= 2 THEN [nums |-> nums, len |-> Len(nums)]
    ELSE LET Step(a, i) ==
                LET flag == IF a.nums[i] = a.last THEN a.flag + 1 ELSE 1
                    kept == IF flag <= 2 THEN Write(a, a.nums[i]) ELSE a
                IN  [kept EXCEPT !.flag = flag, !.last = kept.nums[i]]
             r == FoldLeft(Step, [nums |-> nums, len |-> 1, flag |-> 1, last |-> nums[1]],
                           Up(2, Len(nums)))
         IN  [nums |-> r.nums, len |-> r.len]

\* The same by comparison with the last one kept.
RemoveDuplicateII1(nums) ==
    IF Len(nums) <= 2 THEN [nums |-> nums, len |-> Len(nums)]
    ELSE LET Step(a, i) ==
                LET cnt == IF a.nums[i] # a.nums[a.len] THEN 1 ELSE a.cnt + 1
                IN  IF cnt > 2 THEN [a EXCEPT !.cnt = cnt]
                    ELSE [Write(a, a.nums[i]) EXCEPT !.cnt = cnt]
             r == FoldLeft(Step, [nums |-> nums, len |-> 1, cnt |-> 1], Up(2, Len(nums)))
         IN  [nums |-> r.nums, len |-> r.len]

Kept(a) == SubSeq(a.nums, 1, a.len)

\* The sorted array with at most n of each value
AtMost(nums, n) ==
    FoldLeft(LAMBDA s, i : IF i > n /\ nums[i - n] = nums[i] THEN s ELSE Append(s, nums[i]),
             <<>>, Up(1, Len(nums)))

\* On a sorted array the five functions agree on what they keep, although they
\* read cells they have written: the first only if it does not take the cell in
\* front of the array for a duplicate, the second without the first value.
DuplicatesAreRemoved(nums, before) ==
    IsAscending(nums) =>
        /\ (nums # <<>> => before # nums[1]) =>
               Kept(RemoveDuplicate(nums, before)) = AtMost(nums, 1)
        /\ nums # <<>> => Kept(RemoveDuplicate1(nums)) = Tail(AtMost(nums, 1))
        /\ Kept(RemoveDuplicate2(nums)) = AtMost(nums, 1)
        /\ Kept(RemoveDuplicateII(nums)) = AtMost(nums, 2)
        /\ Kept(RemoveDuplicateII1(nums)) = AtMost(nums, 2)

-----------------------------------------------------------------------------
(* leetcode/TwoSum.cpp                                                     *)

\* ptemp_hash holds the last index of every value seen so far.
RECURSIVE TwoSumFrom(_, _, _, _)
TwoSumFrom(nums, target, hash, i) ==
    IF i > Len(nums) THEN <<>>
    ELSE IF target - nums[i] \in DOMAIN hash THEN <<i, hash[target - nums[i]]>>
    ELSE TwoSumFrom(nums, target,
                    [x \in DOMAIN hash \cup {nums[i]} |-> IF x = nums[i] THEN i ELSE hash[x]],
                    i + 1)

twoSum(nums, target) == TwoSumFrom(nums, target, <<>>, 1)

\* The pair is one that adds up, found as early as there is one, and is missed
\* only if there is none.
PairIsFound(nums, target) ==
    LET pairs == {<<i, j>> \in (1 .. Len(nums)) \X (1 .. Len(nums)) :
                     i > j /\ nums[i] + nums[j] = target}
        found == twoSum(nums, target)
    IN  IF pairs = {} THEN found = <<>>
        ELSE found \in pairs /\ \A p \in pairs : found[1] <= p[1]

-----------------------------------------------------------------------------
(* leetcode/StockProfit.cpp: any number of trades                          *)

\* nums[i + 1] of the last i is the cell behind the array.
Price(nums, behind, i) == IF i > Len(nums) THEN behind ELSE nums[i]

StockProfit1(nums, behind) ==
    FoldLeft(LAMBDA sum, i : sum + Larger(Price(nums, behind, i + 1) - nums[i], 0),
             0, Up(1, Len(nums)))

\* From i, j runs up the rise that begins there.
RECURSIVE Rise(_, _, _, _, _)
Rise(nums, behind, i, j, sum) ==
    IF j > Len(nums) THEN [sum |-> sum, i |-> i]
    ELSE IF j + 1 = Len(nums) /\ nums[j + 1] >= nums[j]
    THEN [sum |-> sum + nums[j + 1] - nums[i], i |-> j + 1]
    ELSE IF nums[j] >= Price(nums, behind, j + 1)
    THEN [sum |-> sum + nums[j] - nums[i], i |-> j]
    ELSE Rise(nums, behind, i, j + 1, sum)

RECURSIVE Rises(_, _, _, _)
Rises(nums, behind, i, sum) ==
    IF i > Len(nums) THEN sum
    ELSE LET r == Rise(nums, behind, i, i, sum) IN Rises(nums, behind, r.i + 1, r.sum)

StockProfit2(nums, behind) == Rises(nums, behind, 1, 0)

\* The best that buying and selling one share at a time can bring
RECURSIVE BestTrades(_)
BestTrades(nums) ==
    IF nums = <<>> THEN 0
    ELSE Max({BestTrades(Tail(nums))} \cup
             {nums[j] - nums[1] + BestTrades(SubSeq(nums, j + 1, Len(nums))) :
                 j \in 2 .. Len(nums)})

\* StockProfit2 finds it whatever lies behind the array, which it reads;
\* StockProfit1 does unless that cell looks like one more rise.
TradesAreBest(nums, behind) ==
    /\ StockProfit2(nums, behind) = BestTrades(nums)
    /\ (nums # <<>> => behind <= Last(nums)) => StockProfit1(nums, behind) = BestTrades(nums)

-----------------------------------------------------------------------------
(* leetcode/gasadd.cpp                                                     *)

canCompleteCircuit(gas, cost) ==
    LET Step(a, i) ==
            LET gain == gas[i] - cost[i]
            IN  [total |-> a.total + gain,
                 cur   |-> IF a.cur + gain < 0 THEN 0 ELSE a.cur + gain,
                 start |-> IF a.cur + gain < 0 THEN i ELSE a.start]
        r == FoldLeft(Step, [total |-> 0, cur |-> 0, start |-> 0], Up(1, Len(gas)))
    IN  IF r.total < 0 THEN -1 ELSE r.start

\* From station start (0-based) the tank is never short on the way round.
GoesRound(gas, cost, start) ==
    \A k \in 1 .. Len(gas) :
        SumOf([j \in 1 .. k |-> LET at == ((start + j - 1) % Len(gas)) + 1
                                IN  gas[at] - cost[at]], k) >= 0

\* One pass over the stations finds a start that goes all the way round, though
\* it tries none of them round the end, and -1 only if there is none.
CircuitIsFound(gas, cost) ==
    LET start == canCompleteCircuit(gas, cost)
    IN  IF start = -1 THEN \A s \in 0 .. Len(gas) - 1 : ~GoesRound(gas, cost, s)
        ELSE gas # <<>> => start < Len(gas) /\ GoesRound(gas, cost, start)

-----------------------------------------------------------------------------
(* jichu38.cpp                                                             *)

RECURSIVE FirstInc(_, _)
FirstInc(inc, size) ==
    LET next == 3 * inc + 1 IN IF next < size THEN FirstInc(next, size) ELSE next

\* One pass compares every element once with the one inc in front of it.
ShellPass(nums, inc) ==
    FoldLeft(LAMBDA s, i : IF s[i - inc] > s[i]
                           THEN [s EXCEPT ![i] = s[i - inc], ![i - inc] = s[i]] ELSE s,
             nums, Up(inc + 1, Len(nums)))

RECURSIVE ShellPasses(_, _)
ShellPasses(nums, inc) ==
    LET s == ShellPass(nums, inc \div 3)
    IN  IF inc \div 3 > 1 THEN ShellPasses(s, inc \div 3) ELSE s

SortByShell(nums) == ShellPasses(nums, FirstInc(1, Len(nums)))

Occurrences(s) == [x \in ToSet(s) |-> Cardinality({i \in DOMAIN s : s[i] = x})]

\* One comparison per element does not sort (two elements aside), but no element
\* is lost or doubled and the largest one is last.
ShellKeepsElements(nums) ==
    LET s == SortByShell(nums)
    IN  /\ Occurrences(s) = Occurrences(nums)
        /\ nums # <<>> => Last(s) = Max(ToSet(nums))

=============================================================================
