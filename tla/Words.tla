------------------------------- MODULE Words -------------------------------
(***************************************************************************)
(* Exercises of src/30-question-writing-test-xianfengshangtai/ about        *)
(* strings.  A string is a sequence of characters, and a character a member *)
(* of a small set; digits are numbers where their value counts.             *)
(***************************************************************************)
EXTENDS Arrays

Substrings(s) == {SubSeq(s, i, j) : i, j \in DOMAIN s}

-----------------------------------------------------------------------------
(* jichu17.cpp, jichu18.cpp: the words of a sentence in reverse order       *)

IsSpace(x) == x = " "

\* jichu17.cpp: the words that the stream yields, joined by single spaces
RECURSIVE WordsOf(_)
WordsOf(s) ==
    LET spaces == {i \in DOMAIN s : IsSpace(s[i])}
        end == Min(spaces \cup {Len(s) + 1})
        rest == SubSeq(s, end + 1, Len(s))
    IN  IF s = <<>> THEN <<>>
        ELSE IF end = 1 THEN WordsOf(rest)
        ELSE <<SubSeq(s, 1, end - 1)>> \o WordsOf(rest)

Joined(words) ==
    FoldLeft(LAMBDA s, i : s \o words[i] \o (IF i < Len(words) THEN <<" ">> ELSE <<>>),
             <<>>, Up(1, Len(words)))

reverseWords17(s) == Joined(Reverse(WordsOf(s)))

\* jichu18.cpp: the ends are trimmed, then runs of spaces become one,
removeDuplicateSpace(s) ==
    LET solid == {i \in DOMAIN s : ~IsSpace(s[i])}
        trimmed == IF solid = {} THEN <<>> ELSE SubSeq(s, Min(solid), Max(solid))
    IN  FoldLeft(LAMBDA r, i : IF IsSpace(trimmed[i]) /\ IsSpace(trimmed[i - 1]) THEN r
                               ELSE Append(r, trimmed[i]),
                 <<>>, Up(1, Len(trimmed)))

swapString(s, begin, end) ==
    [i \in DOMAIN s |-> IF i >= begin /\ i <= end THEN s[begin + end - i] ELSE s[i]]

\* each word is turned round where it stands, and then the whole.
RECURSIVE TurnWords(_, _, _)
TurnWords(s, begin, end) ==
    IF end > Len(s) THEN swapString(s, begin, end - 1)
    ELSE IF IsSpace(s[end]) THEN TurnWords(swapString(s, begin, end - 1), end + 1, end + 1)
    ELSE TurnWords(s, begin, end + 1)

reverseWords18(s) ==
    LET t == TurnWords(removeDuplicateSpace(s), 1, 1) IN swapString(t, 1, Len(t))

\* The second solution of jichu18.cpp: every word goes through one stack on to
\* another, which is emptied into the string.
StackWords(s) ==
    LET Push(st, i) ==
            IF i <= Len(s) /\ ~IsSpace(s[i]) THEN [st EXCEPT !.word = <<s[i]>> \o @]
            ELSE IF st.word = <<>> THEN st
            ELSE [word |-> <<>>,
                  sentence |-> Reverse(st.word)
                                 \o (IF st.sentence = <<>> THEN <<>> ELSE <<" ">>)
                                 \o st.sentence]
    IN  FoldLeft(Push, [word |-> <<>>, sentence |-> <<>>], Up(1, Len(s) + 1)).sentence

\* The three agree, however many spaces stand where.
WordsAreReversed(s) ==
    /\ reverseWords18(s) = reverseWords17(s)
    /\ StackWords(s) = reverseWords17(s)

-----------------------------------------------------------------------------
(* leetcode/LongestChildStrNoDupli.cpp                                     *)

\* char_map counts a character, char_pos is where it was seen last; a repeated
\* one moves istart only if it lies in the current substring.
lengthOfLongestSubstring(s) ==
    LET Step(a, j) ==
            LET again == a.count[s[j]] + 1 > 1 /\ a.pos[s[j]] >= a.start
                b == [a EXCEPT !.count[s[j]] = IF again THEN 1 ELSE @ + 1,
                               !.max = IF again THEN Larger(@, j - a.start) ELSE @,
                               !.start = IF again THEN a.pos[s[j]] + 1 ELSE @,
                               !.pos[s[j]] = j]
            IN  IF j = Len(s) THEN [b EXCEPT !.max = Larger(@, j - b.start + 1)] ELSE b
    IN  FoldLeft(Step, [count |-> [x \in ToSet(s) |-> 0], pos |-> [x \in ToSet(s) |-> 1],
                        start |-> 1, max |-> 0], Up(1, Len(s))).max

\* It is the length of a longest substring without a repeated character.
LongestIsFound(s) ==
    lengthOfLongestSubstring(s) =
        Max({0} \cup {Len(t) : t \in {u \in Substrings(s) : IsInjective(u)}})

-----------------------------------------------------------------------------
(* 39.cpp                                                                  *)

\* prefix[m] is the first place where the digits seen an odd number of times so
\* far were those of m (-2: none yet).  The bit mask is that set.
longestAwesome(s) ==
    LET Seen(a, m, j) == IF a.prefix[m] = -2 THEN 0 ELSE j - a.prefix[m]
        Step(a, j) ==
            LET mask == SymDiff(a.mask, {s[j]})
                b == [a EXCEPT !.mask = mask, !.prefix[mask] = IF @ = -2 THEN j ELSE @]
            IN  [b EXCEPT !.ans = Max({@, Seen(a, mask, j)} \cup
                            {Seen(b, SymDiff(mask, {k}), j) : k \in ToSet(s)})]
    IN  FoldLeft(Step, [mask |-> {}, ans |-> 0,
                        prefix |-> [m \in SUBSET ToSet(s) |-> IF m = {} THEN 0 ELSE -2]],
                 Up(1, Len(s))).ans

OddOnes(s) == {x \in ToSet(s) : Cardinality({i \in DOMAIN s : s[i] = x}) % 2 = 1}

\* It is the length of a longest substring whose digits can be put into a
\* palindrome.
AwesomeIsFound(s) ==
    longestAwesome(s) =
        Max({0} \cup {Len(t) : t \in {u \in Substrings(s) : Cardinality(OddOnes(u)) <= 1}})

-----------------------------------------------------------------------------
(* 40.cpp, 41.cpp                                                          *)

\* d[i][j]: strings made from the first i characters by deleting j.  What a
\* repetition s[k] = s[i] counts twice is taken off, for the last k >= first.
\* (Where d[i - 1][j] is 0 the code skips i; nothing would be taken off there.)
Deletions(s, first) ==
    LET Again(i, j) == {k \in first .. i - 1 : i - k <= j /\ s[k] = s[i]}
        d[i \in 0 .. Len(s)] ==
            [j \in 0 .. 2 |->
                IF i = 0 THEN (IF j = 0 THEN 1 ELSE 0)
                ELSE d[i - 1][j] + (IF j > 0 THEN d[i - 1][j - 1] ELSE 0)
                     - (IF Again(i, j) = {} THEN 0
                        ELSE LET k == Max(Again(i, j)) IN d[k - 1][j - (i - k)])]
    IN  d

Deletions40(s) == Deletions(s, 1)

\* 41.cpp looks for the repetition down to k = 2 only.
Deletions41(s) == Deletions(s, 2)

Without(s, gone) == LET keep == SetToSortSeq(DOMAIN s \ gone, <)
                    IN  [i \in DOMAIN keep |-> s[keep[i]]]

\* 40.cpp counts the different strings that deleting j of the characters leaves;
\* 41.cpp does too unless the first one comes again among the next two.
DeletionsAreCounted(s) ==
    \A j \in 0 .. 2 :
        LET different == Cardinality({Without(s, gone) : gone \in kSubset(j, DOMAIN s)})
        IN  /\ Deletions40(s)[Len(s)][j] = different
            /\ (s # <<>> => s[1] \notin ToSet(SubSeq(s, 2, Smaller(3, Len(s))))) =>
                   Deletions41(s)[Len(s)][j] = different

-----------------------------------------------------------------------------
(* jichu37.cpp                                                             *)

\* Every character in turn is brought to the front of what is left, and back.
RECURSIVE Permutation(_, _)
Permutation(s, begin) ==
    IF begin > Len(s) THEN {s}
    ELSE UNION {Permutation([s EXCEPT ![i] = s[begin], ![begin] = s[i]], begin + 1) :
                    i \in begin .. Len(s)}

\* (A string of length zero or one passes the loop.)
isHuiwen(s) == \A i \in 1 .. ((Len(s) - 1) \div 2) + 1 : s # <<>> => s[i] = s[Len(s) + 1 - i]

getLongestPalindrome(s) ==
    LET n == Len(s)
        dp[p \in (1 .. n + 1) \X (0 .. n)] ==
            IF p[1] > p[2] THEN 0
            ELSE IF p[1] = p[2] THEN 1
            ELSE IF s[p[1]] = s[p[2]] /\ isHuiwen(SubSeq(s, p[1], p[2]))
            THEN dp[<<p[1] + 1, p[2] - 1>>] + 2
            ELSE Larger(dp[<<p[1] + 1, p[2]>>], dp[<<p[1], p[2] - 1>>])
    IN  dp[<<1, n>>]

\* The table holds the longest palindrome in the string, and the longest one over
\* all permutations uses every pair of digits and one digit more.
PalindromesAreLongest(s) ==
    LET all == Permutation(s, 1)
        odd == Cardinality(OddOnes(s))
    IN  /\ getLongestPalindrome(s) =
              Max({Len(t) : t \in {u \in Substrings(s) : u = Reverse(u)}})
        /\ all = {t \in [DOMAIN s -> ToSet(s)] : Occurrences(t) = Occurrences(s)}
        /\ Max({getLongestPalindrome(t) : t \in all}) =
              Len(s) - odd + (IF odd > 0 THEN 1 ELSE 0)

-----------------------------------------------------------------------------
(* 43.cpp: the longest number in a string; "1" stands for every digit       *)

\* numlen: where the runs of digits begin, in order, and how long they are
numlen(a) ==
    LET begins == {i \in DOMAIN a : a[i] = "1" /\ (i = 1 \/ a[i - 1] # "1")}
        After(i) == Min({j \in i .. Len(a) + 1 : j = Len(a) + 1 \/ a[j] # "1"})
        at == SetToSortSeq(begins, <)
    IN  [k \in DOMAIN at |-> [index |-> at[k], num |-> After(at[k]) - at[k]]]

\* Mutant of Candidate: an equally long one does not replace the best one.
CandidateIfLonger(a, best, index, num) ==
    IF num <= best.len THEN best
    ELSE IF index > 1 /\ a[index - 1] \in {"+", "-"}
    THEN [start |-> index - 1, len |-> num + 1]
    ELSE [start |-> index, len |-> num]

\* A candidate is compared before its sign is counted.
Candidate(a, best, index, num) ==
    IF num < best.len THEN best
    ELSE IF index > 1 /\ a[index - 1] \in {"+", "-"}
    THEN [start |-> index - 1, len |-> num + 1]
    ELSE [start |-> index, len |-> num]

getLongestNumber(a) ==
    LET runs == numlen(a)
        Step(best, k) ==
            LET index == runs[k].index
                num == runs[k].num
                whole == Candidate(a, best, index, num)
            IN  IF index + num + 1 <= Len(a) /\ a[index + num] = "." /\ a[index + num + 1] = "1"
                THEN Candidate(a, whole, index, runs[k + 1].num + num + 1)
                ELSE whole
        r == FoldLeft(Step, [start |-> 1, len |-> 0], Up(1, Len(runs)))
    IN  SubSeq(a, r.start, r.start + r.len - 1)

\* Digits, with a point between two of them at most once, and perhaps a sign
IsNumber(t) ==
    LET u == IF t # <<>> /\ t[1] \in {"+", "-"} THEN Tail(t) ELSE t
        points == {i \in DOMAIN u : u[i] = "."}
    IN  /\ u # <<>> /\ Cardinality(points) <= 1 /\ points \cap {1, Len(u)} = {}
        /\ \A i \in DOMAIN u \ points : u[i] = "1"

\* Although the sign is counted after the comparison, no number in the string is
\* longer than the one found.
NumberIsLongest(a) ==
    LET numbers == {t \in Substrings(a) : IsNumber(t)}
        found == getLongestNumber(a)
    IN  IF numbers = {} THEN found = <<>>
        ELSE found \in numbers /\ \A t \in numbers : Len(t) <= Len(found)

-----------------------------------------------------------------------------
(* jichu31.cpp: x and x* in patterns.  (A '.' matches the end of the string  *)
(* too, for a pointer is compared with '\0', and the code reads on behind    *)
(* it: patterns have none here.)                                             *)

RECURSIVE IsMatch(_, _)
IsMatch(str, pattern) ==
    IF pattern = <<>> THEN str = <<>>
    ELSE LET same == str # <<>> /\ pattern[1] = str[1]
             beyond == SubSeq(pattern, 3, Len(pattern))
         IN  IF Len(pattern) > 1 /\ pattern[2] = "*"
             THEN \/ IsMatch(str, beyond)
                  \/ same /\ (IsMatch(Tail(str), beyond) \/ IsMatch(Tail(str), pattern))
             ELSE same /\ IsMatch(Tail(str), Tail(pattern))

\* The loops end before the last character of both strings.
IsMatch_DP(str, pattern) ==
    LET match[i \in 0 .. Len(str) - 1] ==
            LET row[j \in 0 .. Len(pattern) - 1] ==
                    IF j = 0 THEN i = 0
                    ELSE IF pattern[j] = "*"
                    THEN \/ row[j - 2]
                         \/ i > 0 /\ str[i] = pattern[j - 1] /\ match[i - 1][j]
                    ELSE i > 0 /\ str[i] = pattern[j] /\ match[i - 1][j - 1]
            IN  row
    IN  match[Len(str) - 1][Len(pattern) - 1]

IsPattern(p) == \A i \in DOMAIN p : p[i] = "*" => i > 1 /\ p[i - 1] # "*"

\* The string is the characters of the pattern, a starred one any number of times.
Fits(str, p) ==
    LET chars == SetToSortSeq({i \in DOMAIN p : p[i] # "*"}, <)
        Starred(i) == i < Len(p) /\ p[i + 1] = "*"
    IN  \E times \in [DOMAIN chars -> 0 .. Len(str)] :
            /\ \A k \in DOMAIN chars : Starred(chars[k]) \/ times[k] = 1
            /\ str = FlattenSeq([k \in DOMAIN chars |->
                                    [t \in 1 .. times[k] |-> p[chars[k]]]])

\* The recursion matches what it should; the table answers for both strings
\* without their last character.
MatchIsRight(str, p) ==
    IsPattern(p) =>
        /\ IsMatch(str, p) = Fits(str, p)
        /\ str # <<>> /\ p # <<>> => IsMatch_DP(str, p) = Fits(Front(str), Front(p))

-----------------------------------------------------------------------------
(* leetcode/big_correct.cpp, leetcode/big.cpp: numbers as their digits      *)

\* Which of two strings of digits comes first, from the greatest down
Greater(x, y) ==
    \E i \in 1 .. Len(x) :
        /\ \A j \in 1 .. i - 1 : j <= Len(y) /\ x[j] = y[j]
        /\ i > Len(y) \/ x[i] > y[i]

compare(sa, sb) == Greater(sa \o sb, sb \o sa)

printvec(temp) == FlattenSeq(SortSeq(temp, compare))

cstring_cmp(yushu1, yushu2) ==
    LET size == Smaller(Len(yushu1), Len(yushu2))
        differ == {i \in 1 .. size : yushu1[i] # yushu2[i]}
    IN  IF differ # {} THEN IF yushu1[Min(differ)] > yushu2[Min(differ)] THEN -1 ELSE 1
        ELSE IF Len(yushu1) > Len(yushu2) THEN -1 ELSE 0

\* No other order of the numbers prints a greater one; the order of big.cpp is the
\* same as long as no number begins with another one.
PrintedIsGreatest(temp) ==
    /\ \A p \in {q \in [DOMAIN temp -> DOMAIN temp] : IsInjective(q)} :
          ~Greater(FlattenSeq([i \in DOMAIN temp |-> temp[p[i]]]), printvec(temp))
    /\ \A i, j \in DOMAIN temp :
          ~IsPrefix(temp[i], temp[j]) /\ ~IsPrefix(temp[j], temp[i]) =>
              (cstring_cmp(temp[i], temp[j]) = -1) = compare(temp[i], temp[j])
=============================================================================
