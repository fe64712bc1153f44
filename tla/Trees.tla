-------------------------------- MODULE Trees --------------------------------
(***************************************************************************)
(* Exercises of src/30-question-writing-test-xianfengshangtai/ on linked    *)
(* nodes: the binary trees of jichu29.cpp and leetcode/linkTree.cpp, the    *)
(* trees of sons and brothers of jichu7.cpp, and the numbers that           *)
(* leetcode/linkadd*.cpp keep in lists, lowest digit first.                 *)
(*                                                                          *)
(* A node is <<data, left, right>>, and <<>> is the null pointer.  What a   *)
(* traversal visits is a sequence.  Stacks are deep enough here.            *)
(***************************************************************************)
EXTENDS Arrays

Null == <<>>
Data(t)  == t[1]
Left(t)  == t[2]
Right(t) == t[3]

\* All trees of n nodes, with the data from i on in pre-order
RECURSIVE Shapes(_, _)
Shapes(n, i) ==
    IF n = 0 THEN {Null}
    ELSE UNION {{<<i, l, r>> : l \in Shapes(k, i + 1), r \in Shapes(n - 1 - k, i + 1 + k)} :
                    k \in 0 .. n - 1}

-----------------------------------------------------------------------------
(* jichu29.cpp.  The visitor answers zero (OVERFLOW) for the data in stop.  *)

\* ERROR is 1, which the callers take for success: a visitor that fails skips the
\* subtrees below, and the traversal goes on beside them.
RECURSIVE PreOrderTraverse(_, _)
PreOrderTraverse(t, stop) ==
    IF t = Null THEN <<>>
    ELSE <<Data(t)>> \o (IF Data(t) \in stop THEN <<>>
                         ELSE PreOrderTraverse(Left(t), stop)
                                \o PreOrderTraverse(Right(t), stop))

\* while (GetTop(S, atmp) && atmp) Push(S, atmp->lchild)
RECURSIVE GoLeft(_)
GoLeft(st) == IF Head(st) = Null THEN st ELSE GoLeft(<<Left(Head(st))>> \o st)

\* The null is popped and then a node, if there is one.
RECURSIVE InOrderFrom(_, _, _)
InOrderFrom(st, stop, visited) ==
    IF st = <<>> THEN visited
    ELSE LET rest == Tail(GoLeft(st))
             node == Head(rest)
             out  == Append(visited, Data(node))
         IN  IF rest = <<>> THEN visited
             ELSE IF Data(node) \in stop THEN out
             ELSE InOrderFrom(<<Right(node)>> \o Tail(rest), stop, out)

InOrderTraverse(t, stop) == InOrderFrom(<<t>>, stop, <<>>)

\* The same with no null on the stack
RECURSIVE InOrder2From(_, _, _, _)
InOrder2From(atmp, st, stop, visited) ==
    IF atmp # Null THEN InOrder2From(Left(atmp), <<atmp>> \o st, stop, visited)
    ELSE IF st = <<>> THEN visited
    ELSE LET node == Head(st)
             out  == Append(visited, Data(node))
         IN  IF Data(node) \in stop THEN out
             ELSE InOrder2From(Right(node), Tail(st), stop, out)

InOrderTraverse2(t, stop) == InOrder2From(t, <<>>, stop, <<>>)

\* It calls the pre-order traversal for both subtrees.
InOrderTraverse3(t, stop) ==
    IF t = Null THEN <<>>
    ELSE PreOrderTraverse(Left(t), stop) \o <<Data(t)>>
           \o (IF Data(t) \in stop THEN <<>> ELSE PreOrderTraverse(Right(t), stop))

\* Pairs are read until one has 255 in it, which is a null pointer.
RECURSIVE CreateBiTree(_)
CreateBiTree(input) ==
    IF 255 \in ToSet(Head(input)) THEN [tree |-> Null, input |-> Tail(input)]
    ELSE LET l == CreateBiTree(Tail(input))
             r == CreateBiTree(l.input)
         IN  [tree |-> <<Head(input), l.tree, r.tree>>, input |-> r.input]

RECURSIVE Ordered(_)
Ordered(t) == IF t = Null THEN <<>> ELSE Ordered(Left(t)) \o <<Data(t)>> \o Ordered(Right(t))

\* What lies below a node in stop
RECURSIVE Below(_, _)
Below(t, stop) ==
    IF t = Null THEN {}
    ELSE Below(Left(t), stop) \cup Below(Right(t), stop)
           \cup (IF Data(t) \in stop
                 THEN ToSet(Ordered(Left(t)) \o Ordered(Right(t))) ELSE {})

RECURSIVE Written(_, _)
Written(t, end) ==
    IF t = Null THEN <<end>>
    ELSE <<<<Data(t), 0>>>> \o Written(Left(t), end) \o Written(Right(t), end)

RECURSIVE Renamed(_)
Renamed(t) == IF t = Null THEN Null ELSE <<<<Data(t), 0>>, Renamed(Left(t)), Renamed(Right(t))>>

\* The two stacks visit the nodes in order up to the first failure; the pre-order
\* traversal (data count up in it) leaves out what is below a failure and no more;
\* the third "in-order" one puts the root between two pre-orders.  A tree written
\* down in pre-order, nulls included, is read back whole.
WalksAgree(t, stop) ==
    LET inOrder == Ordered(t)
        fails == {i \in DOMAIN inOrder : inOrder[i] \in stop}
        upTo == IF fails = {} THEN Len(inOrder) ELSE Min(fails)
    IN  /\ InOrderTraverse(t, stop) = SubSeq(inOrder, 1, upTo)
        /\ InOrderTraverse2(t, stop) = SubSeq(inOrder, 1, upTo)
        /\ PreOrderTraverse(t, stop) =
              SelectSeq(Up(1, Len(inOrder)), LAMBDA i : i \notin Below(t, stop))
        /\ t # Null => LET n == Len(Ordered(Left(t)))
                       IN  InOrderTraverse3(t, {}) =
                               Up(2, n + 1) \o <<1>> \o Up(n + 2, Len(inOrder))
        /\ \A end \in {<<255, 0>>, <<0, 255>>} :
              CreateBiTree(Written(t, end)) = [tree |-> Renamed(t), input |-> <<>>]

-----------------------------------------------------------------------------
(* jichu7.cpp: Left is pSon and Right pBrother; Node() yields the tokens    *)

\* Every node reads its sons and then its brother, the root too.
RECURSIVE TAddSon(_, _, _), TAddBrother(_, _)
TAddSon(content, tokens, at) ==
    LET son  == IF tokens[at] = Null THEN [tree |-> Null, at |-> at + 1]
                ELSE TAddSon(tokens[at], tokens, at + 1)
        next == TAddBrother(tokens, son.at)
    IN  [tree |-> <<content, son.tree, next.tree>>, at |-> next.at]
TAddBrother(tokens, at) ==
    IF tokens[at] = Null THEN [tree |-> Null, at |-> at + 1]
    ELSE TAddSon(tokens[at], tokens, at + 1)

TNew(tokens) == TAddSon(<<"ROOT">>, tokens, 1)

RECURSIVE TBrowse(_, _)
TBrowse(t, n) ==
    IF t = Null THEN <<>>
    ELSE <<<<n, Data(t)>>>> \o TBrowse(Left(t), n + 1) \o TBrowse(Right(t), n)

\* Mutant of UpToBrother: the walk goes on with a brother of a top node.
RECURSIVE UpToTop(_, _)
UpToTop(t, st) ==
    IF Right(t) # Null THEN <<Right(t)>> \o st
    ELSE IF st = <<>> THEN <<>>
    ELSE UpToTop(Head(st), Tail(st))

\* From a node without sons up to the first with a brother; the walk ends when
\* the stack gets empty, whether or not the node popped last has a brother.
RECURSIVE UpToBrother(_, _)
UpToBrother(t, st) ==
    IF Right(t) # Null THEN <<Right(t)>> \o st
    ELSE IF Len(st) <= 1 THEN <<>>
    ELSE UpToBrother(Head(st), Tail(st))

\* n is the depth of the stack.
RECURSIVE TBrowseStackFrom(_, _, _)
TBrowseStackFrom(t, st, visited) ==
    LET out == Append(visited, <<Len(st), Data(t)>>)
        up  == UpToBrother(t, st)
    IN  IF Left(t) # Null THEN TBrowseStackFrom(Left(t), <<t>> \o st, out)
        ELSE IF up = <<>> THEN out
        ELSE TBrowseStackFrom(Head(up), Tail(up), out)

TBrowseStack(t) == TBrowseStackFrom(t, <<>>, <<>>)

RECURSIVE Tokens(_)
Tokens(t) == IF t = Null THEN <<Null>>
             ELSE <<<<Data(t)>>>> \o Tokens(Left(t)) \o Tokens(Right(t))

RECURSIVE UpToSons(_)
UpToSons(t) ==
    IF t = Null THEN <<>>
    ELSE <<<<0, Data(t)>>>> \o (IF Left(t) = Null THEN UpToSons(Right(t))
                                ELSE TBrowse(Left(t), 1))

\* Two tokens are read for every node, the root included, and give the tree back;
\* the walk with the stack visits what the recursion does, except that it ends
\* with the first top node that has sons.
BrowsesAgree(t) ==
    LET read == TNew(Tokens(t) \o <<Null>>)
        root == read.tree
        out  == TBrowse(Left(root), 0)
    IN  /\ Data(root) = <<"ROOT">> /\ Right(root) = Null
        /\ read.at - 1 = 2 * (Len(Ordered(t)) + 1)
        /\ [i \in DOMAIN out |-> <<out[i][1], out[i][2][1]>>] = TBrowse(t, 0)
        /\ t # Null => TBrowseStack(t) = UpToSons(t)

-----------------------------------------------------------------------------
(* leetcode/linkTree.cpp                                                   *)

\* One level: size counts down, and a node's next is the one in front of the queue
\* unless it is the last; the children go to the end.
ConnectLevel(a) ==
    LET Step(b, size) ==
            LET ptr == Head(b.queue)
                rest == Tail(b.queue)
            IN  [next  |-> b.next \cup (IF size > 0 THEN {<<Data(ptr), Data(Head(rest))>>}
                                        ELSE {}),
                 queue |-> rest \o SelectSeq(<<Left(ptr), Right(ptr)>>, LAMBDA x : x # Null)]
    IN  FoldLeft(Step, a, Down(Len(a.queue) - 1, 0))

RECURSIVE Connected(_)
Connected(a) == IF a.queue = <<>> THEN a.next ELSE Connected(ConnectLevel(a))

connect(root) == Connected([queue |-> <<root>>, next |-> {}])

RECURSIVE AtDepth(_, _)
AtDepth(t, depth) ==
    IF t = Null THEN <<>>
    ELSE IF depth = 0 THEN <<Data(t)>>
    ELSE AtDepth(Left(t), depth - 1) \o AtDepth(Right(t), depth - 1)

\* Nodes of one depth are linked from left to right, and no others.
LevelsAreLinked(t) ==
    connect(t) = UNION {LET row == AtDepth(t, d)
                        IN  {<<row[i], row[i + 1]>> : i \in 1 .. Len(row) - 1} :
                            d \in 0 .. Len(Ordered(t))}

-----------------------------------------------------------------------------
(* leetcode/linkadd_correct.cpp, leetcode/linkadd.cpp                      *)

\* Characters are their codes: 48 is '0', 44 a comma.
buildList(text) ==
    LET digits == SelectSeq(text, LAMBDA ch : ch # 44)
    IN  [i \in DOMAIN digits |-> digits[i] - 48]

\* Mutant of AddFrom: the last carry is dropped.
RECURSIVE AddWhileBoth(_, _, _)
AddWhileBoth(l1, l2, carry) ==
    IF l1 = <<>> /\ l2 = <<>> THEN <<>>
    ELSE LET Digit(l) == IF l = <<>> THEN 0 ELSE Head(l)
             Next(l)  == IF l = <<>> THEN <<>> ELSE Tail(l)
             sum == carry + Digit(l1) + Digit(l2)
         IN  <<sum % 10>> \o AddWhileBoth(Next(l1), Next(l2), sum \div 10)

RECURSIVE AddFrom(_, _, _)
AddFrom(l1, l2, carry) ==
    IF l1 = <<>> /\ l2 = <<>> /\ carry = 0 THEN <<>>
    ELSE LET Digit(l) == IF l = <<>> THEN 0 ELSE Head(l)
             Next(l)  == IF l = <<>> THEN <<>> ELSE Tail(l)
             sum == carry + Digit(l1) + Digit(l2)
         IN  <<sum % 10>> \o AddFrom(Next(l1), Next(l2), sum \div 10)

addTwoNumbers(l1, l2) == AddFrom(l1, l2, 0)

\* linkadd.cpp counts one node too many of l2, appends one zero to l1 at most, and
\* gives the result two nodes; <<>> when it follows a null pointer.
addTwoNumbersOld(l1, l2) ==
    LET len1 == Len(l1)
        len2 == Len(l2) + 1
        longer == IF len1 < len2 THEN Append(l1, 0) ELSE l1
        Step(r, i) == LET val == longer[i] + l2[i] + r.curse
                      IN  [curse |-> IF val >= 10 THEN 1 ELSE r.curse,
                           digits |-> Append(r.digits, IF val >= 10 THEN val - 10 ELSE val)]
    IN  IF len1 > len2 \/ Len(longer) < 2 \/ Len(l2) < 2 THEN <<>>
        ELSE FoldLeft(Step, [curse |-> 0, digits |-> <<>>], Up(1, 2)).digits

Text(l) == FlattenSeq([i \in DOMAIN l |-> IF i = 1 THEN <<48 + l[1]>> ELSE <<44, 48 + l[i]>>])
Number(l) == MapThenSumSet(LAMBDA i : l[i] * 10 ^ (i - 1), DOMAIN l)

\* The sum has every digit and no more nodes than the longer number and a carry;
\* the older version, where it ends at all, leaves the two lowest digits of it.
SumsAreRight(l1, l2) ==
    LET sum == addTwoNumbers(buildList(Text(l1)), buildList(Text(l2)))
        old == addTwoNumbersOld(l1, l2)
    IN  /\ Number(sum) = Number(l1) + Number(l2)
        /\ Len(sum) - Larger(Len(l1), Len(l2)) \in {0, 1}
        /\ old # <<>> => Number(old) = Number(sum) % 100
=============================================================================
