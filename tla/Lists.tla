-------------------------------- MODULE Lists --------------------------------
(***************************************************************************)
(* The containers of src/30-question-writing-test-xianfengshangtai/         *)
(* jichu29.cpp: the list in an array (SqList), the stack (SqStack) and the  *)
(* circular list with a header (LinkList).  They are independent: a         *)
(* behaviour uses the one that kind names.  Elements have positions from 1. *)
(***************************************************************************)
EXTENDS Integers, SequencesExt

CONSTANTS
    Value,      \* elements
    Garbage,    \* what a cell holds that nobody has written: no element
    InitSize,   \* INITLIST_SIZE, STACK_INIT_SIZE
    Increment,  \* INCRESMENT, STACKINCRESMENT
    MaxItems    \* bound: the operations insert no more than this

VARIABLES
    kind,       \* "SqList", "SqStack", "LinkList"
    block,      \* SqList, SqStack: the cells of the memory block
    length,     \* SqList: length; SqStack: top - base
    next,       \* LinkList: the next pointers of the nodes that are allocated
    data,       \* LinkList: their data
    items       \* ghost: what the container should hold
vars == <<kind, block, length, next, data, items>>

Header == 0

\* InitList, InitStack, CreateList_L
Init ==
    /\ kind \in {"SqList", "SqStack", "LinkList"}
    /\ block = [k \in 1 .. InitSize |-> Garbage]
    /\ length = 0
    /\ next = [n \in {Header} |-> Header]
    /\ data = [n \in {Header} |-> Garbage]
    /\ items = <<>>

Array == kind \in {"SqList", "SqStack"} /\ UNCHANGED <<kind, next, data>>
Ring  == kind = "LinkList" /\ UNCHANGED <<kind, block, length>>

Blank(n) == [k \in 1 .. n |-> Garbage]

\* realloc copies the block; the new cells hold anything.
Grown == IF length >= Len(block) THEN block \o Blank(Increment) ELSE block

\* A write outside of the block is not followed further.
Put(b, i, e) == [k \in DOMAIN b |-> IF k = i THEN e ELSE b[k]]

-----------------------------------------------------------------------------
(* SqList                                                                  *)

\* The range check (i < 1 && i > length + 1) refuses nothing.  The cells from i
\* on move up; a hole is left if i is behind the end.
InsertAtWith(i, e, moved) ==
    /\ kind = "SqList" /\ Array
    /\ length < MaxItems
    /\ block' = Put([k \in DOMAIN Grown |->
                        IF k \in moved THEN Grown[k - 1] ELSE Grown[k]], i, e)
    /\ length' = length + 1
    /\ items' = IF i <= length + 1 THEN InsertAt(items, i, e) ELSE Append(items, Garbage)

\* Mutant of InsertList: the move begins one cell too low.
InsertListShort(i, e) == InsertAtWith(i, e, i + 1 .. length)

InsertList(i, e) == InsertAtWith(i, e, i + 1 .. length + 1)

-----------------------------------------------------------------------------
(* SqStack                                                                 *)

\* When the block grows, top is set to its new end: the element is written behind
\* the block, and below it there are cells that nobody has written.
Push(e) ==
    /\ kind = "SqStack" /\ Array
    /\ Len(items) < MaxItems
    /\ LET top == IF length >= Len(block) THEN Len(Grown) ELSE length
       IN  /\ block' = Put(Grown, top + 1, e)
           /\ length' = top + 1
           /\ items' = IF length < Len(block) THEN Append(items, e)
                       ELSE SubSeq(items, 1, Len(block)) \o Blank(top + 1 - Len(block))

\* Mutant of Pop: top is moved twice.
PopTwice ==
    /\ kind = "SqStack" /\ Array
    /\ length > 1
    /\ length' = length - 2
    /\ items' = Front(items)
    /\ UNCHANGED block

\* An empty stack is an error; the cell keeps its value.
Pop ==
    /\ kind = "SqStack" /\ Array
    /\ length > 0
    /\ length' = length - 1
    /\ items' = Front(items)
    /\ UNCHANGED block

-----------------------------------------------------------------------------
(* LinkList.  After the header has been freed nothing more is called.      *)

\* p = L->next, and k times p = p->next: never null, on a ring
Walk[k \in Nat] == IF k = 0 THEN next[Header] ELSE next[Walk[k - 1]]

\* The node at which the walk of a call with number i stands: j < i - 1
Node(i) == Walk[IF i < 1 THEN 0 ELSE i - 1]

\* Transver: what is printed until the walk is back at the header
Transver ==
    LET back == {k \in 0 .. MaxItems : Walk[k] = Header}
        n    == CHOOSE k \in back : \A j \in back : k <= j
    IN  [k \in 1 .. n |-> data[Walk[k - 1]]]

\* malloc returns a node that is not allocated.
Spare == CHOOSE n \in 1 .. MaxItems : n \notin DOMAIN next

\* Where a node is on the ring: 0 for the header, k for the k-th node behind it
Pos(n) == IF n = Header THEN 0 ELSE CHOOSE k \in 1 .. Len(items) : Walk[k - 1] = n

InsertAfterWith(p, e, behind) ==
    /\ Ring /\ Header \in DOMAIN next
    /\ Len(items) < MaxItems
    /\ next' = [n \in DOMAIN next \cup {Spare} |->
                   IF n = Spare THEN behind ELSE IF n = p THEN Spare ELSE next[n]]
    /\ data' = [n \in DOMAIN data \cup {Spare} |-> IF n = Spare THEN e ELSE data[n]]
    /\ items' = InsertAt(items, Pos(p) + 1, e)

\* Mutant of InsertAfter: p->next = s before s->next = p->next.
InsertAfterSwapped(p, e) == InsertAfterWith(p, e, Spare)

InsertAfter(p, e) == InsertAfterWith(p, e, next[p])

ListInsert_Header(e) == InsertAfter(Header, e)

\* Behind the node at which the walk stands; i < 0 is an error.
ListInsert_L(i, e) == InsertAfter(Node(i), e)

\* The node behind it is freed, be it the header, and e is its data.
ListDelete_L(i) ==
    /\ Ring /\ Header \in DOMAIN next
    /\ LET p == Node(i)
           q == next[p]
       IN  /\ next' = [n \in DOMAIN next \ {q} |-> IF n = p THEN next[q] ELSE next[n]]
           /\ data' = [n \in DOMAIN data \ {q} |-> data[n]]
           /\ items' = IF q = Header THEN items ELSE RemoveAt(items, Pos(q))

-----------------------------------------------------------------------------
Next ==
    \/ \E e \in Value :
          \/ \E i \in 1 .. length + 2 : InsertList(i, e)
          \/ Push(e)
          \/ ListInsert_Header(e)
          \/ \E i \in 0 .. MaxItems : ListInsert_L(i, e)
    \/ Pop
    \/ \E i \in 0 .. MaxItems : ListDelete_L(i)

Spec == Init /\ [][Next]_vars

-----------------------------------------------------------------------------
\* No container loses or moves what it should keep.  SqList and SqStack: the
\* elements are where the calls put them, although insertions move them and the
\* block is moved; the cells that a call left unwritten are not claimed to hold
\* anything (InsertList behind the end, Push on a full block).  LinkList, until a
\* call frees the header: all allocated nodes are on one ring, once each, and once
\* round it reads as what was inserted, each element behind the node that was
\* walked to, without those that were handed back.  Which node a number should
\* name is not claimed.
ListsHold ==
    /\ kind # "LinkList" =>
          /\ Len(items) = length
          /\ \A k \in DOMAIN items : items[k] # Garbage => block[k] = items[k]
    /\ kind = "LinkList" /\ Header \in DOMAIN next =>
          /\ Walk[Len(items)] = Header
          /\ \A n \in DOMAIN next \ {Header} : \E k \in 1 .. Len(items) : Walk[k - 1] = n
          /\ Transver = items
=============================================================================
