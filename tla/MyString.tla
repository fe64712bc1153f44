------------------------------ MODULE MyString ------------------------------
(***************************************************************************)
(* The class MyString of src/30-question-writing-test-xianfengshangtai/     *)
(* jichu14.cpp: objects that own a buffer of characters, the heap they      *)
(* share, and every constructor, assignment, operator and the destructor.   *)
(***************************************************************************)
EXTENDS Integers, Sequences

CONSTANTS
    Object,     \* the objects of the program
    Literal,    \* what a const char * may point to, without its last zero
    MaxBuffers  \* bound: buffers allocated at a time

VARIABLES
    ptr,        \* m_pData of the objects that exist
    len,        \* m_nLen
    heap,       \* the buffers that are allocated and the text in them
    lost,       \* ghost: buffers that an assignment left to nobody
    value       \* ghost: the text every object should stand for
vars == <<ptr, len, heap, lost, value>>

Null == 0
Wild == -1      \* never initialised; buffers are numbered from 1
Alive == DOMAIN ptr

Init == ptr = <<>> /\ len = <<>> /\ heap = <<>> /\ lost = {} /\ value = <<>>

Set(f, x, y) == [z \in DOMAIN f \cup {x} |-> IF z = x THEN y ELSE f[z]]
Without(f, x) == [z \in DOMAIN f \ {x} |-> f[z]]

\* free(m_pData), if it is not null
Freed(o) == IF ptr[o] = Null THEN heap ELSE Without(heap, ptr[o])

\* m_nLen = n; CopyData(pData) of an object whose m_pData is `before`: texts has
\* the n characters at pData in it, and nothing for a null pointer.
CopyData(o, n, texts, before, h) ==
    /\ len' = Set(len, o, n)
    /\ IF texts = {} THEN ptr' = Set(ptr, o, before) /\ heap' = h
       ELSE LET b == CHOOSE x \in 1 .. MaxBuffers : x \notin DOMAIN h
            IN  ptr' = Set(ptr, o, b) /\ heap' = Set(h, b, CHOOSE t \in texts : TRUE)

\* What memcpy finds at other.m_pData
Content(other) ==
    IF ptr[other] = Null THEN {} ELSE {SubSeq(heap[ptr[other]], 1, len[other])}

HasRoom == \E b \in 1 .. MaxBuffers : b \notin DOMAIN heap

New(o) == o \in Object \ Alive

\* A pointer that was never initialised is not followed.
Usable(o) == o \in Alive /\ ptr[o] # Wild

-----------------------------------------------------------------------------
\* MyString()
Construct(o) ==
    /\ New(o)
    /\ ptr' = Set(ptr, o, Null) /\ len' = Set(len, o, 0) /\ value' = Set(value, o, <<>>)
    /\ UNCHANGED <<heap, lost>>

\* MyString(const char *)
ConstructFrom(o, text) ==
    /\ New(o) /\ HasRoom
    /\ CopyData(o, Len(text), {text}, Wild, heap)
    /\ value' = Set(value, o, text)
    /\ UNCHANGED lost

\* MyString(const MyString&), and operator +, which returns a copy and does not
\* look at what is added
CopyConstruct(o, other) ==
    /\ New(o) /\ Usable(other) /\ HasRoom
    /\ CopyData(o, len[other], Content(other), Wild, heap)
    /\ value' = Set(value, o, value[other])
    /\ UNCHANGED lost

\* Mutant of CopyAssign: the old buffer is not deleted.
CopyAssignKeeps(o, other) ==
    /\ Usable(o) /\ Usable(other) /\ o # other /\ HasRoom
    /\ CopyData(o, len[other], Content(other), Null, heap)
    /\ value' = Set(value, o, value[other])
    /\ UNCHANGED lost

\* operator=(const MyString&); nothing happens when it is the same object.
CopyAssign(o, other) ==
    /\ Usable(o) /\ Usable(other) /\ o # other /\ HasRoom
    /\ CopyData(o, len[other], Content(other), Null, Freed(o))
    /\ value' = Set(value, o, value[other])
    /\ UNCHANGED lost

\* The pointer moves, and the other object keeps its length.
Take(o, other, left) ==
    /\ ptr' = Set(Set(ptr, o, ptr[other]), other, left)
    /\ len' = Set(len, o, len[other])
    /\ value' = Set(Set(value, o, value[other]), other, <<>>)
    /\ UNCHANGED heap

\* Mutant of MoveConstruct: the other object keeps its pointer too.
MoveConstructShares(o, other) ==
    /\ New(o) /\ Usable(other)
    /\ Take(o, other, ptr[other])
    /\ UNCHANGED lost

\* MyString(MyString&&)
MoveConstruct(o, other) ==
    /\ New(o) /\ Usable(other)
    /\ Take(o, other, Null)
    /\ UNCHANGED lost

\* operator=(MyString&&): the buffer of this object is not deleted, and its pointer
\* not even read.
MoveAssign(o, other) ==
    /\ o \in Alive /\ Usable(other) /\ o # other
    /\ Take(o, other, Null)
    /\ lost' = lost \cup ({ptr[o]} \ {Null, Wild})

\* ~MyString()
Destroy(o) ==
    /\ Usable(o)
    /\ heap' = Freed(o)
    /\ ptr' = Without(ptr, o) /\ len' = Without(len, o) /\ value' = Without(value, o)
    /\ UNCHANGED lost

Next ==
    \E o \in Object :
        \/ Construct(o)
        \/ \E text \in Literal : ConstructFrom(o, text)
        \/ \E other \in Object \ {o} :
              \/ CopyConstruct(o, other)
              \/ CopyAssign(o, other)
              \/ MoveConstruct(o, other)
              \/ MoveAssign(o, other)
        \/ Destroy(o)

Spec == Init /\ [][Next]_vars

-----------------------------------------------------------------------------
\* Every object stands for the text it was given, whatever was moved or destroyed:
\* its buffer is allocated, as long as m_nLen says, and no other object's.  Only
\* the copy of an object without a buffer has a pointer that was never
\* initialised, and only a move assignment leaves a buffer to nobody.
BuffersHaveOneOwner ==
    LET owners == {o \in Alive : ptr[o] \notin {Null, Wild}}
    IN  /\ \A o \in Alive \ owners : value[o] = <<>>
        /\ \A o \in owners :
              /\ ptr[o] \in DOMAIN heap
              /\ heap[ptr[o]] = value[o] /\ Len(value[o]) = len[o]
              /\ \A p \in owners \ {o} : ptr[p] # ptr[o]
        /\ DOMAIN heap = lost \cup {ptr[o] : o \in owners}
        /\ lost \cap {ptr[o] : o \in owners} = {}
=============================================================================
