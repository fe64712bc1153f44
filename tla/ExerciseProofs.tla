---------------------------- MODULE ExerciseProofs ----------------------------
(***************************************************************************)
(* Proofs about the programs beside the driver: the class MyString, the     *)
(* socket programs, the schedulers, the containers and the knapsacks.       *)
(***************************************************************************)
EXTENDS SmallPrograms, FiniteSetTheorems, SequenceTheorems, WellFoundedInduction, TLAPS

-----------------------------------------------------------------------------
(* MyString: the heap, and who owns what in it.                            *)

Owners == {o \in M!Alive : ptr[o] \notin {M!Null, M!Wild}}

StringTypes ==
    /\ DOMAIN len = M!Alive /\ DOMAIN value = M!Alive
    /\ \A o \in M!Alive : ptr[o] \in 1 .. MaxBuffers \cup {M!Null, M!Wild}
    /\ \A o \in M!Alive : value[o] \in Seq(Char)
    /\ DOMAIN heap \subseteq 1 .. MaxBuffers

\* BuffersHaveOneOwner, part by part
Owned ==
    /\ \A o \in M!Alive \ Owners : value[o] = <<>>
    /\ \A o \in Owners : /\ ptr[o] \in DOMAIN heap
                         /\ heap[ptr[o]] = value[o]
                         /\ Len(value[o]) = len[o]
    /\ \A o, p \in Owners : ptr[o] = ptr[p] => o = p
    /\ \A b \in DOMAIN heap : b \in lost \/ \E o \in Owners : ptr[o] = b
    /\ \A b \in lost : b \in DOMAIN heap /\ \A o \in Owners : ptr[o] # b

StringInv == StringTypes /\ Owned

\* The invariant says what the property says.
LEMMA OwnedIsOneOwner ==
  ASSUME Owned
  PROVE  BuffersHaveOneOwner
<1> DEFINE held == {ptr[o] : o \in Owners}
<1>1. /\ \A o \in M!Alive \ Owners : value[o] = <<>>
      /\ \A o \in Owners : /\ ptr[o] \in DOMAIN heap
                           /\ heap[ptr[o]] = value[o] /\ Len(value[o]) = len[o]
                           /\ \A p \in Owners \ {o} : ptr[p] # ptr[o]
  BY DEF Owned
<1>2. DOMAIN heap = lost \cup held
  <2>1. \A b \in DOMAIN heap : b \in lost \cup held
    BY DEF Owned
  <2>2. \A b \in lost \cup held : b \in DOMAIN heap
    BY DEF Owned
  <2> QED BY <2>1, <2>2
<1>3. lost \cap held = {}
  BY DEF Owned
<1> QED BY <1>1, <1>2, <1>3 DEF Owners, BuffersHaveOneOwner, M!BuffersHaveOneOwner

\* CopyData into an object that owns nothing in the heap h, h being as it should
\* for the objects but o: o owns a new buffer, or nothing if there is no text.
LEMMA CopyDataStep ==
  ASSUME StringTypes, M!HasRoom, NEW o, NEW n, NEW texts, NEW h, NEW text \in Seq(Char),
         NEW before, before = M!Null \/ before = M!Wild,
         M!CopyData(o, n, texts, before, h),
         value' = M!Set(value, o, text), lost' = lost,
         texts = {text} \/ (texts = {} /\ text = <<>>),
         texts # {} => Len(text) = n,
         DOMAIN h \subseteq DOMAIN heap,
         \A p \in M!Alive \ (Owners \cup {o}) : value[p] = <<>>,
         \A p \in Owners \ {o} : /\ ptr[p] \in DOMAIN h /\ h[ptr[p]] = value[p]
                                 /\ Len(value[p]) = len[p],
         \A p, q \in Owners \ {o} : ptr[p] = ptr[q] => p = q,
         \A b \in DOMAIN h : b \in lost \/ \E p \in Owners \ {o} : ptr[p] = b,
         \A b \in lost : b \in DOMAIN h /\ \A p \in Owners \ {o} : ptr[p] # b
  PROVE  StringInv'
<1> DEFINE b == CHOOSE x \in 1 .. MaxBuffers : x \notin DOMAIN h
<1>1. b \in 1 .. MaxBuffers /\ b \notin DOMAIN h
  BY DEF M!HasRoom
<1> HIDE DEF b
<1>2. len' = M!Set(len, o, n) /\ value' = M!Set(value, o, text) /\ lost' = lost
  BY DEF M!CopyData
<1>3. M!Null \notin 1 .. MaxBuffers /\ M!Wild \notin 1 .. MaxBuffers
  BY ProgramsAssumption DEF M!Null, M!Wild
<1>4. CASE texts = {}
  <2>1. ptr' = M!Set(ptr, o, before) /\ heap' = h
    BY <1>4 DEF M!CopyData
  <2>2. M!Alive' = M!Alive \cup {o} /\ Owners' = Owners \ {o}
    BY <2>1 DEF Owners, M!Alive, M!Set
  <2>3. StringTypes'
    BY <1>2, <2>1, <2>2 DEF StringTypes, M!Alive, M!Set
  <2>4. Owned'
    BY <1>2, <1>4, <2>1, <2>2 DEF Owned, StringTypes, Owners, M!Alive, M!Set
  <2> QED BY <2>3, <2>4 DEF StringInv
<1>5. CASE texts = {text}
  <2>1. ptr' = M!Set(ptr, o, b) /\ heap' = M!Set(h, b, text)
    <3>1. (CHOOSE t \in texts : TRUE) = text
      BY <1>5
    <3> QED BY <1>5, <3>1 DEF M!CopyData, b
  <2>2. M!Alive' = M!Alive \cup {o} /\ Owners' = Owners \cup {o}
    BY <1>1, <1>3, <2>1 DEF Owners, M!Alive, M!Set
  <2>3. StringTypes'
    BY <1>1, <1>2, <2>1, <2>2 DEF StringTypes, M!Alive, M!Set
  <2>4. /\ ptr'[o] = b /\ value'[o] = text /\ len'[o] = n
        /\ b \in DOMAIN heap' /\ heap'[b] = text /\ DOMAIN heap' = DOMAIN h \cup {b}
        /\ \A c \in DOMAIN h : heap'[c] = h[c]
        /\ \A p \in M!Alive \ {o} :
              ptr'[p] = ptr[p] /\ value'[p] = value[p] /\ len'[p] = len[p]
    BY <1>1, <1>2, <2>1 DEF StringTypes, M!Alive, M!Set
  <2>5. Owners \subseteq M!Alive
    BY DEF Owners
  <2>7. \A p \in M!Alive' \ Owners' : value'[p] = <<>>
    BY <2>2, <2>4
  <2>8. \A p \in Owners' : /\ ptr'[p] \in DOMAIN heap'
                           /\ heap'[ptr'[p]] = value'[p]
                           /\ Len(value'[p]) = len'[p]
    BY <1>5, <2>2, <2>4, <2>5
  <2>9. \A p, q \in Owners' : ptr'[p] = ptr'[q] => p = q
    BY <1>1, <2>2, <2>4, <2>5
  <2>10. \A c \in DOMAIN heap' : c \in lost' \/ \E p \in Owners' : ptr'[p] = c
    BY <1>2, <2>2, <2>4, <2>5
  <2>11. \A c \in lost' : c \in DOMAIN heap' /\ \A p \in Owners' : ptr'[p] # c
    BY <1>1, <1>2, <2>2, <2>4, <2>5
  <2>6. Owned'
    BY <2>7, <2>8, <2>9, <2>10, <2>11 DEF Owned
  <2> QED BY <2>3, <2>6 DEF StringInv
<1> QED BY <1>4, <1>5

\* What is said of a buffer before it changes hands
LEMMA Ownership ==
  ASSUME StringInv
  PROVE  /\ Owners \subseteq M!Alive
         /\ \A o \in M!Alive : value[o] \in Seq(Char)
         /\ \A o \in M!Alive \ Owners : value[o] = <<>>
         /\ \A o \in Owners : /\ ptr[o] \in DOMAIN heap /\ heap[ptr[o]] = value[o]
                              /\ Len(value[o]) = len[o]
         /\ \A o, p \in Owners : ptr[o] = ptr[p] => o = p
         /\ \A b \in DOMAIN heap : b \in lost \/ \E o \in Owners : ptr[o] = b
         /\ \A b \in lost : b \in DOMAIN heap /\ \A o \in Owners : ptr[o] # b
BY DEF StringInv, StringTypes, Owned, Owners

\* memcpy finds the text of the other object.
LEMMA ContentIsValue ==
  ASSUME StringInv, NEW other, M!Usable(other)
  PROVE  /\ other \in M!Alive
         /\ \/ M!Content(other) = {value[other]} /\ Len(value[other]) = len[other]
            \/ M!Content(other) = {} /\ value[other] = <<>>
<1>1. other \in M!Alive /\ ptr[other] # M!Wild
  BY DEF M!Usable
<1>2. CASE ptr[other] = M!Null
  BY <1>1, <1>2, Ownership DEF M!Content, Owners
<1>3. CASE ptr[other] # M!Null
  <2>1. other \in Owners
    BY <1>1, <1>3 DEF Owners
  <2>2. heap[ptr[other]] = value[other] /\ Len(value[other]) = len[other]
    BY <2>1, Ownership
  <2>3. SubSeq(value[other], 1, Len(value[other])) = value[other]
    BY <1>1, Ownership, SubSeqFull
  <2> QED BY <1>1, <1>3, <2>2, <2>3 DEF M!Content
<1> QED BY <1>1, <1>2, <1>3

\* delete of what an object has
LEMMA FreedHeap ==
  ASSUME StringInv, NEW o, M!Usable(o)
  PROVE  LET h == M!Freed(o)
         IN  /\ DOMAIN h \subseteq DOMAIN heap
             /\ \A p \in Owners \ {o} : ptr[p] \in DOMAIN h /\ h[ptr[p]] = value[p]
             /\ \A b \in DOMAIN h : b \in lost \/ \E p \in Owners \ {o} : ptr[p] = b
             /\ \A b \in lost : b \in DOMAIN h
<1>1. CASE ptr[o] = M!Null
  <2>1. o \notin Owners /\ M!Freed(o) = heap
    BY <1>1 DEF Owners, M!Freed
  <2> QED BY <2>1, Ownership
<1>2. CASE ptr[o] # M!Null
  <2>1. o \in Owners
    BY <1>2 DEF Owners, M!Usable
  <2>2. M!Freed(o) = [b \in DOMAIN heap \ {ptr[o]} |-> heap[b]]
    BY <1>2 DEF M!Freed, M!Without
  <2> QED BY <2>1, <2>2, Ownership
<1> QED BY <1>1, <1>2

\* MyString(): an object without a buffer
LEMMA ConstructStep ==
  ASSUME StringInv, NEW o, M!Construct(o)
  PROVE  StringInv'
<1>1. /\ ptr' = M!Set(ptr, o, M!Null) /\ len' = M!Set(len, o, 0)
      /\ value' = M!Set(value, o, <<>>) /\ heap' = heap /\ lost' = lost
      /\ o \notin M!Alive
  BY DEF M!Construct, M!New
<1>2. M!Alive' = M!Alive \cup {o} /\ Owners' = Owners
  BY <1>1 DEF Owners, M!Alive, M!Set
<1>3. <<>> \in Seq(Char)
  BY EmptySeq
<1>4. StringTypes'
  BY <1>1, <1>2, <1>3 DEF StringInv, StringTypes, M!Alive, M!Set
<1>5. /\ value'[o] = <<>>
      /\ \A p \in M!Alive \ {o} : ptr'[p] = ptr[p] /\ value'[p] = value[p] /\ len'[p] = len[p]
  BY <1>1 DEF StringInv, StringTypes, M!Alive, M!Set
<1>6. Owned'
  BY <1>1, <1>2, <1>5, Ownership DEF Owned
<1> QED BY <1>4, <1>6 DEF StringInv

\* The constructors and the assignment that copy a text
LEMMA CopyingStep ==
  ASSUME StringInv, NEW o,
         \/ \E text \in Literal : M!ConstructFrom(o, text)
         \/ \E other : M!CopyConstruct(o, other) \/ M!CopyAssign(o, other)
  PROVE  StringInv'
<1>1. StringTypes
  BY DEF StringInv
\* CopyDataStep with the heap as it is, for an object that does not exist yet
<1>2. ASSUME NEW k, NEW ts, NEW t \in Seq(Char), o \notin M!Alive, M!HasRoom,
             M!CopyData(o, k, ts, M!Wild, heap),
             value' = M!Set(value, o, t), lost' = lost,
             ts = {t} \/ (ts = {} /\ t = <<>>),
             ts # {} => Len(t) = k
      PROVE  StringInv'
  <2>1. Owners \ {o} = Owners
    BY <1>2, Ownership
  <2> DEFINE g == heap
  <2>2. DOMAIN g \subseteq DOMAIN heap /\ M!CopyData(o, k, ts, M!Wild, g)
    BY <1>2
  <2>3. /\ \A p \in M!Alive \ (Owners \cup {o}) : value[p] = <<>>
        /\ \A p \in Owners \ {o} : /\ ptr[p] \in DOMAIN g /\ g[ptr[p]] = value[p]
                                   /\ Len(value[p]) = len[p]
        /\ \A p, q \in Owners \ {o} : ptr[p] = ptr[q] => p = q
    BY Ownership
  <2>4. /\ \A b \in DOMAIN g : b \in lost \/ \E p \in Owners \ {o} : ptr[p] = b
        /\ \A b \in lost : b \in DOMAIN g /\ \A p \in Owners \ {o} : ptr[p] # b
    BY <2>1, Ownership
  <2> HIDE DEF g
  <2> QED BY <1>1, <1>2, <2>2, <2>3, <2>4, CopyDataStep
<1>3. ASSUME NEW text \in Literal, M!ConstructFrom(o, text)
      PROVE  StringInv'
  <2>1. /\ M!HasRoom /\ M!CopyData(o, Len(text), {text}, M!Wild, heap)
        /\ value' = M!Set(value, o, text) /\ lost' = lost
        /\ o \notin M!Alive
    BY <1>3 DEF M!ConstructFrom, M!New
  <2>2. text \in Seq(Char)
    BY ProgramsAssumption
  <2> QED BY <1>2, <2>1, <2>2
<1>4. ASSUME NEW other, M!CopyConstruct(o, other)
      PROVE  StringInv'
  <2>1. /\ M!HasRoom /\ M!CopyData(o, len[other], M!Content(other), M!Wild, heap)
        /\ value' = M!Set(value, o, value[other]) /\ lost' = lost
        /\ M!Usable(other)
        /\ o \notin M!Alive
    BY <1>4 DEF M!CopyConstruct, M!New
  <2>2. value[other] \in Seq(Char)
    BY <2>1, ContentIsValue, Ownership
  <2> QED BY <1>2, <2>1, <2>2, ContentIsValue
<1>5. ASSUME NEW other, M!CopyAssign(o, other)
      PROVE  StringInv'
  <2>1. /\ M!HasRoom /\ M!CopyData(o, len[other], M!Content(other), M!Null, M!Freed(o))
        /\ value' = M!Set(value, o, value[other]) /\ lost' = lost
        /\ M!Usable(o) /\ M!Usable(other)
    BY <1>5 DEF M!CopyAssign
  <2>2. value[other] \in Seq(Char)
    BY <2>1, ContentIsValue, Ownership
  <2> QED BY <1>1, <2>1, <2>2, CopyDataStep, ContentIsValue, FreedHeap, Ownership
<1> QED BY <1>3, <1>4, <1>5

\* A pointer moves: it has one owner as before, or is given up with what o had.
LEMMA TakeStep ==
  ASSUME StringInv, NEW o, NEW other, M!Usable(other), o # other, M!Take(o, other, M!Null),
         lost' = IF o \in Owners THEN lost \cup {ptr[o]} ELSE lost
  PROVE  StringInv'
<1>1. /\ ptr' = M!Set(M!Set(ptr, o, ptr[other]), other, M!Null)
      /\ len' = M!Set(len, o, len[other])
      /\ value' = M!Set(M!Set(value, o, value[other]), other, <<>>)
      /\ heap' = heap /\ other \in M!Alive /\ ptr[other] # M!Wild
  BY DEF M!Take, M!Usable
<1>2. /\ M!Alive' = M!Alive \cup {o}
      /\ ptr'[o] = ptr[other] /\ value'[o] = value[other] /\ len'[o] = len[other]
      /\ ptr'[other] = M!Null /\ value'[other] = <<>>
      /\ \A p \in M!Alive \ {o, other} :
            ptr'[p] = ptr[p] /\ value'[p] = value[p] /\ len'[p] = len[p]
  BY <1>1 DEF StringInv, StringTypes, M!Alive, M!Set
<1>3. Owners' = IF other \in Owners THEN (Owners \ {other}) \cup {o}
                                    ELSE Owners \ {o}
  BY <1>1, <1>2 DEF Owners
<1>4. StringTypes'
  <2>1. <<>> \in Seq(Char)
    BY EmptySeq
  <2>2. DOMAIN len' = M!Alive' /\ DOMAIN value' = M!Alive'
    BY <1>1, <1>2 DEF StringInv, StringTypes, M!Alive, M!Set
  <2>3. \A p \in M!Alive' : value'[p] \in Seq(Char)
    <3>1. value[other] \in Seq(Char)
      BY <1>1, Ownership
    <3>2. \A p \in M!Alive \ {o, other} : value'[p] \in Seq(Char)
      BY <1>2, Ownership
    <3> QED BY <1>1, <1>2, <2>1, <3>1, <3>2
  <2>4. \A p \in M!Alive' : ptr'[p] \in 1 .. MaxBuffers \cup {M!Null, M!Wild}
    BY <1>1, <1>2 DEF StringInv, StringTypes
  <2> QED BY <1>1, <2>2, <2>3, <2>4 DEF StringInv, StringTypes
<1>5. /\ \A p \in M!Alive' \ Owners' : value'[p] = <<>>
      /\ \A p \in Owners' : /\ ptr'[p] \in DOMAIN heap' /\ heap'[ptr'[p]] = value'[p]
                            /\ Len(value'[p]) = len'[p]
  BY <1>1, <1>2, <1>3, Ownership
<1>6. \A p, q \in Owners' : ptr'[p] = ptr'[q] => p = q
  BY <1>2, <1>3, Ownership
<1>7. \A b \in DOMAIN heap' : b \in lost' \/ \E p \in Owners' : ptr'[p] = b
  BY <1>1, <1>2, <1>3, Ownership
<1>8. \A b \in lost' : b \in DOMAIN heap' /\ \A p \in Owners' : ptr'[p] # b
  BY <1>1, <1>2, <1>3, Ownership
<1> QED BY <1>4, <1>5, <1>6, <1>7, <1>8 DEF StringInv, Owned

\* ~MyString: the buffer goes with its owner.
LEMMA DestroyStep ==
  ASSUME StringInv, NEW o, M!Destroy(o)
  PROVE  StringInv'
<1>1. /\ ptr' = M!Without(ptr, o) /\ len' = M!Without(len, o)
      /\ value' = M!Without(value, o) /\ heap' = M!Freed(o) /\ lost' = lost
      /\ M!Usable(o)
  BY DEF M!Destroy
<1>2. /\ M!Alive' = M!Alive \ {o} /\ Owners' = Owners \ {o}
      /\ \A p \in M!Alive \ {o} : ptr'[p] = ptr[p] /\ value'[p] = value[p] /\ len'[p] = len[p]
  BY <1>1 DEF Owners, StringInv, StringTypes, M!Alive, M!Without
<1>3. StringTypes'
  <2>1. DOMAIN heap' \subseteq DOMAIN heap
    BY <1>1, FreedHeap
  <2> QED BY <1>1, <1>2, <2>1 DEF StringInv, StringTypes, M!Alive, M!Without
<1>4. Owned'
  <2>1. Owners \subseteq M!Alive
    BY DEF Owners
  <2> QED BY <1>1, <1>2, <2>1, FreedHeap, Ownership DEF Owned
<1> QED BY <1>3, <1>4 DEF StringInv

\* An object of jichu14.cpp keeps its text, and its buffer to itself, through every
\* order of constructions, copies, moves, assignments and destructions, of any
\* number of objects: only what a move assignment forgets is lost, and nothing
\* is freed twice or read after it was freed.
THEOREM BuffersHaveOneOwnerHolds == M!Spec => []BuffersHaveOneOwner
<1>1. M!Init => StringInv
  BY DEF M!Init, StringInv, StringTypes, Owned, Owners, M!Alive
<1>2. StringInv /\ [M!Next]_(M!vars) => StringInv'
  <2> SUFFICES ASSUME StringInv, [M!Next]_(M!vars) PROVE StringInv'
    OBVIOUS
  <2>1. ASSUME NEW o \in Object, NEW other \in Object \ {o},
               M!MoveConstruct(o, other) \/ M!MoveAssign(o, other)
        PROVE  StringInv'
    <3>1. /\ M!Usable(other) /\ o # other /\ M!Take(o, other, M!Null)
          /\ lost' = IF o \in Owners THEN lost \cup {ptr[o]} ELSE lost
      BY <2>1 DEF M!MoveConstruct, M!MoveAssign, M!New, Owners
    <3> QED BY <3>1, TakeStep
  <2>2. CASE UNCHANGED M!vars
    BY <2>2 DEF M!vars, M!Alive, StringInv, StringTypes, Owned, Owners
  <2> QED BY <2>1, <2>2, ConstructStep, CopyingStep, DestroyStep DEF M!Next
<1>3. StringInv => BuffersHaveOneOwner
  BY OwnedIsOneOwner DEF StringInv
<1> QED BY <1>1, <1>2, <1>3, PTL DEF M!Spec

-----------------------------------------------------------------------------
(* Sockets: how many bytes of a connection have gone where.                *)

Number == [1 .. Width -> Int \X Int]

SocketTypes ==
    /\ child \in [Client -> {"none", "writes", "closed"}]
    /\ client \in [Client -> {"connects", "reads", "exited"}]
    /\ i \in [Client -> 0 .. Count]
    /\ reads \in [Client -> 0 .. Count]
    /\ taken \in [Client -> Nat]
    /\ received \in [Client -> Number]
    /\ printed \in [Client -> Seq(Number)]

Whole(c) ==
    /\ taken[c] = reads[c] * Width
    /\ printed[c] = [k \in 1 .. reads[c] |-> N!Bytes(k - 1)]
    /\ client[c] = "exited" => reads[c] \in {0, Count}

StreamAt(c) ==
    /\ child[c] = "none" => i[c] = 0
    /\ child[c] = "writes" => client[c] # "connects"
    /\ child[c] = "closed" => i[c] \in {0, Count} \/ client[c] = "exited"
    /\ client[c] = "connects" => i[c] = 0 /\ reads[c] = 0 /\ taken[c] = 0
    /\ taken[c] <= i[c] * Width
    /\ client[c] = "exited" /\ reads[c] < Count => taken[c] = i[c] * Width
    /\ c \notin short => Whole(c)

SocketInv == SocketTypes /\ \A c \in Client : StreamAt(c)

\* The bytes of number r stand one after the other.
LEMMA ByteOfNumber ==
  ASSUME NEW r \in Nat, NEW k \in 1 .. Width
  PROVE  N!Byte(r * Width + k - 1) = <<r, k>>
<1> DEFINE a == r * Width + (k - 1)
<1>1. Width \in Nat /\ Width > 0 /\ k - 1 \in 0 .. Width - 1 /\ k \in Int
  BY ProgramsAssumption
<1>2. a \in Nat /\ a = Width * r + (k - 1)
  BY <1>1
<1>3. a \div Width = r
  BY <1>1, <1>2
<1>4. a % Width = k - 1
  BY <1>1, <1>2
<1> QED BY <1>1, <1>3, <1>4 DEF N!Byte

\* A product is known by its first factor.
LEMMA SameProduct ==
  ASSUME NEW r \in Nat, NEW s \in Nat, r * Width = s * Width
  PROVE  r = s
BY ProgramsAssumption

\* The other connections do not notice.
LEMMA OtherStreams ==
  ASSUME SocketInv, NEW d \in Client,
         child'[d] = child[d], client'[d] = client[d], i'[d] = i[d], reads'[d] = reads[d],
         taken'[d] = taken[d], printed'[d] = printed[d], d \in short' <=> d \in short
  PROVE  StreamAt(d)'
BY DEF SocketInv, StreamAt, Whole, N!Bytes

\* What the server and its children do to their connections
LEMMA ServerStreams ==
  ASSUME SocketInv, UNCHANGED <<client, reads, taken, received, printed, short>>,
         N!AcceptFails \/ \E c \in Client : N!Write(c) \/ \E forked \in BOOLEAN : N!Accept(c, forked)
  PROVE  SocketInv'
<1> USE DEF SocketInv
<1>1. ASSUME NEW c \in Client, NEW forked \in BOOLEAN, N!Accept(c, forked)
      PROVE  SocketInv'
  <2>1. /\ child' = [child EXCEPT ![c] = IF forked THEN "writes" ELSE "closed"]
        /\ i' = i /\ client[c] = "reads" /\ child[c] = "none"
    BY <1>1 DEF N!Accept
  <2>2. SocketTypes'
    BY <2>1 DEF SocketTypes, Number
  <2>3. StreamAt(c)'
    BY <2>1 DEF StreamAt, SocketTypes, Whole, N!Bytes
  <2>4. ASSUME NEW d \in Client, d # c PROVE StreamAt(d)'
    BY <2>1, <2>4, OtherStreams DEF SocketTypes
  <2> QED BY <2>2, <2>3, <2>4
<1>2. ASSUME NEW c \in Client, N!Write(c)
      PROVE  SocketInv'
  <2>1. CASE i[c] = Count \/ client[c] = "exited"
    <3>1. child[c] = "writes" /\ child' = [child EXCEPT ![c] = "closed"] /\ i' = i
      BY <1>2, <2>1 DEF N!Write, N!WriteUpTo
    <3>2. SocketTypes'
      BY <3>1 DEF SocketTypes, Number
    <3>3. StreamAt(c)'
      BY <2>1, <3>1 DEF StreamAt, SocketTypes, Whole, N!Bytes
    <3>4. ASSUME NEW d \in Client, d # c PROVE StreamAt(d)'
      BY <3>1, <3>4, OtherStreams DEF SocketTypes
    <3> QED BY <3>2, <3>3, <3>4
  <2>2. CASE i[c] # Count /\ client[c] # "exited"
    <3>1. child[c] = "writes" /\ i' = [i EXCEPT ![c] = @ + 1] /\ child' = child
      BY <1>2, <2>2 DEF N!Write, N!WriteUpTo
    <3>2. i[c] + 1 \in 0 .. Count
      BY <2>2, ProgramsAssumption DEF SocketTypes
    <3>3. SocketTypes'
      BY <3>1, <3>2 DEF SocketTypes, Number
    <3>4. taken[c] <= (i[c] + 1) * Width
      BY ProgramsAssumption DEF SocketTypes, StreamAt
    <3>5. StreamAt(c)'
      BY <2>2, <3>1, <3>4 DEF StreamAt, SocketTypes, Whole, N!Bytes
    <3>6. ASSUME NEW d \in Client, d # c PROVE StreamAt(d)'
      BY <3>1, <3>6, OtherStreams DEF SocketTypes
    <3> QED BY <3>3, <3>5, <3>6
  <2> QED BY <2>1, <2>2
<1>3. CASE N!AcceptFails
  <2>1. child' = [c \in Client |-> IF child[c] = "none" THEN "closed" ELSE child[c]] /\ i' = i
    BY <1>3 DEF N!AcceptFails
  <2>2. SocketTypes'
    BY <2>1 DEF SocketTypes, Number
  <2>3. ASSUME NEW c \in Client, child[c] = "none" PROVE StreamAt(c)'
    BY <2>1, <2>3 DEF StreamAt, SocketTypes, Whole, N!Bytes
  <2>4. ASSUME NEW c \in Client, child[c] # "none" PROVE StreamAt(c)'
    BY <2>1, <2>4, OtherStreams
  <2> QED BY <2>2, <2>3, <2>4
<1> QED BY <1>1, <1>2, <1>3

\* connect, and the end of a client
LEMMA ClientComesAndGoes ==
  ASSUME SocketInv, NEW c \in Client, N!Connect(c) \/ N!Leave(c)
  PROVE  SocketInv'
<1> USE DEF SocketInv
<1>1. PICK state \in {"reads", "exited"} : client' = [client EXCEPT ![c] = state]
  BY DEF N!Connect, N!Leave
<1>2. UNCHANGED <<child, i, reads, taken, received, printed, short>>
  BY DEF N!Connect, N!Leave, N!ClientOnly
<1>3. SocketTypes'
  BY <1>1, <1>2 DEF SocketTypes, Number
<1>4. StreamAt(c)'
  <2>1. CASE N!Connect(c)
    BY <1>1, <1>2, <2>1, ProgramsAssumption DEF N!Connect, StreamAt, SocketTypes, Whole, N!Bytes
  <2>2. CASE N!Leave(c)
    <3>1. /\ client[c] = "reads" /\ client'[c] = "exited"
          /\ reads[c] = Count \/ (child[c] = "closed" /\ i[c] * Width - taken[c] = 0)
      BY <2>2 DEF N!Leave, N!Ready, SocketTypes
    <3>2. ASSUME c \notin short PROVE reads[c] \in {0, Count}
      <4>1. taken[c] = reads[c] * Width
        BY <3>2 DEF StreamAt, Whole
      <4>2. CASE i[c] * Width - taken[c] = 0 /\ child[c] = "closed"
        <5>1. reads[c] \in Nat /\ i[c] \in Nat
          BY ProgramsAssumption DEF SocketTypes
        <5>2. i[c] * Width = reads[c] * Width
          BY <4>1, <4>2, <5>1, ProgramsAssumption
        <5>3. reads[c] = i[c]
          BY <5>1, <5>2, SameProduct
        <5> QED BY <3>1, <4>2, <5>3 DEF StreamAt
      <4> QED BY <3>1, <4>2
    <3>3. ASSUME reads[c] < Count PROVE taken[c] = i[c] * Width
      BY <3>1, <3>3, ProgramsAssumption DEF SocketTypes
    <3> QED BY <1>2, <3>1, <3>2, <3>3 DEF StreamAt, Whole, N!Bytes
  <2> QED BY <2>1, <2>2
<1>5. ASSUME NEW d \in Client, d # c PROVE StreamAt(d)'
  BY <1>1, <1>2, <1>5, OtherStreams DEF SocketTypes
<1> QED BY <1>3, <1>4, <1>5

\* read: whole numbers leave the next one whole; a short read is remembered.
LEMMA ReadStep ==
  ASSUME SocketInv, NEW c \in Client, N!Read(c)
  PROVE  SocketInv'
<1> USE DEF SocketInv
<1>1. PICK n \in 1 .. Width :
         n <= N!Ready(c) /\ N!ReadBytes(c, n, [k \in 1 .. n |-> N!Byte(taken[c] + k - 1)])
  BY DEF N!Read
<1> DEFINE got  == [k \in 1 .. n |-> N!Byte(taken[c] + k - 1)]
           cell == [k \in 1 .. Width |-> IF k <= n THEN got[k] ELSE received[c][k]]
<1>2. /\ client[c] = "reads" /\ reads[c] < Count
      /\ received' = [received EXCEPT ![c] = cell]
      /\ printed' = [printed EXCEPT ![c] = Append(@, received'[c])]
      /\ taken' = [taken EXCEPT ![c] = @ + n]
      /\ reads' = [reads EXCEPT ![c] = @ + 1]
      /\ short' = IF n < Width THEN short \cup {c} ELSE short
      /\ UNCHANGED <<client, server, child, i>>
  BY <1>1 DEF N!ReadBytes, N!ClientOnly
<1>3. cell \in Number
  <2>1. \A k \in 1 .. n : N!Byte(taken[c] + k - 1) \in Int \X Int
    <3>1. \A m \in Int : m \div Width \in Int /\ (m % Width) + 1 \in Int
      BY ProgramsAssumption
    <3>2. \A k \in 1 .. n : taken[c] + k - 1 \in Int
      BY <1>1, ProgramsAssumption DEF SocketTypes
    <3> QED BY <3>1, <3>2 DEF N!Byte
  <2>2. \A k \in 1 .. Width : k <= n => k \in 1 .. n
    BY <1>1, ProgramsAssumption
  <2>3. \A k \in 1 .. Width : received[c][k] \in Int \X Int
    BY DEF SocketTypes, Number
  <2> QED BY <2>1, <2>2, <2>3 DEF Number
<1> HIDE DEF cell
<1>4. received'[c] = cell /\ printed'[c] = Append(printed[c], cell)
  BY <1>2 DEF SocketTypes
<1>5. Append(printed[c], cell) \in Seq(Number)
  BY <1>3 DEF SocketTypes
<1>6. SocketTypes'
  <2>1. reads[c] + 1 \in 0 .. Count /\ taken[c] + n \in Nat
    BY <1>2, ProgramsAssumption DEF SocketTypes
  <2> QED BY <1>2, <1>3, <1>4, <1>5, <2>1 DEF SocketTypes
<1>7. taken[c] + n <= i[c] * Width
  BY <1>1, ProgramsAssumption DEF N!Ready, SocketTypes
<1>8. ASSUME c \notin short' PROVE Whole(c)'
  <2>1. n = Width /\ c \notin short
    BY <1>2, <1>8, ProgramsAssumption
  <2>2. taken[c] = reads[c] * Width /\ reads[c] \in Nat /\ taken[c] \in Nat
    BY <2>1 DEF StreamAt, Whole, SocketTypes
  <2>3. taken'[c] = reads'[c] * Width
    <3>1. taken'[c] = taken[c] + n /\ reads'[c] = reads[c] + 1
      BY <1>2 DEF SocketTypes
    <3> QED BY <2>1, <2>2, <3>1, ProgramsAssumption
  <2>4. cell = N!Bytes(reads[c])
    <3>1. \A k \in 1 .. Width : N!Byte(taken[c] + k - 1) = <<reads[c], k>>
      BY <2>2, ByteOfNumber
    <3> QED BY <2>1, <3>1, ProgramsAssumption DEF cell, N!Bytes
  <2>5. printed[c] = [k \in 1 .. reads[c] |-> N!Bytes(k - 1)]
    BY <2>1 DEF StreamAt, Whole
  <2>6. Append(printed[c], cell) = [k \in 1 .. reads[c] + 1 |-> N!Bytes(k - 1)]
    <3>1. printed[c] \in Seq(Number) /\ Len(printed[c]) = reads[c]
      BY <2>2, <2>5 DEF SocketTypes
    <3>2. \A k \in 1 .. reads[c] : printed[c][k] = N!Bytes(k - 1)
      BY <2>5
    <3>3. (reads[c] + 1) - 1 = reads[c]
      BY <2>2
    <3> QED BY <1>3, <2>2, <2>4, <3>1, <3>2, <3>3
  <2> QED BY <1>2, <1>4, <2>3, <2>6 DEF Whole, SocketTypes, N!Bytes
<1>9. StreamAt(c)'
  BY <1>2, <1>7, <1>8 DEF StreamAt, SocketTypes
<1>10. ASSUME NEW d \in Client, d # c PROVE StreamAt(d)'
  BY <1>2, <1>10, OtherStreams DEF SocketTypes
<1> QED BY <1>6, <1>9, <1>10

\* A client of jichu13.cpp prints 0, 1, 2 and so on, each once, until a read comes
\* back short, whatever the kernel delivers when; that holds for any number of
\* clients, of numbers and of bytes in a number.
THEOREM NumbersAreWholeHolds == N!Spec => []NumbersAreWhole
<1>1. N!Init => SocketInv
  <2> SUFFICES ASSUME N!Init PROVE SocketInv
    OBVIOUS
  <2>1. \A S : <<>> \in Seq(S)
    BY EmptySeq
  <2>2. N!Bytes(0) \in Number
    BY ProgramsAssumption DEF N!Bytes, Number
  <2>3. SocketTypes
    BY <2>1, <2>2, ProgramsAssumption DEF N!Init, SocketTypes
  <2>4. <<>> = [k \in 1 .. 0 |-> N!Bytes(k - 1)]
    OBVIOUS
  <2> QED BY <2>3, <2>4, ProgramsAssumption DEF N!Init, SocketInv, StreamAt, Whole
<1>2. SocketInv /\ [N!Next]_(N!vars) => SocketInv'
  <2> SUFFICES ASSUME SocketInv, [N!Next]_(N!vars) PROVE SocketInv'
    OBVIOUS
  <2>1. CASE UNCHANGED N!vars
    BY <2>1, OtherStreams DEF N!vars, SocketInv, SocketTypes, Number
  <2>2. CASE N!AcceptFails \/ \E c \in Client : N!Write(c) \/ \E forked \in BOOLEAN : N!Accept(c, forked)
    BY <2>2, ServerStreams DEF N!AcceptFails, N!Write, N!WriteUpTo, N!Accept, N!ServerOnly
  <2> QED BY <2>1, <2>2, ClientComesAndGoes, ReadStep DEF N!Next
<1>3. SocketInv => NumbersAreWhole
  BY DEF SocketInv, StreamAt, Whole, NumbersAreWhole, N!NumbersAreWhole
<1> QED BY <1>1, <1>2, <1>3, PTL DEF N!Spec

-----------------------------------------------------------------------------
(* Induction on the natural numbers, from their well-foundedness, and the  *)
(* recursive functions that it gives.                                      *)

\* Every set of natural numbers with an element has a least one.
LEMMA NatIsWellFounded ==
  ASSUME NEW T \in SUBSET Nat, T # {}
  PROVE  \E x \in T : \A y \in T : x <= y
<1> DEFINE R == OpToRel(<, Nat)
<1>1. IsWellFoundedOn(R, Nat)
  BY NatLessThanWellFounded
<1>2. \A x, y \in Nat : <<x, y>> \in R <=> x < y
  BY DEF OpToRel
<1> HIDE DEF R
<1>3. PICK x \in T : \A y \in T : ~ (<<y, x>> \in R)
  BY <1>1, WFMin
<1>4. ASSUME NEW y \in T PROVE x <= y
  <2>1. x \in Nat /\ y \in Nat /\ ~ (<<y, x>> \in R)
    BY <1>3
  <2> QED BY <1>2, <2>1
<1> QED BY <1>4

\* A set of natural numbers with 0, and with n + 1 for each n, has them all.
LEMMA Induct ==
  ASSUME NEW P \in SUBSET Nat, 0 \in P, \A n \in P : n + 1 \in P
  PROVE  P = Nat
<1> SUFFICES ASSUME Nat \ P # {} PROVE FALSE
  OBVIOUS
<1>1. PICK x \in Nat \ P : \A y \in Nat \ P : x <= y
  BY NatIsWellFounded, Nat \ P \in SUBSET Nat
<1>2. x # 0 /\ x - 1 \in Nat
  BY <1>1
<1>3. x - 1 \in P
  BY <1>1, <1>2
<1> QED BY <1>1, <1>2, <1>3

\* h begins with b and goes on with g as far as n.
GoesOn(h, b, g, n) == h[0] = b /\ \A k \in 1 .. n : h[k] = g[<<h[k - 1], k>>]

\* As far as any n there is a function that goes on.
LEMMA RecursionUpTo ==
  ASSUME NEW V, NEW b \in V, NEW g \in [V \X Nat -> V], NEW n \in Nat
  PROVE  \E h \in [0 .. n -> V] : GoesOn(h, b, g, n)
<1> DEFINE P == {m \in Nat : \E h \in [0 .. m -> V] : GoesOn(h, b, g, m)}
<1>1. 0 \in P
  <2> DEFINE z == [k \in 0 .. 0 |-> b]
  <2>1. z \in [0 .. 0 -> V] /\ z[0] = b /\ \A k \in 1 .. 0 : FALSE
    OBVIOUS
  <2>2. \A k \in 1 .. 0 : z[k] = g[<<z[k - 1], k>>]
    BY <2>1
  <2> HIDE DEF z
  <2> QED BY <2>1, <2>2 DEF GoesOn
<1>2. ASSUME NEW m \in P PROVE m + 1 \in P
  <2>1. m \in Nat
    OBVIOUS
  <2>2. PICK h \in [0 .. m -> V] : h[0] = b /\ \A k \in 1 .. m : h[k] = g[<<h[k - 1], k>>]
    BY DEF GoesOn
  <2> DEFINE h2 == [k \in 0 .. m + 1 |-> IF k = m + 1 THEN g[<<h[m], m + 1>>] ELSE h[k]]
  <2>3. g[<<h[m], m + 1>>] \in V
    BY <2>1
  <2>4. h2 \in [0 .. m + 1 -> V]
    BY <2>1, <2>3
  <2>5. h2[0] = b
    BY <2>1, <2>2
  <2>6. ASSUME NEW k \in 1 .. m + 1 PROVE h2[k] = g[<<h2[k - 1], k>>]
    <3>1. k - 1 \in 0 .. m /\ k \in 0 .. m + 1
      BY <2>1
    <3>2. h2[k - 1] = h[k - 1]
      BY <2>1, <3>1
    <3>3. CASE k = m + 1
      <4>1. h2[k] = g[<<h[m], m + 1>>] /\ k - 1 = m
        BY <2>1, <3>1, <3>3
      <4> QED BY <3>2, <3>3, <4>1
    <3>4. CASE k # m + 1
      <4>1. k \in 1 .. m
        BY <2>1, <3>4
      <4>2. h2[k] = h[k]
        BY <3>1, <3>4
      <4> QED BY <2>2, <3>2, <4>1, <4>2
    <3> QED BY <3>3, <3>4
  <2> HIDE DEF h2
  <2> QED BY <2>1, <2>4, <2>5, <2>6 DEF GoesOn
<1>3. P = Nat
  <2>1. P \in SUBSET Nat
    OBVIOUS
  <2> HIDE DEF P
  <2> QED BY <1>1, <1>2, <2>1, Induct
<1> QED BY <1>3

\* Two functions that begin alike and go on alike are the same as far as both go.
LEMMA RecursionIsUnique ==
  ASSUME NEW b, NEW g, NEW m \in Nat, NEW n \in Nat, n <= m,
         NEW h, NEW f, GoesOn(h, b, g, n), GoesOn(f, b, g, m)
  PROVE  \A k \in 0 .. n : h[k] = f[k]
<1> DEFINE P == {k \in Nat : k <= n => h[k] = f[k]}
<1>1. 0 \in P
  BY DEF GoesOn
<1>2. ASSUME NEW k \in P PROVE k + 1 \in P
  <2>1. CASE k + 1 <= n
    <3>1. k + 1 \in 1 .. n /\ k + 1 \in 1 .. m /\ (k + 1) - 1 = k /\ h[k] = f[k]
      BY <2>1
    <3>2. h[k + 1] = g[<<h[k], k + 1>>] /\ f[k + 1] = g[<<f[k], k + 1>>]
      BY <3>1 DEF GoesOn
    <3> QED BY <3>1, <3>2
  <2>2. CASE ~ (k + 1 <= n)
    BY <2>2
  <2> QED BY <2>1, <2>2
<1>3. P = Nat
  <2>1. P \in SUBSET Nat
    OBVIOUS
  <2> HIDE DEF P
  <2> QED BY <1>1, <1>2, <2>1, Induct
<1> QED BY <1>3

\* There is a function that goes on for ever.
LEMMA RecursionExists ==
  ASSUME NEW V, NEW b \in V, NEW g \in [V \X Nat -> V]
  PROVE  \E f \in [Nat -> V] : \A n \in Nat : GoesOn(f, b, g, n)
<1> DEFINE h(n) == CHOOSE x : x \in [0 .. n -> V] /\ GoesOn(x, b, g, n)
           f == [n \in Nat |-> h(n)[n]]
<1>1. ASSUME NEW n \in Nat PROVE h(n) \in [0 .. n -> V] /\ GoesOn(h(n), b, g, n)
  <2>1. PICK x \in [0 .. n -> V] : GoesOn(x, b, g, n)
    BY RecursionUpTo
  <2> QED BY <2>1
<1> HIDE DEF h
<1>2. f \in [Nat -> V]
  BY <1>1
<1>3. f[0] = b
  BY <1>1 DEF GoesOn
<1>4. ASSUME NEW k \in Nat \ {0} PROVE f[k] = g[<<f[k - 1], k>>]
  <2>1. k - 1 \in Nat /\ k - 1 <= k /\ k \in Nat /\ k - 1 \in 0 .. k - 1 /\ k \in 1 .. k
    OBVIOUS
  <2>2. GoesOn(h(k - 1), b, g, k - 1) /\ GoesOn(h(k), b, g, k)
    BY <1>1, <2>1
  <2>3. \A j \in 0 .. k - 1 : h(k - 1)[j] = h(k)[j]
    BY ONLY <2>1, <2>2, RecursionIsUnique
  <2>4. h(k - 1)[k - 1] = h(k)[k - 1]
    BY <2>1, <2>3
  <2>5. h(k)[k] = g[<<h(k)[k - 1], k>>]
    BY <2>1, <2>2 DEF GoesOn
  <2>6. f[k] = h(k)[k] /\ f[k - 1] = h(k - 1)[k - 1]
    BY <2>1
  <2> QED BY <2>4, <2>5, <2>6
<1> HIDE DEF f
<1>5. ASSUME NEW n \in Nat PROVE GoesOn(f, b, g, n)
  BY <1>3, <1>4 DEF GoesOn
<1> QED BY <1>2, <1>5

\* The powers of two
LEMMA Powers ==
  /\ Pow2 \in [Nat -> Nat \ {0}]
  /\ Pow2[0] = 1 /\ \A n \in Nat : Pow2[n + 1] = 2 * Pow2[n]
<1> DEFINE V == Nat \ {0}
           g == [w \in V \X Nat |-> 2 * w[1]]
<1>1. g \in [V \X Nat -> V] /\ 1 \in V
  OBVIOUS
<1>2. \A x \in V, n \in Nat : g[<<x, n>>] = 2 * x
  OBVIOUS
<1> HIDE DEF g
<1>3. PICK f \in [Nat -> V] : \A n \in Nat : GoesOn(f, 1, g, n)
  <2> HIDE DEF V
  <2> QED BY ONLY <1>1, RecursionExists
<1>4. f[0] = 1
  BY <1>3 DEF GoesOn
<1>5. ASSUME NEW n \in Nat \ {0} PROVE f[n] = 2 * f[n - 1]
  <2>1. f[n] = g[<<f[n - 1], n>>]
    <3>1. GoesOn(f, 1, g, n) /\ n \in 1 .. n
      BY <1>3
    <3> QED BY <3>1 DEF GoesOn
  <2>2. n \in Nat /\ n - 1 \in Nat /\ f[n - 1] \in V
    BY <1>3
  <2> QED BY <1>2, <2>1, <2>2
<1>6. f = [n \in Nat |-> IF n = 0 THEN 1 ELSE 2 * f[n - 1]]
  <2>1. \A n \in Nat : f[n] = IF n = 0 THEN 1 ELSE 2 * f[n - 1]
    BY <1>4, <1>5
  <2> QED BY <1>3, <2>1
<1>7. Pow2 = [n \in Nat |-> IF n = 0 THEN 1 ELSE 2 * Pow2[n - 1]]
  BY <1>6 DEF Pow2
<1>8. Pow2[0] = 1 /\ \A n \in Nat : Pow2[n + 1] = 2 * Pow2[n]
  <2>1. \A n \in Nat : Pow2[n] = IF n = 0 THEN 1 ELSE 2 * Pow2[n - 1]
    BY <1>7
  <2>2. ASSUME NEW n \in Nat PROVE Pow2[n + 1] = 2 * Pow2[n]
    <3>1. n + 1 \in Nat /\ n + 1 # 0 /\ (n + 1) - 1 = n
      OBVIOUS
    <3>2. Pow2[n + 1] = 2 * Pow2[(n + 1) - 1]
      BY <2>1, <3>1
    <3> QED BY <3>1, <3>2
  <2> QED BY <2>1, <2>2
<1>9. Pow2 \in [Nat -> V]
  <2> DEFINE P == {n \in Nat : Pow2[n] \in V}
  <2>1. P = Nat
    <3>1. P \in SUBSET Nat /\ 0 \in P
      BY <1>8
    <3>2. \A n \in P : n + 1 \in P
      BY <1>8
    <3> HIDE DEF P
    <3> QED BY <3>1, <3>2, Induct
  <2>2. \A n \in Nat : Pow2[n] \in V
    BY <2>1
  <2>3. DOMAIN Pow2 = Nat /\ Pow2 = [n \in Nat |-> Pow2[n]]
    BY <1>7
  <2> QED BY <2>2, <2>3
<1> QED BY <1>8, <1>9

\* A multiple divides as it should.
LEMMA Quotient ==
  ASSUME NEW a \in Nat, NEW b \in Nat \ {0}
  PROVE  (a * b) \div b = a
OBVIOUS

\* What SumOf adds up, step by step
LEMMA SumSteps ==
  ASSUME NEW n \in Nat, NEW f \in [1 .. n -> Int]
  PROVE  \E u \in [0 .. n -> Int] :
            u[0] = 0 /\ (\A k \in 1 .. n : u[k] = u[k - 1] + f[k]) /\ SumOf(f, n) = u[n]
<1> DEFINE g == [w \in Int \X Nat |-> IF w[2] \in 1 .. n THEN w[1] + f[w[2]] ELSE w[1]]
           P(u) == u = [k \in 0 .. n |-> IF k = 0 THEN 0 ELSE u[k - 1] + f[k]]
           up == CHOOSE u : P(u)
<1>1. g \in [Int \X Nat -> Int] /\ 0 \in Int
  OBVIOUS
<1>2. \A x \in Int : \A k \in 1 .. n : g[<<x, k>>] = x + f[k]
  <2> SUFFICES ASSUME NEW x \in Int, NEW k \in 1 .. n PROVE g[<<x, k>>] = x + f[k]
    OBVIOUS
  <2> QED OBVIOUS
<1> HIDE DEF g
<1>3. PICK h \in [0 .. n -> Int] : GoesOn(h, 0, g, n)
  BY ONLY <1>1, RecursionUpTo
<1>4. ASSUME NEW k \in 1 .. n PROVE h[k] = h[k - 1] + f[k]
  <2>1. h[k] = g[<<h[k - 1], k>>]
    BY <1>3 DEF GoesOn
  <2>2. h[k - 1] \in Int
    BY <1>3
  <2> QED BY <1>2, <2>1, <2>2
<1>5. P(h)
  <2>1. \A k \in 0 .. n : h[k] = IF k = 0 THEN 0 ELSE h[k - 1] + f[k]
    BY <1>3, <1>4 DEF GoesOn
  <2> QED BY <1>3, <2>1
<1>6. P(up)
  <2> HIDE DEF P
  <2> QED BY <1>5
<1>7. SumOf(f, n) = up[n]
  BY DEF SumOf
<1> HIDE DEF up
<1>8. up[0] = 0 /\ \A k \in 1 .. n : up[k] = up[k - 1] + f[k]
  <2>1. \A k \in 0 .. n : up[k] = IF k = 0 THEN 0 ELSE up[k - 1] + f[k]
    BY <1>6
  <2> QED BY <2>1
<1>9. \A k \in 0 .. n : up[k] \in Int
  <2> DEFINE Q == {k \in Nat : k <= n => up[k] \in Int}
  <2>1. 0 \in Q
    BY <1>8
  <2>2. ASSUME NEW k \in Q PROVE k + 1 \in Q
    <3>1. CASE k + 1 <= n
      <4>1. k + 1 \in 1 .. n /\ (k + 1) - 1 = k /\ up[k] \in Int
        BY <3>1
      <4>2. up[k + 1] = up[k] + f[k + 1] /\ f[k + 1] \in Int
        BY <1>8, <4>1
      <4> QED BY <4>1, <4>2
    <3>2. CASE ~ (k + 1 <= n)
      BY <3>2
    <3> QED BY <3>1, <3>2
  <2>3. Q = Nat
    <3>1. Q \in SUBSET Nat
      OBVIOUS
    <3> HIDE DEF Q
    <3> QED BY <2>1, <2>2, <3>1, Induct
  <2>4. ASSUME NEW k \in 0 .. n PROVE up[k] \in Int
    <3>1. k \in Q /\ k <= n
      BY <2>3
    <3> QED BY <3>1
  <2> QED BY <2>4
<1>10. up \in [0 .. n -> Int]
  BY <1>6, <1>9
<1> QED BY <1>7, <1>8, <1>10

\* A sum of nothing but zeroes
LEMMA SumOfZeroes ==
  ASSUME NEW n \in Nat, NEW f \in [1 .. n -> Int], \A k \in 1 .. n : f[k] = 0
  PROVE  SumOf(f, n) = 0
<1>1. PICK u \in [0 .. n -> Int] :
         u[0] = 0 /\ (\A k \in 1 .. n : u[k] = u[k - 1] + f[k]) /\ SumOf(f, n) = u[n]
  BY SumSteps
<1> DEFINE P == {k \in Nat : k <= n => u[k] = 0}
<1>2. 0 \in P
  BY <1>1
<1>3. ASSUME NEW k \in P PROVE k + 1 \in P
  <2>1. CASE k + 1 <= n
    <3>1. k + 1 \in 1 .. n /\ (k + 1) - 1 = k /\ u[k] = 0
      BY <2>1
    <3>2. u[k + 1] = u[k] + f[k + 1] /\ f[k + 1] = 0
      BY <1>1, <3>1
    <3> QED BY <3>1, <3>2
  <2>2. CASE ~ (k + 1 <= n)
    BY <2>2
  <2> QED BY <2>1, <2>2
<1>4. P = Nat
  <2>1. P \in SUBSET Nat
    OBVIOUS
  <2> HIDE DEF P
  <2> QED BY <1>2, <1>3, <2>1, Induct
<1> QED BY <1>1, <1>4

\* One term that grows by d makes the sum grow by d.
LEMMA SumGrows ==
  ASSUME NEW n \in Nat, NEW f \in [1 .. n -> Int], NEW g \in [1 .. n -> Int],
         NEW m \in 1 .. n, NEW d \in Int, g[m] = f[m] + d,
         \A k \in 1 .. n : k # m => g[k] = f[k]
  PROVE  SumOf(g, n) = SumOf(f, n) + d
<1>1. PICK u \in [0 .. n -> Int] :
         u[0] = 0 /\ (\A k \in 1 .. n : u[k] = u[k - 1] + f[k]) /\ SumOf(f, n) = u[n]
  BY SumSteps
<1>2. PICK v \in [0 .. n -> Int] :
         v[0] = 0 /\ (\A k \in 1 .. n : v[k] = v[k - 1] + g[k]) /\ SumOf(g, n) = v[n]
  BY SumSteps
<1>0. m \in Int /\ m <= n /\ 1 <= m /\ n \in Nat
  OBVIOUS
<1> DEFINE P == {k \in Nat : k <= n => v[k] = IF k < m THEN u[k] ELSE u[k] + d}
<1>3. 0 \in P
  BY <1>1, <1>2
<1>4. ASSUME NEW k \in P PROVE k + 1 \in P
  <2>1. CASE k + 1 <= n
    <3>1. /\ k + 1 \in 1 .. n /\ (k + 1) - 1 = k /\ k \in 0 .. n /\ k \in Int /\ m \in Int
          /\ v[k] = IF k < m THEN u[k] ELSE u[k] + d
      BY <2>1
    <3>2. u[k + 1] = u[k] + f[k + 1] /\ v[k + 1] = v[k] + g[k + 1]
      BY <1>1, <1>2, <3>1
    <3>3. u[k] \in Int /\ f[k + 1] \in Int
      BY <3>1
    <3>4. CASE k + 1 = m
      <4>1. g[k + 1] = f[k + 1] + d
        BY <3>4
      <4>3. k < m /\ ~ (k + 1 < m)
        BY <1>0, <3>1, <3>4
      <4>2. v[k + 1] = u[k + 1] + d
        BY <3>1, <3>2, <3>3, <4>1, <4>3
      <4> QED BY <4>2, <4>3
    <3>5. CASE k + 1 # m
      <4>3. k < m <=> k + 1 < m
        BY ONLY <1>0, <3>1, <3>5
      <4>4. g[k + 1] = f[k + 1]
        BY <3>1, <3>5
      <4>1. g[k + 1] = f[k + 1] /\ (k < m <=> k + 1 < m)
        BY <4>3, <4>4
      <4>2. v[k + 1] = IF k + 1 < m THEN u[k + 1] ELSE u[k + 1] + d
        <5>1. CASE k < m
          BY <3>1, <3>2, <3>3, <4>1, <5>1
        <5>2. CASE ~ (k < m)
          BY <3>1, <3>2, <3>3, <4>1, <5>2
        <5> QED BY <5>1, <5>2
      <4> QED BY <4>2
    <3> QED BY <3>4, <3>5
  <2>2. CASE ~ (k + 1 <= n)
    BY <2>2
  <2> QED BY <2>1, <2>2
<1>5. P = Nat
  <2>1. P \in SUBSET Nat
    OBVIOUS
  <2> HIDE DEF P
  <2> QED BY <1>3, <1>4, <2>1, Induct
<1>6. v[n] = u[n] + d
  <2>1. n \in P /\ ~ (n < m)
    <3>1. ~ (n < m)
      BY <1>0
    <3>2. n \in P
      BY <1>0, <1>5
    <3> QED BY <3>1, <3>2
  <2> QED BY <2>1
<1> QED BY <1>1, <1>2, <1>6

\* The slices that x and a multiple of the slice need
LEMMA Ceiling ==
  ASSUME NEW s \in Nat \ {0}, NEW r \in Nat, NEW x \in 1 .. s
  PROVE  (s * r + x + s - 1) \div s = r + 1
<1>1. s * (r + 1) = s * r + s /\ s * r \in Nat
  OBVIOUS
<1> DEFINE y == x - 1
           z == s * (r + 1) + y
<1>2. y \in 0 .. s - 1 /\ z \in Nat /\ s * r + x + s - 1 = z
  BY <1>1
<1>3. z \div s = r + 1
  BY <1>2
<1> QED BY <1>2, <1>3

-----------------------------------------------------------------------------
(* The schedulers: lists in order.                                         *)

NoDup(s) == \A j, k \in 1 .. Len(s) : s[j] = s[k] => j = k

TotalOrder(S, before) ==
    /\ \A x \in S : <<x, x>> \notin before
    /\ \A x, y, z \in S : <<x, y>> \in before /\ <<y, z>> \in before => <<x, z>> \in before
    /\ \A x, y \in S : x # y => <<x, y>> \in before \/ <<y, x>> \in before

\* InOrder lists a finite set, each element once, in the order it is given: an
\* element is at the place that the number of those before it says.
LEMMA InOrderIsList ==
  ASSUME NEW S, IsFiniteSet(S), NEW before, TotalOrder(S, before)
  PROVE  LET s == InOrder(S, before)
         IN  /\ s \in Seq(S) /\ Len(s) = Cardinality(S) /\ NoDup(s)
             /\ \A x \in S : \E k \in 1 .. Len(s) : s[k] = x
             /\ \A j, k \in 1 .. Len(s) : j < k => <<s[j], s[k]>> \in before
<1> DEFINE n == Cardinality(S)
           Below(x) == {y \in S : <<y, x>> \in before}
           place == [x \in S |-> Cardinality(Below(x)) + 1]
           s == InOrder(S, before)
<1>1. n \in Nat /\ IsFiniteSet(1 .. n) /\ Cardinality(1 .. n) = n
  BY FS_CardinalityType, FS_Interval
<1>2. \A x \in S : IsFiniteSet(Below(x)) /\ Cardinality(Below(x)) \in 0 .. n - 1
  <2> SUFFICES ASSUME NEW x \in S
               PROVE  IsFiniteSet(Below(x)) /\ Cardinality(Below(x)) \in 0 .. n - 1
    OBVIOUS
  <2>1. /\ IsFiniteSet(Below(x)) /\ Cardinality(Below(x)) <= n
        /\ n = Cardinality(Below(x)) => S = Below(x)
    BY FS_Subset, Below(x) \in SUBSET S
  <2>2. Cardinality(Below(x)) \in Nat
    BY <2>1, FS_CardinalityType
  <2>3. x \notin Below(x)
    BY DEF TotalOrder
  <2> HIDE DEF Below
  <2> QED BY <1>1, <2>1, <2>2, <2>3
<1>3. place \in [S -> 1 .. n] /\ \A x \in S : Cardinality(Below(x)) = place[x] - 1
  <2> HIDE DEF Below
  <2> QED BY <1>1, <1>2
<1>4. \A x, y \in S : <<x, y>> \in before => place[x] < place[y]
  <2> SUFFICES ASSUME NEW x \in S, NEW y \in S, <<x, y>> \in before
               PROVE  place[x] < place[y]
    OBVIOUS
  <2>1. Below(x) \in SUBSET Below(y)
    BY DEF TotalOrder
  <2>2. x \in Below(y) /\ x \notin Below(x)
    BY DEF TotalOrder
  <2>3. /\ Cardinality(Below(x)) <= Cardinality(Below(y))
        /\ Cardinality(Below(y)) = Cardinality(Below(x)) => Below(y) = Below(x)
    BY <1>2, <2>1, FS_Subset
  <2> HIDE DEF Below, place
  <2> QED BY <1>1, <1>3, <2>2, <2>3
<1>5. s = [k \in 1 .. n |-> CHOOSE x \in S : Cardinality(Below(x)) = k - 1]
  BY DEF InOrder
<1> HIDE DEF Below, place, s, n
<1>6. \A x, y \in S : place[x] = place[y] => x = y
  <2> SUFFICES ASSUME NEW x \in S, NEW y \in S, x # y PROVE place[x] # place[y]
    OBVIOUS
  <2>1. <<x, y>> \in before \/ <<y, x>> \in before
    BY DEF TotalOrder
  <2> QED BY <1>1, <1>3, <1>4, <2>1
<1>7. place \in Injection(S, 1 .. n)
  BY <1>3, <1>6 DEF Injection, IsInjective
<1>8. place \in Surjection(S, 1 .. n)
  BY <1>1, <1>7, FS_Injection DEF n
<1>9. \A k \in 1 .. n : s[k] \in S /\ place[s[k]] = k
  <2> SUFFICES ASSUME NEW k \in 1 .. n PROVE s[k] \in S /\ place[s[k]] = k
    OBVIOUS
  <2>1. PICK x \in S : place[x] = k
    BY <1>8 DEF Surjection
  <2>2. Cardinality(Below(x)) = k - 1
    BY <1>3, <2>1
  <2>3. s[k] \in S /\ Cardinality(Below(s[k])) = k - 1
    BY <1>5, <2>2
  <2>4. place[s[k]] \in 1 .. n /\ place[s[k]] - 1 = k - 1
    BY <1>3, <2>3
  <2> QED BY <1>1, <2>3, <2>4
<1>10. s \in Seq(S) /\ Len(s) = n
  <2>1. s \in [1 .. n -> S]
    BY <1>5, <1>9
  <2> QED BY <1>1, <2>1
<1>11. \A x \in S : \E k \in 1 .. n : s[k] = x
  BY <1>3, <1>6, <1>9
<1>12. \A j, k \in 1 .. n : j < k => <<s[j], s[k]>> \in before
  <2> SUFFICES ASSUME NEW j \in 1 .. n, NEW k \in 1 .. n, j < k PROVE <<s[j], s[k]>> \in before
    OBVIOUS
  <2>1. s[j] \in S /\ s[k] \in S /\ place[s[j]] = j /\ place[s[k]] = k
    BY <1>9
  <2>2. <<s[k], s[j]>> \notin before /\ s[k] # s[j]
    BY <1>1, <1>4, <2>1
  <2> QED BY <2>1, <2>2 DEF TotalOrder
<1>13. NoDup(s)
  BY <1>9, <1>10 DEF NoDup
<1> QED BY <1>10, <1>11, <1>12, <1>13 DEF s, n

\* The indices of a list of n elements
LEMMA UpTo ==
  ASSUME NEW n \in Nat
  PROVE  IsFiniteSet(1 .. n) /\ Cardinality(1 .. n) = n
<1>1. /\ IsFiniteSet(1 .. n)
      /\ Cardinality(1 .. n) = IF 1 > n THEN 0 ELSE n - 1 + 1
  BY 1 \in Int, n \in Int, FS_Interval
<1> QED BY <1>1

\* The processes are finitely many, and there is a last level.
LEMMA Processes ==
  /\ IsFiniteSet(Process) /\ Cardinality(Process) = NProc
  /\ NProc \in Nat \ {0}
  /\ Last \in Level /\ Last \in Nat /\ Level \subseteq Nat
<1>1. NProc \in Nat \ {0} /\ Levels \in Nat \ {0}
  BY ConstantsAssumption
<1>2. IsFiniteSet(1 .. NProc) /\ Cardinality(1 .. NProc) = NProc
  BY <1>1, UpTo
<1>3. Last \in Level /\ Last \in Nat /\ Level \subseteq Nat
  BY <1>1 DEF Last, Level
<1> QED BY <1>1, <1>2, <1>3 DEF Process

\* A list of processes without duplicates
LEMMA ShortList ==
  ASSUME NEW s \in Seq(Process), NoDup(s)
  PROVE  Len(s) \in Nat /\ Len(s) <= NProc
<1>1. Len(s) \in Nat
  OBVIOUS
<1>2. s \in [1 .. Len(s) -> Process]
  OBVIOUS
<1>3. s \in Injection(1 .. Len(s), Process)
  <2>1. DOMAIN s = 1 .. Len(s)
    OBVIOUS
  <2>2. \A j, k \in DOMAIN s : s[j] = s[k] => j = k
    BY <2>1 DEF NoDup
  <2>3. IsInjective(s)
    BY <2>2 DEF IsInjective
  <2> QED BY <1>2, <2>3 DEF Injection
<1>4. IsFiniteSet(1 .. Len(s)) /\ Cardinality(1 .. Len(s)) = Len(s)
  BY ONLY <1>1, UpTo
<1>5. IsFiniteSet(Process) /\ Cardinality(Process) = NProc
  BY Processes
<1>6. Cardinality(1 .. Len(s)) <= Cardinality(Process)
  BY ONLY <1>3, <1>5, FS_Injection
<1> QED BY <1>1, <1>4, <1>5, <1>6

\* What a level begins with
LEMMA InLevelIsList ==
  ASSUME NEW h \in [Process -> Level], NEW l
  PROVE  LET s == InLevel(h, l)
         IN  /\ s \in Seq(Process) /\ NoDup(s)
             /\ \A k \in 1 .. Len(s) : h[s[k]] = l
             /\ \A p \in Process : h[p] = l => \E k \in 1 .. Len(s) : s[k] = p
             /\ \A j, k \in 1 .. Len(s) : j < k => s[j] < s[k]
<1> DEFINE S == {p \in Process : h[p] = l}
           before == {w \in Process \X Process : w[1] < w[2]}
           s == InOrder(S, before)
<1>1. IsFiniteSet(S)
  BY Processes, FS_Subset, S \in SUBSET Process
<1>2. \A p, r \in Process : <<p, r>> \in before <=> p < r
  OBVIOUS
<1>3. TotalOrder(S, before)
  <2> HIDE DEF before
  <2> QED BY <1>2 DEF TotalOrder, Process
<1>4. /\ s \in Seq(S) /\ NoDup(s)
      /\ \A x \in S : \E k \in 1 .. Len(s) : s[k] = x
      /\ \A j, k \in 1 .. Len(s) : j < k => <<s[j], s[k]>> \in before
  <2> HIDE DEF before, S
  <2> QED BY <1>1, <1>3, InOrderIsList
<1> HIDE DEF s
<1>5. \A k \in 1 .. Len(s) : s[k] \in S
  <2> HIDE DEF S
  <2> QED BY <1>4
<1>6. s \in Seq(Process)
  BY <1>4, <1>5
<1>7. InLevel(h, l) = s
  BY DEF InLevel, s
<1> QED BY <1>2, <1>4, <1>5, <1>6, <1>7

\* list.sort keeps every element, once.
LEMMA SortedIsList ==
  ASSUME NEW at \in [Process -> Nat], NEW s \in Seq(Process), NoDup(s)
  PROVE  /\ Sorted(s, at) \in Seq(Process) /\ Len(Sorted(s, at)) = Len(s) /\ NoDup(Sorted(s, at))
         /\ \A j \in 1 .. Len(s) : \E k \in 1 .. Len(s) : Sorted(s, at)[k] = s[j]
         /\ \A k \in 1 .. Len(s) : \E j \in 1 .. Len(s) : Sorted(s, at)[k] = s[j]
<1> DEFINE n == Len(s)
           I == DOMAIN s
           earlier == {w \in I \X I :
                          \/ at[s[w[1]]] < at[s[w[2]]]
                          \/ at[s[w[1]]] = at[s[w[2]]] /\ w[1] < w[2]}
           by == InOrder(I, earlier)
<1>1. /\ n \in Nat /\ I = 1 .. n /\ IsFiniteSet(I) /\ Cardinality(I) = n
      /\ \A j \in 1 .. n : s[j] \in Process
  <2>1. n \in Nat /\ I = 1 .. n /\ \A j \in 1 .. n : s[j] \in Process
    OBVIOUS
  <2>2. IsFiniteSet(1 .. n) /\ Cardinality(1 .. n) = n
    BY ONLY <2>1, UpTo
  <2> HIDE DEF n, I
  <2> QED BY <2>1, <2>2
<1>2. \A j, k \in 1 .. n : <<j, k>> \in earlier <=>
         \/ at[s[j]] < at[s[k]]
         \/ at[s[j]] = at[s[k]] /\ j < k
  BY <1>1
<1>3. TotalOrder(I, earlier)
  <2> HIDE DEF earlier, I, n
  <2>1. \A j \in 1 .. n : at[s[j]] \in Nat
    BY <1>1
  <2>2. \A x \in 1 .. n : <<x, x>> \notin earlier
    BY <1>1, <1>2, <2>1
  <2>3. \A x, y \in 1 .. n : x # y => <<x, y>> \in earlier \/ <<y, x>> \in earlier
    BY <1>1, <1>2, <2>1
  <2>4. \A x, y, z \in 1 .. n :
           <<x, y>> \in earlier /\ <<y, z>> \in earlier => <<x, z>> \in earlier
    <3> SUFFICES ASSUME NEW x \in 1 .. n, NEW y \in 1 .. n, NEW z \in 1 .. n,
                        <<x, y>> \in earlier, <<y, z>> \in earlier
                 PROVE  <<x, z>> \in earlier
      OBVIOUS
    <3>1. \/ at[s[x]] < at[s[y]]
          \/ at[s[x]] = at[s[y]] /\ x < y
      BY <1>2
    <3>2. \/ at[s[y]] < at[s[z]]
          \/ at[s[y]] = at[s[z]] /\ y < z
      BY <1>2
    <3>3. at[s[x]] \in Nat /\ at[s[y]] \in Nat /\ at[s[z]] \in Nat
      BY <2>1
    <3>4. \/ at[s[x]] < at[s[z]]
          \/ at[s[x]] = at[s[z]] /\ x < z
      <4>1. x \in Int /\ y \in Int /\ z \in Int
        OBVIOUS
      <4> QED BY ONLY <3>1, <3>2, <3>3, <4>1
    <3> QED BY <1>2, <3>4
  <2> QED BY <1>1, <2>2, <2>3, <2>4 DEF TotalOrder
<1>4. /\ by \in Seq(I) /\ Len(by) = n /\ NoDup(by)
      /\ \A x \in I : \E k \in 1 .. Len(by) : by[k] = x
  <2>1. IsFiniteSet(I) /\ Cardinality(I) = n /\ TotalOrder(I, earlier)
    BY <1>1, <1>3
  <2> HIDE DEF earlier, I, n
  <2> QED BY <2>1, InOrderIsList
<1>5. Sorted(s, at) = [k \in I |-> s[by[k]]]
  BY DEF Sorted
<1> HIDE DEF by, earlier, I, n
<1>6. \A k \in 1 .. n : by[k] \in 1 .. n
  <2>1. by \in Seq(1 .. n) /\ Len(by) = n
    BY <1>1, <1>4
  <2> QED BY <2>1
<1>7. Sorted(s, at) = [k \in 1 .. n |-> s[by[k]]]
  BY <1>1, <1>5
<1>8. Sorted(s, at) \in Seq(Process) /\ Len(Sorted(s, at)) = n
  BY <1>1, <1>6, <1>7
<1>9. \A j, k \in 1 .. n : s[j] = s[k] => j = k
  BY DEF NoDup, n
<1>10. NoDup(Sorted(s, at))
  <2>1. \A j, k \in 1 .. n : by[j] = by[k] => j = k
    BY <1>4 DEF NoDup
  <2> SUFFICES ASSUME NEW j \in 1 .. n, NEW k \in 1 .. n, Sorted(s, at)[j] = Sorted(s, at)[k]
               PROVE  j = k
    BY <1>8 DEF NoDup
  <2>2. s[by[j]] = s[by[k]]
    BY <1>7
  <2>3. by[j] = by[k]
    BY <1>6, <1>9, <2>2
  <2> QED BY <2>1, <2>3
<1>11. \A j \in 1 .. n : \E k \in 1 .. n : Sorted(s, at)[k] = s[j]
  <2>1. \A x \in 1 .. n : \E k \in 1 .. n : by[k] = x
    BY <1>1, <1>4
  <2> SUFFICES ASSUME NEW j \in 1 .. n PROVE \E k \in 1 .. n : Sorted(s, at)[k] = s[j]
    OBVIOUS
  <2>2. PICK k \in 1 .. n : by[k] = j
    BY <2>1
  <2>3. Sorted(s, at)[k] = s[by[k]]
    BY <1>7
  <2> QED BY <2>2, <2>3
<1>12. \A k \in 1 .. n : \E j \in 1 .. n : Sorted(s, at)[k] = s[j]
  BY <1>6, <1>7
<1> QED BY <1>8, <1>10, <1>11, <1>12 DEF n

\* A list whose elements have the times 0, 1, 2, ... is sorted.
LEMMA SortedAlready ==
  ASSUME NEW at, NEW s \in Seq(Process), \A j \in 1 .. Len(s) : at[s[j]] = j - 1
  PROVE  Sorted(s, at) = s
<1> DEFINE n == Len(s)
           I == DOMAIN s
           earlier == {w \in I \X I :
                          \/ at[s[w[1]]] < at[s[w[2]]]
                          \/ at[s[w[1]]] = at[s[w[2]]] /\ w[1] < w[2]}
           by == InOrder(I, earlier)
<1>1. n \in Nat /\ I = 1 .. n
  OBVIOUS
<1>2. ASSUME NEW j \in 1 .. n, NEW k \in 1 .. n PROVE <<j, k>> \in earlier <=> j < k
  <2>1. at[s[j]] = j - 1 /\ at[s[k]] = k - 1 /\ j \in Int /\ k \in Int
    OBVIOUS
  <2>2. <<j, k>> \in earlier <=>
           \/ at[s[j]] < at[s[k]]
           \/ at[s[j]] = at[s[k]] /\ j < k
    BY <1>1
  <2> HIDE DEF earlier
  <2> QED BY <2>1, <2>2
<1> HIDE DEF earlier
<1>3. ASSUME NEW k \in 1 .. n PROVE Cardinality({y \in I : <<y, k>> \in earlier}) = k - 1
  <2>1. k - 1 \in Nat /\ k \in Nat
    OBVIOUS
  <2>2. {y \in I : <<y, k>> \in earlier} = 1 .. k - 1
    <3>1. \A y \in I : <<y, k>> \in earlier <=> y < k
      BY <1>1, <1>2
    <3>2. \A y : y \in I /\ y < k <=> y \in 1 .. k - 1
      BY <1>1
    <3> HIDE DEF I, n
    <3> QED BY <3>1, <3>2
  <2>3. Cardinality(1 .. k - 1) = k - 1
    BY ONLY <2>1, UpTo
  <2> QED BY <2>2, <2>3
<1>4. Cardinality(I) = n
  <2>1. Cardinality(1 .. n) = n
    BY ONLY <1>1, UpTo
  <2> HIDE DEF n, I
  <2> QED BY <1>1, <2>1
<1>5. by = [k \in 1 .. n |-> CHOOSE x \in I : Cardinality({y \in I : <<y, x>> \in earlier}) = k - 1]
  <2> HIDE DEF n, I
  <2> QED BY <1>4 DEF InOrder
<1>6. ASSUME NEW k \in 1 .. n PROVE by[k] = k
  <2> DEFINE Is(x) == Cardinality({y \in I : <<y, x>> \in earlier}) = k - 1
  <2>1. k \in I /\ Is(k)
    BY <1>1, <1>3
  <2>2. ASSUME NEW x \in I, Is(x) PROVE x = k
    <3>1. x \in 1 .. n
      BY <1>1
    <3>2. Cardinality({y \in I : <<y, x>> \in earlier}) = x - 1
      BY <1>3, <3>1
    <3>3. x - 1 = k - 1 /\ x \in Int /\ k \in Int
      BY <2>2, <3>1, <3>2
    <3> QED BY ONLY <3>3
  <2>3. by[k] = CHOOSE x \in I : Is(x)
    BY <1>5
  <2> HIDE DEF Is, I, n, by
  <2>4. (CHOOSE x \in I : Is(x)) = k
    BY <2>1, <2>2
  <2> QED BY <2>3, <2>4
<1>7. Sorted(s, at) = [k \in I |-> s[by[k]]]
  BY DEF Sorted, earlier
<1> HIDE DEF by
<1>8. [k \in I |-> s[by[k]]] = [k \in 1 .. n |-> s[k]]
  BY <1>1, <1>6
<1>9. s = [k \in 1 .. n |-> s[k]]
  OBVIOUS
<1> QED BY <1>7, <1>8, <1>9

\* The numbers that the feedback queue gives a list are times, and the list is sorted
\* by them.
LEMMA NumberedIsSorted ==
  ASSUME arrive \in [Process -> Nat], NEW s \in Seq(Process), NoDup(s)
  PROVE  Numbered(s) \in [Process -> Nat] /\ Sorted(s, Numbered(s)) = s
<1>1. DOMAIN s = 1 .. Len(s) /\ Len(s) \in Nat
  OBVIOUS
<1>2. \A p \in Process :
         Numbered(s)[p] = IF \E j \in 1 .. Len(s) : s[j] = p
                          THEN (CHOOSE j \in 1 .. Len(s) : s[j] = p) - 1 ELSE arrive[p]
  BY <1>1 DEF Numbered
<1>3. ASSUME NEW j \in 1 .. Len(s) PROVE Numbered(s)[s[j]] = j - 1
  <2>1. s[j] \in Process
    OBVIOUS
  <2>2. (CHOOSE k \in 1 .. Len(s) : s[k] = s[j]) = j
    BY DEF NoDup
  <2> QED BY <1>2, <2>1, <2>2
<1>4. ASSUME NEW p \in Process PROVE Numbered(s)[p] \in Nat
  <2>1. CASE \E j \in 1 .. Len(s) : s[j] = p
    <3>1. PICK j \in 1 .. Len(s) : s[j] = p
      BY <2>1
    <3>2. j - 1 \in Nat
      OBVIOUS
    <3> QED BY <1>3, <3>1, <3>2
  <2>2. CASE ~ \E j \in 1 .. Len(s) : s[j] = p
    BY <1>2, <2>2
  <2> QED BY <2>1, <2>2
<1>5. Numbered(s) \in [Process -> Nat]
  <2>1. Numbered(s) = [p \in Process |-> Numbered(s)[p]]
    BY DEF Numbered
  <2> QED BY <1>4, <2>1
<1>6. Sorted(s, Numbered(s)) = s
  <2>1. PICK at : at = Numbered(s)
    OBVIOUS
  <2>2. \A j \in 1 .. Len(s) : at[s[j]] = j - 1
    BY <1>3, <2>1
  <2>3. Sorted(s, at) = s
    BY ONLY <2>2, SortedAlready, s \in Seq(Process)
  <2> QED BY <2>1, <2>3
<1> QED BY <1>5, <1>6

\* list.remove
LEMMA RemovedIsList ==
  ASSUME NEW s \in Seq(Process), NoDup(s), NEW k \in 0 .. Len(s) - 1
  PROVE  /\ Removed(s, k) \in Seq(Process) /\ Len(Removed(s, k)) = Len(s) - 1
         /\ \A j \in 1 .. Len(s) - 1 : Removed(s, k)[j] = IF j <= k THEN s[j] ELSE s[j + 1]
         /\ NoDup(Removed(s, k))
<1> DEFINE a == SubSeq(s, 1, k)
           b == SubSeq(s, k + 2, Len(s))
<1>1. Len(s) \in Nat /\ k \in Nat /\ k + 2 \in Nat
  OBVIOUS
<1>2. /\ a \in Seq(Process) /\ Len(a) = k /\ \A j \in 1 .. k : a[j] = s[j]
  BY <1>1, SubSeqProperties
<1>3. /\ b \in Seq(Process) /\ Len(b) = Len(s) - 1 - k
      /\ \A j \in 1 .. Len(s) - 1 - k : b[j] = s[j + k + 1]
  BY <1>1, SubSeqProperties
<1>4. Removed(s, k) = a \o b
  BY DEF Removed
<1> HIDE DEF a, b
<1>5. /\ a \o b \in Seq(Process) /\ Len(a \o b) = Len(s) - 1
      /\ \A j \in 1 .. Len(s) - 1 : (a \o b)[j] = IF j <= k THEN a[j] ELSE b[j - k]
  <2>1. /\ a \o b \in Seq(Process) /\ Len(a \o b) = Len(a) + Len(b)
        /\ \A j \in 1 .. Len(a) + Len(b) :
              (a \o b)[j] = IF j <= Len(a) THEN a[j] ELSE b[j - Len(a)]
    <3>1. a \in Seq(Process) /\ b \in Seq(Process)
      BY <1>2, <1>3
    <3> QED BY ONLY <3>1, ConcatProperties
  <2>2. Len(a) = k /\ Len(a) + Len(b) = Len(s) - 1
    BY <1>1, <1>2, <1>3
  <2> QED BY <2>1, <2>2
<1>6. \A j \in 1 .. Len(s) - 1 : Removed(s, k)[j] = IF j <= k THEN s[j] ELSE s[j + 1]
  <2> SUFFICES ASSUME NEW j \in 1 .. Len(s) - 1
               PROVE  Removed(s, k)[j] = IF j <= k THEN s[j] ELSE s[j + 1]
    OBVIOUS
  <2>1. CASE j <= k
    BY <1>1, <1>2, <1>4, <1>5, <2>1
  <2>2. CASE ~(j <= k)
    <3>1. j - k \in 1 .. Len(s) - 1 - k /\ (j - k) + k + 1 = j + 1
      BY <1>1, <2>2
    <3> QED BY <1>3, <1>4, <1>5, <2>2, <3>1
  <2> QED BY <2>1, <2>2
<1>7. NoDup(Removed(s, k))
  <2> SUFFICES ASSUME NEW j \in 1 .. Len(s) - 1, NEW m \in 1 .. Len(s) - 1,
                      Removed(s, k)[j] = Removed(s, k)[m]
               PROVE  j = m
    BY <1>4, <1>5 DEF NoDup
  <2> DEFINE at == [x \in 1 .. Len(s) - 1 |-> IF x <= k THEN x ELSE x + 1]
  <2>1. at[j] \in 1 .. Len(s) /\ at[m] \in 1 .. Len(s) /\ (at[j] = at[m] => j = m)
    BY <1>1
  <2>2. Removed(s, k)[j] = s[at[j]] /\ Removed(s, k)[m] = s[at[m]]
    BY <1>6
  <2> HIDE DEF at
  <2> QED BY <2>1, <2>2 DEF NoDup
<1> QED BY <1>4, <1>5, <1>6, <1>7

-----------------------------------------------------------------------------
(* The schedulers: the invariant.                                          *)

\* Process p waits at place j of the list of level l: not those that the loop of
\* the current level has already handed on.
Waits(p, l, j) ==
    /\ l >= level /\ j \in 1 .. Len(queues[l])
    /\ l = level /\ phase = "level" => j > index
    /\ queues[l][j] = p

\* Where the loops are: index names a process, and no later list is empty.
LoopsAreInside ==
    /\ phase = "level" => level < Last /\ index < Len(queues[level])
    /\ phase # "level" => level = Last
    /\ phase = "sort" => index = 0 /\ queues[Last] # <<>>
    /\ phase = "rr" => index < Len(queues[Last])
    /\ phase = "ended" => index = 0 /\ queues[Last] = <<>>
    /\ \A l \in Level : l > level => queues[l] # <<>>

\* A process is in a list once, and waits at one place, if it has service left.
ListedOnce == \A l \in Level : l >= level => NoDup(queues[l])
WaitsOnce ==
    \A p \in Process : \A l, k \in Level : \A a, b \in Nat :
        Waits(p, l, a) /\ Waits(p, k, b) => l = k /\ a = b
WaitsIfUnserved ==
    \A p \in Process : left[p] > 0 <=> \E l \in Level : \E j \in Nat : Waits(p, l, j)

\* Of two processes of one home the later is never ahead: it waits further back,
\* or at a level that the other one has left.
InTurn ==
    phase \in {"level", "sort"} =>
        \A p, r \in Process : \A l, k \in Level : \A a, b \in Nat :
            p < r /\ home[p] = home[r] /\ Waits(p, l, a) /\ Waits(r, k, b)
                => k < l \/ (k = l /\ a < b)

\* In a round of RR those before index have had one slice more than the others.
RoundIsShared ==
    phase = "rr" =>
        \E g \in Int : \A j \in 1 .. Len(queues[Last]) :
            base[queues[Last][j]] - left[queues[Last][j]]
                = IF j <= index THEN g + slice ELSE g

SchedulerInv ==
    /\ TypeOK /\ LoopsAreInside /\ ListedOnce /\ WaitsOnce /\ WaitsIfUnserved
    /\ InTurn /\ RoundIsShared

\* index runs round the list.
LEMMA Around ==
  ASSUME NEW n \in Nat, NEW k \in 0 .. n - 1
  PROVE  /\ k % n = k
         /\ (k + 1) % n = IF k + 1 = n THEN 0 ELSE k + 1
OBVIOUS

\* What a level's list holds at first waits, each process in its own home.
LEMMA SchedulerInit ==
  ASSUME Init
  PROVE  SchedulerInv
<1>1. /\ serve \in [Process -> 1 .. MaxServe] /\ left = serve /\ base = left
      /\ finish = [p \in Process |-> 0] /\ order = <<>>
      /\ queues = [l \in Level |-> InLevel(home, l)]
      /\ slice \in Slices /\ index = 0 /\ clock = 0
  BY DEF Init, Begin
<1>2. slice \in Nat \ {0} /\ MaxServe \in Nat \ {0} /\ Levels \in Nat \ {0}
  BY <1>1, ConstantsAssumption
<1>3. /\ home \in [Process -> Level] /\ arrive \in [Process -> Nat] /\ global \in BOOLEAN
      /\ level \in Level /\ phase \in {"level", "sort"}
      /\ phase = "level" <=> level < Last
      /\ \A p \in Process : home[p] >= level
      /\ \A l \in Level : l >= level => \E p \in Process : home[p] = l
  <2>1. CASE InitLevels
    <3>1. /\ home \in [Process -> Level] /\ \A l \in Level : \E p \in Process : home[p] = l
          /\ arrive = [p \in Process |-> p - 1] /\ global = FALSE /\ level = 0
          /\ phase = IF Levels = 1 THEN "sort" ELSE "level"
      BY <2>1 DEF InitLevels
    <3>2. arrive \in [Process -> Nat]
      BY <3>1 DEF Process
    <3>3. /\ level = 0 /\ phase = IF Levels = 1 THEN "sort" ELSE "level"
          /\ home \in [Process -> Level] /\ \A l \in Level : \E p \in Process : home[p] = l
      BY <3>1
    <3>4. /\ level \in Level /\ phase \in {"level", "sort"} /\ (phase = "level" <=> level < Last)
          /\ \A p \in Process : home[p] >= level
      BY <1>2, <3>3 DEF Level, Last
    <3>5. global \in BOOLEAN
      BY <3>1
    <3> QED BY <3>2, <3>3, <3>4, <3>5
  <2>2. CASE InitRoundRobin
    <3>1. /\ home = [p \in Process |-> Last] /\ arrive \in [Process -> 0 .. MaxArrive]
          /\ global = TRUE /\ level = Last /\ phase = "sort"
      BY <2>2 DEF InitRoundRobin
    <3>2. arrive \in [Process -> Nat] /\ 1 \in Process
      BY <3>1, Processes, ConstantsAssumption DEF Process
    <3> QED BY <1>2, <3>1, <3>2 DEF Level, Last
  <2> QED BY <2>1, <2>2 DEF Init
<1>4. \A l \in Level :
         /\ queues[l] = InLevel(home, l) /\ queues[l] \in Seq(Process) /\ NoDup(queues[l])
         /\ \A k \in 1 .. Len(queues[l]) : home[queues[l][k]] = l
         /\ \A p \in Process : home[p] = l => \E k \in 1 .. Len(queues[l]) : queues[l][k] = p
         /\ \A j, k \in 1 .. Len(queues[l]) : j < k => queues[l][j] < queues[l][k]
  <2> TAKE l \in Level
  <2>1. queues[l] = InLevel(home, l)
    BY <1>1
  <2>2. LET s == InLevel(home, l)
        IN  /\ s \in Seq(Process) /\ NoDup(s)
            /\ \A k \in 1 .. Len(s) : home[s[k]] = l
            /\ \A p \in Process : home[p] = l => \E k \in 1 .. Len(s) : s[k] = p
            /\ \A j, k \in 1 .. Len(s) : j < k => s[j] < s[k]
    <3>1. home \in [Process -> Level]
      BY <1>3
    <3> QED BY ONLY <3>1, InLevelIsList
  <2> QED BY <2>1, <2>2
<1>5. queues \in [Level -> Seq(Process)]
  <2>1. DOMAIN queues = Level /\ queues = [l \in Level |-> queues[l]]
    BY <1>1
  <2> QED BY <1>4, <2>1
<1>6. TypeOK
  BY <1>1, <1>2, <1>3, <1>5, Processes DEF TypeOK
<1>7. \A l \in Level : l >= level => queues[l] # <<>> /\ Len(queues[l]) \in Nat /\ Len(queues[l]) > 0
  <2> SUFFICES ASSUME NEW l \in Level, l >= level
               PROVE  queues[l] # <<>> /\ Len(queues[l]) \in Nat /\ Len(queues[l]) > 0
    OBVIOUS
  <2>1. PICK p \in Process : home[p] = l
    BY <1>3
  <2>2. PICK k \in 1 .. Len(queues[l]) : queues[l][k] = p
    BY <1>4, <2>1
  <2>3. queues[l] \in Seq(Process)
    BY <1>4
  <2> QED BY <2>2, <2>3
<1>8. LoopsAreInside
  BY <1>1, <1>3, <1>7, Processes DEF LoopsAreInside, Level, Last
<1>9. ListedOnce
  BY <1>4 DEF ListedOnce
<1>10. \A p \in Process : \A l \in Level : \A j \in Nat :
          Waits(p, l, j) <=> home[p] = l /\ j \in 1 .. Len(queues[l]) /\ queues[l][j] = p
  <2> TAKE p \in Process
  <2> TAKE l \in Level
  <2> TAKE j \in Nat
  <2>1. j \in 1 .. Len(queues[l]) => j > index
    BY <1>1
  <2>2. j \in 1 .. Len(queues[l]) /\ queues[l][j] = p => home[p] = l
    BY <1>4
  <2>3. home[p] = l => l >= level
    BY <1>3
  <2> QED BY <2>1, <2>2, <2>3 DEF Waits
<1>11. WaitsOnce
  BY <1>4, <1>10 DEF WaitsOnce, NoDup
<1>12. WaitsIfUnserved
  <2>1. \A p \in Process : left[p] > 0
    BY <1>1, <1>2
  <2>2. \A p \in Process : \E l \in Level : \E j \in Nat : Waits(p, l, j)
    <3> TAKE p \in Process
    <3>1. home[p] \in Level
      BY <1>3
    <3>2. PICK k \in 1 .. Len(queues[home[p]]) : queues[home[p]][k] = p
      BY <1>4, <3>1
    <3>3. k \in Nat
      BY <1>5, <3>1
    <3>4. Waits(p, home[p], k)
      BY <1>10, <3>1, <3>2, <3>3
    <3> QED BY <3>1, <3>3, <3>4
  <2> QED BY <2>1, <2>2 DEF WaitsIfUnserved
<1>13. InTurn
  <2> SUFFICES ASSUME NEW p \in Process, NEW r \in Process, NEW l \in Level, NEW k \in Level,
                      NEW m \in Nat, NEW j \in Nat,
                      p < r, home[p] = home[r], Waits(p, l, m), Waits(r, k, j)
               PROVE  k = l /\ m < j
    BY DEF InTurn
  <2>1. /\ k = l /\ m \in 1 .. Len(queues[l]) /\ j \in 1 .. Len(queues[l])
        /\ queues[l][m] = p /\ queues[l][j] = r
    BY <1>10
  <2>2. j < m => r < p
    BY <1>4, <2>1
  <2>3. p \in Nat /\ r \in Nat
    BY DEF Process
  <2> QED BY <2>1, <2>2, <2>3
<1>14. RoundIsShared
  BY <1>3 DEF RoundIsShared
<1> QED BY <1>6, <1>8, <1>9, <1>11, <1>12, <1>13, <1>14 DEF SchedulerInv

\* Where a level's loop goes on: in the same list, or in the next one from its
\* beginning.  Nobody who waits is left behind.
LEMMA NextLevelStep ==
  ASSUME TypeOK, phase = "level", level < Last,
         NEW q2 \in [Level -> Seq(Process)], NEW m \in Nat, m <= Len(q2[level]),
         \A l \in Level : l > level => q2[l] # <<>>,
         \A l \in Level : l >= level => NoDup(q2[l]),
         queues' = q2, NextLevel(q2, m)
  PROVE  /\ level' \in Level /\ level' >= level /\ slice' \in Nat \ {0}
         /\ index' \in 0 .. NProc
         /\ phase' \in {"level", "sort"}
         /\ LoopsAreInside' /\ ListedOnce'
         /\ \A p \in Process : \A l \in Level : \A j \in Nat :
               Waits(p, l, j)' <=> /\ l >= level /\ j \in 1 .. Len(q2[l])
                                   /\ l = level => j > m
                                   /\ q2[l][j] = p
<1>1. /\ level \in Nat /\ Last \in Nat /\ Levels \in Nat \ {0} /\ level \in Level
      /\ level + 1 \in Level /\ slice \in Nat \ {0}
      /\ \A l \in Level : l \in Nat /\ l <= Last
  BY ConstantsAssumption DEF TypeOK, Level, Last
<1>2. \A l \in Level : q2[l] \in Seq(Process) /\ Len(q2[l]) \in Nat
  OBVIOUS
<1>3. CASE m = Len(q2[level])
  <2>1. /\ level' = level + 1 /\ slice' = 2 * slice /\ index' = 0
        /\ phase' = IF level + 1 = Last THEN "sort" ELSE "level"
    BY <1>3 DEF NextLevel
  <2>3. q2[level'] # <<>> /\ Len(q2[level']) > 0 /\ Len(q2[level']) \in Nat
    <3>1. q2[level + 1] # <<>> /\ q2[level + 1] \in Seq(Process)
      BY <1>1, <1>2
    <3> QED BY <2>1, <3>1
  <2>4. LoopsAreInside'
    <3>1. /\ phase' = "level" => level' < Last
          /\ phase' # "level" => level' = Last /\ phase' = "sort"
      BY <1>1, <2>1
    <3>2. \A l \in Level : l > level' => q2[l] # <<>>
      BY <1>1, <2>1
    <3> QED BY <2>1, <2>3, <3>1, <3>2 DEF LoopsAreInside, Last, Level
  <2>5. ListedOnce'
    BY <1>1, <2>1 DEF ListedOnce, Level
  <2>6. ASSUME NEW p \in Process, NEW l \in Level, NEW j \in Nat
        PROVE  Waits(p, l, j)' <=> /\ l >= level /\ j \in 1 .. Len(q2[l])
                                   /\ l = level => j > m
                                   /\ q2[l][j] = p
    <3>1. l = level => ~ (j \in 1 .. Len(q2[l]) /\ j > m)
      BY <1>2, <1>3
    <3>2. l >= level' <=> l >= level /\ l # level
      BY <1>1, <2>1
    <3>3. j \in 1 .. Len(q2[l]) => j > index'
      BY <2>1
    <3> QED BY <3>1, <3>2, <3>3 DEF Waits
  <2>7. level' \in Level /\ level' >= level /\ slice' \in Nat \ {0} /\ index' \in 0 .. NProc
        /\ phase' \in {"level", "sort"}
    BY <1>1, <2>1, Processes
  <2> QED BY <2>4, <2>5, <2>6, <2>7
<1>4. CASE m # Len(q2[level])
  <2>1. index' = m /\ UNCHANGED <<level, slice, phase>>
    BY <1>4 DEF NextLevel
  <2>2. Len(q2[level]) <= NProc /\ m < Len(q2[level])
    BY <1>1, <1>2, <1>4, ShortList
  <2>3. index' \in 0 .. NProc
    BY <1>1, <1>2, <2>1, <2>2, Processes
  <2>4. LoopsAreInside'
    BY <1>1, <2>1, <2>2 DEF LoopsAreInside, Last, Level
  <2>5. ListedOnce'
    BY <2>1 DEF ListedOnce, Level
  <2>6. ASSUME NEW p \in Process, NEW l \in Level, NEW j \in Nat
        PROVE  Waits(p, l, j)' <=> /\ l >= level /\ j \in 1 .. Len(q2[l])
                                   /\ l = level => j > m
                                   /\ q2[l][j] = p
    BY <2>1 DEF Waits
  <2> QED BY <1>1, <2>1, <2>3, <2>4, <2>5, <2>6 DEF TypeOK
<1> QED BY <1>3, <1>4

\* What the steps of a level's loop begin with
LEMMA AtLevel ==
  ASSUME SchedulerInv, phase = "level"
  PROVE  /\ level \in Level /\ level + 1 \in Level /\ level \in Nat /\ level < Last
         /\ Last \in Level /\ Last \in Nat
         /\ \A l \in Level : l \in Nat /\ queues[l] \in Seq(Process) /\ Len(queues[l]) \in Nat
         /\ index \in 0 .. Len(queues[level]) - 1 /\ index + 1 \in 1 .. Len(queues[level])
         /\ Current \in Process /\ Waits(Current, level, index + 1)
         /\ left \in [Process -> 0 .. MaxServe] /\ slice \in Nat \ {0} /\ MaxServe \in Nat
<1>1. TypeOK /\ LoopsAreInside
  BY DEF SchedulerInv
<1>2. /\ level \in Level /\ level + 1 \in Level /\ level \in Nat /\ level < Last
      /\ Last \in Level /\ Last \in Nat
      /\ \A l \in Level : l \in Nat
  BY <1>1, ConstantsAssumption DEF TypeOK, LoopsAreInside, Level, Last
<1>3. \A l \in Level : queues[l] \in Seq(Process) /\ Len(queues[l]) \in Nat
  BY <1>1 DEF TypeOK
<1>4. index \in Nat /\ index < Len(queues[level])
  BY <1>1 DEF TypeOK, LoopsAreInside
<1>5. index \in 0 .. Len(queues[level]) - 1 /\ index + 1 \in 1 .. Len(queues[level])
  BY <1>2, <1>3, <1>4
<1>6. Current \in Process
  BY <1>2, <1>3, <1>5 DEF Current
<1>7. Waits(Current, level, index + 1)
  BY <1>2, <1>4, <1>5 DEF Waits, Current
<1> QED BY <1>1, <1>2, <1>3, <1>5, <1>6, <1>7, ConstantsAssumption DEF TypeOK

\* The process that a level's loop hands on waits at the end of the next list;
\* nobody else moves.
LEMMA DemoteStep ==
  ASSUME SchedulerInv, Demote
  PROVE  /\ SchedulerInv'
         /\ \A p \in Process : \A l \in Level : \A j \in Nat :
               Waits(p, l, j)' => \/ p # Current /\ Waits(p, l, j)
                                  \/ p = Current /\ l = level + 1
<1> DEFINE p0 == Current
           n  == Len(queues[level + 1])
           q2 == [queues EXCEPT ![level + 1] = Append(queues[level + 1], Current)]
<1>1. /\ phase = "level" /\ left[p0] > slice
      /\ left' = [left EXCEPT ![p0] = @ - slice] /\ queues' = q2
      /\ NextLevel(q2, index + 1)
      /\ UNCHANGED <<serve, arrive, global, home, finish, clock, base, order>>
  BY DEF Demote, DemoteInto
<1>2. /\ level \in Level /\ level + 1 \in Level /\ level \in Nat /\ level < Last
      /\ Last \in Level /\ Last \in Nat
      /\ \A l \in Level : l \in Nat /\ queues[l] \in Seq(Process) /\ Len(queues[l]) \in Nat
      /\ index \in 0 .. Len(queues[level]) - 1 /\ index + 1 \in 1 .. Len(queues[level])
      /\ p0 \in Process /\ Waits(p0, level, index + 1)
      /\ left \in [Process -> 0 .. MaxServe] /\ slice \in Nat \ {0} /\ MaxServe \in Nat
  BY <1>1, AtLevel
<1>3. /\ TypeOK /\ LoopsAreInside /\ ListedOnce /\ WaitsOnce /\ WaitsIfUnserved /\ InTurn
  BY DEF SchedulerInv
<1> HIDE DEF p0
<1>4. \A j \in 1 .. n : queues[level + 1][j] # p0
  <2> SUFFICES ASSUME NEW j \in 1 .. n, queues[level + 1][j] = p0 PROVE FALSE
    OBVIOUS
  <2>1. j \in Nat /\ index + 1 \in Nat
    BY <1>2
  <2>2. Waits(p0, level + 1, j)
    BY <1>2, <2>1 DEF Waits
  <2>3. level = level + 1
    BY <1>2, <1>3, <2>1, <2>2 DEF WaitsOnce
  <2> QED BY <1>2, <2>3
<1>5. /\ q2 \in [Level -> Seq(Process)]
      /\ \A l \in Level : l # level + 1 => q2[l] = queues[l]
      /\ Len(q2[level + 1]) = n + 1 /\ q2[level + 1][n + 1] = p0
      /\ \A j \in 1 .. n : q2[level + 1][j] = queues[level + 1][j]
  <2>1. queues \in [Level -> Seq(Process)]
    BY <1>3 DEF TypeOK
  <2>2. /\ Append(queues[level + 1], p0) \in Seq(Process)
        /\ Len(Append(queues[level + 1], p0)) = n + 1
        /\ Append(queues[level + 1], p0)[n + 1] = p0
        /\ \A j \in 1 .. n : Append(queues[level + 1], p0)[j] = queues[level + 1][j]
    BY <1>2
  <2> QED BY <1>2, <2>1, <2>2 DEF p0
<1> HIDE DEF q2, n
<1>6. n \in Nat /\ n = Len(queues[level + 1])
  BY <1>2 DEF n
<1>7. \A l \in Level : l >= level => NoDup(q2[l])
  <2> SUFFICES ASSUME NEW l \in Level, l >= level PROVE NoDup(q2[l])
    OBVIOUS
  <2>1. NoDup(queues[l])
    BY <1>3 DEF ListedOnce
  <2>2. CASE l # level + 1
    BY <1>5, <2>1, <2>2
  <2>3. CASE l = level + 1
    <3>1. \A j, k \in 1 .. n : queues[l][j] = queues[l][k] => j = k
      BY <1>6, <2>1, <2>3 DEF NoDup
    <3> SUFFICES ASSUME NEW j \in 1 .. n + 1, NEW k \in 1 .. n + 1, q2[l][j] = q2[l][k]
                 PROVE  j = k
      BY <1>5, <2>3 DEF NoDup
    <3>2. CASE j \in 1 .. n /\ k \in 1 .. n
      BY <1>5, <2>3, <3>1, <3>2
    <3>3. CASE j = n + 1 /\ k \in 1 .. n
      BY <1>4, <1>5, <2>3, <3>3
    <3>4. CASE k = n + 1 /\ j \in 1 .. n
      BY <1>4, <1>5, <2>3, <3>4
    <3> QED BY <1>6, <3>2, <3>3, <3>4
  <2> QED BY <2>2, <2>3
<1>8. /\ \A l \in Level : l > level => q2[l] # <<>>
      /\ index + 1 \in Nat /\ index + 1 <= Len(q2[level])
  <2>1. \A l \in Level : l > level => queues[l] # <<>>
    BY <1>3 DEF LoopsAreInside
  <2>2. q2[level + 1] # <<>>
    BY <1>2, <1>5, <1>6
  <2>3. \A l \in Level : l > level => q2[l] # <<>>
    BY <1>5, <2>1, <2>2
  <2>4. q2[level] = queues[level]
    BY <1>2, <1>5
  <2>5. index + 1 \in Nat /\ index + 1 <= Len(queues[level])
    BY <1>2
  <2> QED BY <2>3, <2>4, <2>5
<1>9. /\ level' \in Level /\ level' >= level /\ slice' \in Nat \ {0}
      /\ index' \in 0 .. NProc
      /\ phase' \in {"level", "sort"}
      /\ LoopsAreInside' /\ ListedOnce'
      /\ \A p \in Process : \A l \in Level : \A j \in Nat :
            Waits(p, l, j)' <=> /\ l >= level /\ j \in 1 .. Len(q2[l])
                                /\ l = level => j > index + 1
                                /\ q2[l][j] = p
  <2>1. TypeOK /\ phase = "level" /\ level < Last /\ queues' = q2 /\ NextLevel(q2, index + 1)
    BY <1>1, <1>2, <1>3
  <2>2. q2 \in [Level -> Seq(Process)] /\ index + 1 \in Nat /\ index + 1 <= Len(q2[level])
    BY <1>5, <1>8
  <2>3. /\ \A l \in Level : l > level => q2[l] # <<>>
        /\ \A l \in Level : l >= level => NoDup(q2[l])
    BY <1>7, <1>8
  <2> QED BY ONLY <2>1, <2>2, <2>3, NextLevelStep
<1>10. \A p \in Process : \A l \in Level : \A j \in Nat :
          Waits(p, l, j)' <=> \/ p # p0 /\ Waits(p, l, j)
                              \/ p = p0 /\ l = level + 1 /\ j = n + 1
  <2> SUFFICES ASSUME NEW p \in Process, NEW l \in Level, NEW j \in Nat
               PROVE  Waits(p, l, j)' <=> \/ p # p0 /\ Waits(p, l, j)
                                          \/ p = p0 /\ l = level + 1 /\ j = n + 1
    OBVIOUS
  <2>1. Waits(p, l, j)' <=> /\ l >= level /\ j \in 1 .. Len(q2[l])
                            /\ l = level => j > index + 1
                            /\ q2[l][j] = p
    BY <1>9
  <2>2. Waits(p, l, j) <=> /\ l >= level /\ j \in 1 .. Len(queues[l])
                           /\ l = level => j > index
                           /\ queues[l][j] = p
    BY <1>1 DEF Waits
  <2>3. CASE l # level + 1
    <3>1. q2[l] = queues[l]
      BY <1>5, <2>3
    <3>2. CASE p = p0
      <4>1. Waits(p, l, j) => l = level /\ j = index + 1
        BY <1>2, <1>3, <1>8, <3>2 DEF WaitsOnce
      <4>2. ~ Waits(p, l, j)'
        BY <1>2, <2>1, <2>2, <3>1, <4>1
      <4> QED BY <2>3, <3>2, <4>2
    <3>3. CASE p # p0
      <4>1. l = level /\ j = index + 1 => queues[l][j] = p0
        BY <1>2 DEF Waits
      <4>2. l = level /\ j = index + 1 => ~ Waits(p, l, j) /\ ~ Waits(p, l, j)'
        BY <1>8, <2>1, <2>2, <3>3, <4>1
      <4>3. j # index + 1 => (j > index + 1 <=> j > index)
        BY <1>2
      <4> QED BY <2>1, <2>2, <3>1, <3>3, <4>2, <4>3
    <3> QED BY <3>2, <3>3
  <2>4. CASE l = level + 1
    <3>1. Waits(p, l, j)' <=> j \in 1 .. n + 1 /\ q2[l][j] = p
      <4>1. l >= level /\ l # level /\ Len(q2[l]) = n + 1
        BY <1>2, <1>5, <2>4
      <4> QED BY <2>1, <4>1
    <3>2. Waits(p, l, j) <=> j \in 1 .. n /\ queues[l][j] = p
      <4>1. l >= level /\ l # level /\ n = Len(queues[l])
        BY <1>2, <1>6, <2>4
      <4> QED BY <2>2, <4>1
    <3>3. CASE j \in 1 .. n
      BY <1>4, <1>5, <1>6, <2>4, <3>1, <3>2, <3>3
    <3>4. CASE j \notin 1 .. n
      BY <1>5, <1>6, <2>4, <3>1, <3>2, <3>4
    <3> QED BY <3>3, <3>4
  <2> QED BY <2>3, <2>4
<1>11. TypeOK'
  <2>1. left' \in [Process -> 0 .. MaxServe]
    BY <1>1, <1>2
  <2>2. queues' \in [Level -> Seq(Process)]
    BY <1>1, <1>5
  <2> QED BY <1>1, <1>3, <1>9, <2>1, <2>2 DEF TypeOK
<1>12. WaitsOnce'
  <2> SUFFICES ASSUME NEW p \in Process, NEW l \in Level, NEW k \in Level,
                      NEW a \in Nat, NEW b \in Nat, Waits(p, l, a)', Waits(p, k, b)'
               PROVE  l = k /\ a = b
    BY DEF WaitsOnce
  <2> QED BY <1>3, <1>10 DEF WaitsOnce
<1>13. WaitsIfUnserved'
  <2> SUFFICES ASSUME NEW p \in Process
               PROVE  left'[p] > 0 <=> \E l \in Level : \E j \in Nat : Waits(p, l, j)'
    BY DEF WaitsIfUnserved
  <2>1. CASE p = p0
    <3>1. left'[p] > 0
      BY <1>1, <1>2, <2>1
    <3>2. PICK l \in Level, b \in Nat : l = level + 1 /\ b = n + 1
      BY <1>2, <1>6
    <3>3. Waits(p, l, b)'
      BY <1>10, <2>1, <3>2
    <3> QED BY <3>1, <3>3
  <2>2. CASE p # p0
    <3>1. left'[p] = left[p]
      BY <1>1, <1>2, <2>2
    <3> QED BY <1>3, <1>10, <2>2, <3>1 DEF WaitsIfUnserved
  <2> QED BY <2>1, <2>2
<1>14. InTurn'
  <2> SUFFICES ASSUME NEW p \in Process, NEW r \in Process, NEW l \in Level, NEW k \in Level,
                      NEW a \in Nat, NEW b \in Nat,
                      p < r, home[p] = home[r], Waits(p, l, a)', Waits(r, k, b)'
               PROVE  k < l \/ (k = l /\ a < b)
    BY <1>1 DEF InTurn
  <2>1. p # r /\ (p # p0 => Waits(p, l, a)) /\ (r # p0 => Waits(r, k, b))
    BY <1>10 DEF Process
  <2>2. Waits(p, l, a) /\ Waits(r, k, b) => k < l \/ (k = l /\ a < b)
    BY <1>1, <1>3 DEF InTurn
  <2>3. CASE p = p0
    \* r waits behind p, at level or below; p goes to the end of the next list
    <3>1. l = level + 1 /\ a = n + 1 /\ Waits(r, k, b)
      BY <1>10, <2>1, <2>3
    <3>2. k < level \/ (k = level /\ index + 1 < b)
      BY <1>1, <1>2, <1>3, <1>8, <2>3, <3>1 DEF InTurn
    <3> QED BY <1>2, <3>1, <3>2
  <2>4. CASE r = p0
    <3>1. k = level + 1 /\ b = n + 1 /\ Waits(p, l, a)
      BY <1>10, <2>1, <2>4
    <3>2. level < l \/ (level = l /\ a < index + 1)
      BY <1>1, <1>2, <1>3, <1>8, <2>4, <3>1 DEF InTurn
    <3>3. level = l => a > index
      BY <1>1, <3>1 DEF Waits
    <3>4. a \in 1 .. Len(queues[l])
      BY <3>1 DEF Waits
    <3>5. l \in Nat /\ a \in Nat /\ level \in Nat /\ index \in Nat /\ n \in Nat
      BY <1>2, <1>6
    <3>6. level < l
      BY <3>2, <3>3, <3>5
    <3>7. CASE l = level + 1
      BY <1>6, <3>1, <3>4, <3>5, <3>7
    <3>8. CASE l # level + 1
      BY <3>1, <3>5, <3>6, <3>8
    <3> QED BY <3>7, <3>8
  <2> QED BY <2>1, <2>2, <2>3, <2>4
<1>15. RoundIsShared'
  BY <1>9 DEF RoundIsShared
<1>16. SchedulerInv'
  BY <1>9, <1>11, <1>12, <1>13, <1>14, <1>15 DEF SchedulerInv
<1> QED BY <1>10, <1>16 DEF p0

\* The process that is done leaves the list, and those behind it move up.
LEMMA CompleteStep ==
  ASSUME SchedulerInv, Complete
  PROVE  /\ SchedulerInv'
         /\ \A p \in Process : \A l \in Level : \A j \in Nat :
               Waits(p, l, j)' => p # Current /\ \E k \in Nat : Waits(p, l, k)
<1> DEFINE p0 == Current
           n  == Len(queues[level])
           q2 == [queues EXCEPT ![level] = Removed(@, index)]
           from == [l \in Level |-> IF l = level THEN 1 ELSE 0]
<1>1. /\ phase = "level" /\ left[p0] <= slice
      /\ left' = [left EXCEPT ![p0] = 0] /\ queues' = q2
      /\ NextLevel(q2, index + 0)
      /\ UNCHANGED <<serve, arrive, global, home, finish, clock, base, order>>
  BY DEF Complete, Remove
<1>2. /\ level \in Level /\ level + 1 \in Level /\ level \in Nat /\ level < Last
      /\ Last \in Level /\ Last \in Nat
      /\ \A l \in Level : l \in Nat /\ queues[l] \in Seq(Process) /\ Len(queues[l]) \in Nat
      /\ index \in 0 .. n - 1 /\ index + 1 \in 1 .. n
      /\ p0 \in Process /\ Waits(p0, level, index + 1)
      /\ left \in [Process -> 0 .. MaxServe] /\ slice \in Nat \ {0} /\ MaxServe \in Nat
  BY <1>1, AtLevel
<1>3. /\ TypeOK /\ LoopsAreInside /\ ListedOnce /\ WaitsOnce /\ WaitsIfUnserved /\ InTurn
  BY DEF SchedulerInv
<1> HIDE DEF p0
<1>4. NoDup(queues[level])
  BY <1>2, <1>3 DEF ListedOnce
<1>5. /\ Removed(queues[level], index) \in Seq(Process)
      /\ Len(Removed(queues[level], index)) = n - 1
      /\ \A j \in 1 .. n - 1 : Removed(queues[level], index)[j]
            = IF j <= index THEN queues[level][j] ELSE queues[level][j + 1]
      /\ NoDup(Removed(queues[level], index))
  BY <1>2, <1>4, RemovedIsList
<1>6. /\ q2 \in [Level -> Seq(Process)]
      /\ \A l \in Level : l # level => q2[l] = queues[l]
      /\ q2[level] = Removed(queues[level], index)
  <2>1. queues \in [Level -> Seq(Process)]
    BY <1>3 DEF TypeOK
  <2> QED BY <1>2, <1>5, <2>1
<1> HIDE DEF q2, n
<1>7. n \in Nat /\ n = Len(queues[level])
  BY <1>2 DEF n
<1>8. /\ \A l \in Level : l >= level => NoDup(q2[l])
      /\ \A l \in Level : l > level => q2[l] # <<>>
      /\ index + 0 = index /\ index \in Nat /\ index <= Len(q2[level])
  <2>1. \A l \in Level : l > level => queues[l] # <<>>
    BY <1>3 DEF LoopsAreInside
  <2>2. \A l \in Level : l >= level => NoDup(queues[l])
    BY <1>3 DEF ListedOnce
  <2>3. index + 0 = index /\ index \in Nat /\ index <= n - 1
    BY <1>2, <1>7
  <2>4. \A l \in Level : l >= level => NoDup(q2[l])
    BY <1>5, <1>6, <2>2
  <2>5. \A l \in Level : l > level => q2[l] # <<>>
    <3> SUFFICES ASSUME NEW l \in Level, l > level PROVE q2[l] # <<>>
      OBVIOUS
    <3>1. l # level
      BY <1>2
    <3> QED BY <1>6, <2>1, <3>1
  <2>6. Len(q2[level]) = n - 1
    BY <1>5, <1>6
  <2> QED BY <2>3, <2>4, <2>5, <2>6
<1>9. /\ level' \in Level /\ level' >= level /\ slice' \in Nat \ {0}
      /\ index' \in 0 .. NProc
      /\ phase' \in {"level", "sort"}
      /\ LoopsAreInside' /\ ListedOnce'
      /\ \A p \in Process : \A l \in Level : \A j \in Nat :
            Waits(p, l, j)' <=> /\ l >= level /\ j \in 1 .. Len(q2[l])
                                /\ l = level => j > index
                                /\ q2[l][j] = p
  <2>1. NextLevel(q2, index)
    BY <1>1, <1>8
  <2>2. TypeOK /\ phase = "level" /\ level < Last /\ queues' = q2
    BY <1>1, <1>2, <1>3
  <2>3. q2 \in [Level -> Seq(Process)] /\ index \in Nat /\ index <= Len(q2[level])
    BY <1>6, <1>8
  <2>4. /\ \A l \in Level : l > level => q2[l] # <<>>
        /\ \A l \in Level : l >= level => NoDup(q2[l])
    BY <1>8
  <2> QED BY ONLY <2>1, <2>2, <2>3, <2>4, NextLevelStep
<1>10. \A p \in Process : \A l \in Level : \A j \in Nat :
          Waits(p, l, j)' <=> p # p0 /\ Waits(p, l, j + from[l])
  <2> SUFFICES ASSUME NEW p \in Process, NEW l \in Level, NEW j \in Nat
               PROVE  Waits(p, l, j)' <=> p # p0 /\ Waits(p, l, j + from[l])
    OBVIOUS
  <2>1. Waits(p, l, j)' <=> /\ l >= level /\ j \in 1 .. Len(q2[l])
                            /\ l = level => j > index
                            /\ q2[l][j] = p
    BY <1>9
  <2>2. CASE l # level
    <3>1. j + from[l] = j /\ q2[l] = queues[l]
      BY <1>6, <2>2
    <3>2. Waits(p, l, j) <=> l >= level /\ j \in 1 .. Len(queues[l]) /\ queues[l][j] = p
      BY <2>2 DEF Waits
    <3>3. ~ Waits(p0, l, j)
      BY <1>2, <1>3, <1>7, <2>2 DEF WaitsOnce
    <3> QED BY <2>1, <2>2, <3>1, <3>2, <3>3
  <2>3. CASE l = level
    <3>1. j + from[l] = j + 1
      BY <2>3
    <3>2. Waits(p, l, j + 1) <=> j + 1 \in 1 .. n /\ j + 1 > index /\ queues[level][j + 1] = p
      BY <1>1, <1>2, <1>7, <2>3 DEF Waits
    <3>3. queues[level][index + 1] = p0
      BY <1>2 DEF Waits
    <3>4. \A x \in 1 .. n : queues[level][x] = p0 => x = index + 1
      BY <1>2, <1>4, <1>7, <3>3 DEF NoDup
    <3>5. Waits(p, l, j)' <=> j \in 1 .. n - 1 /\ j > index /\ queues[level][j + 1] = p
      <4>1. l >= level /\ Len(q2[l]) = n - 1
        BY <1>2, <1>5, <1>6, <2>3
      <4>2. j \in 1 .. n - 1 /\ j > index => q2[l][j] = queues[level][j + 1]
        BY <1>2, <1>5, <1>6, <2>3
      <4> QED BY <2>1, <2>3, <4>1, <4>2
    <3>6. index \in Nat /\ n \in Nat
      BY <1>2, <1>7
    <3>7. CASE j = index
      BY <3>1, <3>2, <3>3, <3>5, <3>6, <3>7
    <3>8. CASE j # index
      <4>1. j + 1 \in 1 .. n => j + 1 # index + 1 /\ (j + 1 > index <=> j > index)
        BY <3>6, <3>8
      <4>2. j > index => (j \in 1 .. n - 1 <=> j + 1 \in 1 .. n)
        BY <3>6
      <4>3. p = p0 => ~ Waits(p, l, j + 1) /\ ~ Waits(p, l, j)'
        BY <3>2, <3>4, <3>5, <4>1, <4>2
      <4> QED BY <3>1, <3>2, <3>5, <4>1, <4>2, <4>3
    <3> QED BY <3>7, <3>8
  <2> QED BY <2>2, <2>3
<1>11. TypeOK'
  <2>1. left' \in [Process -> 0 .. MaxServe]
    BY <1>1, <1>2
  <2>2. queues' \in [Level -> Seq(Process)]
    BY <1>1, <1>6
  <2> QED BY <1>1, <1>3, <1>9, <2>1, <2>2 DEF TypeOK
<1>12. \A l \in Level : \A j \in Nat : j + from[l] \in Nat
  OBVIOUS
<1>13. WaitsOnce'
  <2> SUFFICES ASSUME NEW p \in Process, NEW l \in Level, NEW k \in Level,
                      NEW a \in Nat, NEW b \in Nat, Waits(p, l, a)', Waits(p, k, b)'
               PROVE  l = k /\ a = b
    BY DEF WaitsOnce
  <2>1. Waits(p, l, a + from[l]) /\ Waits(p, k, b + from[k])
    BY <1>10
  <2>2. l = k /\ a + from[l] = b + from[k]
    BY <1>3, <1>12, <2>1 DEF WaitsOnce
  <2> QED BY <2>2
<1>14. WaitsIfUnserved'
  <2> SUFFICES ASSUME NEW p \in Process
               PROVE  left'[p] > 0 <=> \E l \in Level : \E j \in Nat : Waits(p, l, j)'
    BY DEF WaitsIfUnserved
  <2>1. CASE p = p0
    BY <1>1, <1>2, <1>10, <2>1
  <2>2. CASE p # p0
    <3>1. left'[p] = left[p]
      BY <1>1, <1>2, <2>2
    <3>2. ASSUME NEW l \in Level, NEW j \in Nat, Waits(p, l, j)
          PROVE  \E b \in Nat : Waits(p, l, b)'
      <4>1. j - from[l] \in Nat /\ (j - from[l]) + from[l] = j
        BY <3>2 DEF Waits
      <4>2. PICK b \in Nat : b + from[l] = j
        BY <4>1
      <4>3. Waits(p, l, b)'
        BY <1>10, <2>2, <3>2, <4>2
      <4> QED BY <4>3
    <3>3. ASSUME NEW l \in Level, NEW j \in Nat, Waits(p, l, j)'
          PROVE  \E b \in Nat : Waits(p, l, b)
      BY <1>10, <1>12, <3>3
    <3> QED BY <1>3, <3>1, <3>2, <3>3 DEF WaitsIfUnserved
  <2> QED BY <2>1, <2>2
<1>15. InTurn'
  <2> SUFFICES ASSUME NEW p \in Process, NEW r \in Process, NEW l \in Level, NEW k \in Level,
                      NEW a \in Nat, NEW b \in Nat,
                      p < r, home[p] = home[r], Waits(p, l, a)', Waits(r, k, b)'
               PROVE  k < l \/ (k = l /\ a < b)
    BY <1>1 DEF InTurn
  <2>1. Waits(p, l, a + from[l]) /\ Waits(r, k, b + from[k])
    BY <1>10
  <2>2. k < l \/ (k = l /\ a + from[l] < b + from[k])
    BY <1>1, <1>3, <1>12, <2>1 DEF InTurn
  <2> QED BY <2>2
<1>16. RoundIsShared'
  BY <1>9 DEF RoundIsShared
<1>17. SchedulerInv'
  BY <1>9, <1>11, <1>13, <1>14, <1>15, <1>16 DEF SchedulerInv
<1>18. ASSUME NEW p \in Process, NEW l \in Level, NEW j \in Nat, Waits(p, l, j)'
       PROVE  p # p0 /\ \E k \in Nat : Waits(p, l, k)
  <2>1. p # p0 /\ Waits(p, l, j + from[l]) /\ j + from[l] \in Nat
    BY <1>10, <1>12, <1>18
  <2> QED BY <2>1
<1> QED BY <1>17, <1>18 DEF p0

\* When one list is left, its processes are the ones that wait.
LEMMA OneListLeft ==
  ASSUME level' = Last, phase' \in {"rr", "ended"},
         queues' \in [Level -> Seq(Process)], NoDup(queues'[Last]),
         \A p \in Process :
            left'[p] > 0 <=> \E j \in 1 .. Len(queues'[Last]) : queues'[Last][j] = p
  PROVE  ListedOnce' /\ WaitsOnce' /\ WaitsIfUnserved' /\ InTurn'
<1>1. \A l \in Level : l >= Last <=> l = Last
  BY ConstantsAssumption DEF Level, Last
<1>2. Len(queues'[Last]) \in Nat
  BY Processes
<1>3. \A p \in Process : \A l \in Level : \A j \in Nat :
         Waits(p, l, j)' <=> l = Last /\ j \in 1 .. Len(queues'[Last]) /\ queues'[Last][j] = p
  <2> SUFFICES ASSUME NEW p \in Process, NEW l \in Level, NEW j \in Nat
               PROVE  Waits(p, l, j)' <=> /\ l = Last /\ j \in 1 .. Len(queues'[Last])
                                          /\ queues'[Last][j] = p
    OBVIOUS
  <2>1. Waits(p, l, j)' <=> l >= Last /\ j \in 1 .. Len(queues'[l]) /\ queues'[l][j] = p
    BY DEF Waits
  <2> QED BY <1>1, <2>1
<1>4. ListedOnce'
  BY <1>1 DEF ListedOnce, Last, Level
<1>5. WaitsOnce'
  BY <1>3 DEF WaitsOnce, NoDup
<1>6. WaitsIfUnserved'
  <2> SUFFICES ASSUME NEW p \in Process
               PROVE  left'[p] > 0 <=> \E l \in Level : \E j \in Nat : Waits(p, l, j)'
    BY DEF WaitsIfUnserved
  <2>1. (\E l \in Level : \E j \in Nat : Waits(p, l, j)')
          <=> \E j \in 1 .. Len(queues'[Last]) : queues'[Last][j] = p
    <3>1. ASSUME NEW j \in 1 .. Len(queues'[Last]), queues'[Last][j] = p
          PROVE  \E l \in Level : \E b \in Nat : Waits(p, l, b)'
      <4>1. PICK l \in Level, b \in Nat : l = Last /\ b = j
        BY <1>2, Processes
      <4> QED BY <1>3, <3>1, <4>1
    <3>2. ASSUME NEW l \in Level, NEW j \in Nat, Waits(p, l, j)'
          PROVE  \E b \in 1 .. Len(queues'[Last]) : queues'[Last][b] = p
      BY <1>3, <3>2
    <3> QED BY <3>1, <3>2
  <2> QED BY <2>1
<1>7. InTurn'
  BY DEF InTurn
<1> QED BY <1>4, <1>5, <1>6, <1>7

\* What the steps of RR begin with
LEMMA AtLast ==
  ASSUME SchedulerInv, phase \in {"sort", "rr"}
  PROVE  /\ Last \in Level /\ level = Last /\ queues \in [Level -> Seq(Process)]
         /\ queues[Last] \in Seq(Process) /\ Len(queues[Last]) \in Nat /\ NoDup(queues[Last])
         /\ index \in 0 .. Len(queues[Last]) - 1 /\ Len(queues[Last]) <= NProc
         /\ index + 1 \in 1 .. Len(queues[Last])
         /\ \A p \in Process :
               left[p] > 0 <=> \E j \in 1 .. Len(queues[Last]) : queues[Last][j] = p
         /\ left \in [Process -> 0 .. MaxServe] /\ slice \in Nat \ {0} /\ MaxServe \in Nat
         /\ \A l \in Level : ~ (l > Last)
<1>1. TypeOK /\ LoopsAreInside /\ ListedOnce /\ WaitsIfUnserved
  BY DEF SchedulerInv
<1>2. /\ Last \in Level /\ \A l \in Level : ~ (l > Last) /\ (l >= Last <=> l = Last)
  BY ConstantsAssumption DEF Level, Last
<1>3. /\ level = Last /\ queues \in [Level -> Seq(Process)]
      /\ left \in [Process -> 0 .. MaxServe] /\ slice \in Nat \ {0} /\ index \in Nat
  BY <1>1 DEF TypeOK, LoopsAreInside
<1>4. queues[Last] \in Seq(Process) /\ Len(queues[Last]) \in Nat
  BY <1>2, <1>3
<1>5. NoDup(queues[Last])
  BY <1>1, <1>2, <1>3 DEF ListedOnce
<1>6. Len(queues[Last]) <= NProc
  BY <1>4, <1>5, ShortList
<1>7. index < Len(queues[Last])
  <2>1. queues[Last] # <<>> => Len(queues[Last]) > 0
    BY <1>4
  <2> QED BY <1>1, <2>1 DEF LoopsAreInside
<1>8. ASSUME NEW p \in Process
      PROVE  left[p] > 0 <=> \E j \in 1 .. Len(queues[Last]) : queues[Last][j] = p
  <2>1. \A l \in Level : \A j \in Nat :
           Waits(p, l, j) <=> l = Last /\ j \in 1 .. Len(queues[Last]) /\ queues[Last][j] = p
    BY <1>2, <1>3 DEF Waits
  <2>2. \A j \in 1 .. Len(queues[Last]) : j \in Nat
    BY <1>4
  <2>3. left[p] > 0 <=> \E l \in Level : \E j \in Nat : Waits(p, l, j)
    BY <1>1 DEF WaitsIfUnserved
  <2> QED BY <1>2, <2>1, <2>2, <2>3
<1>9. index \in 0 .. Len(queues[Last]) - 1 /\ index + 1 \in 1 .. Len(queues[Last])
  BY <1>3, <1>4, <1>7
<1> QED BY <1>2, <1>3, <1>4, <1>5, <1>6, <1>8, <1>9, ConstantsAssumption

\* RR begins: sorted or not, the list holds the same processes.
LEMMA RRSortStep ==
  ASSUME SchedulerInv, RRSort
  PROVE  /\ SchedulerInv'
         /\ order' \in Seq(Process) /\ NoDup(order') /\ order' = queues'[Last]
         /\ \A k \in 1 .. Len(order') : left'[order'[k]] > 0
<1> DEFINE q == queues[Last]
           r == queues'[Last]
<1>1. /\ phase = "sort" /\ phase' = "rr" /\ base' = left
      /\ arrive' = IF global THEN arrive ELSE Numbered(q)
      /\ queues' = [queues EXCEPT ![Last] = IF global THEN Sorted(q, arrive) ELSE q]
      /\ order' = Sorted(q, arrive')
      /\ UNCHANGED <<serve, global, home, left, finish, slice, level, index, clock>>
  BY DEF RRSort, RRBegins
<1>2. /\ Last \in Level /\ level = Last /\ queues \in [Level -> Seq(Process)]
      /\ q \in Seq(Process) /\ Len(q) \in Nat /\ NoDup(q)
      /\ index \in 0 .. Len(q) - 1 /\ Len(q) <= NProc
      /\ \A p \in Process : left[p] > 0 <=> \E j \in 1 .. Len(q) : q[j] = p
      /\ left \in [Process -> 0 .. MaxServe]
      /\ \A l \in Level : ~ (l > Last)
  BY <1>1, AtLast
<1>3. TypeOK /\ LoopsAreInside
  BY DEF SchedulerInv
<1>4. /\ queues' \in [Level -> Seq(Process)]
      /\ r \in Seq(Process) /\ Len(r) = Len(q) /\ NoDup(r)
      /\ \A j \in 1 .. Len(q) : \E k \in 1 .. Len(q) : r[k] = q[j]
      /\ \A k \in 1 .. Len(q) : \E j \in 1 .. Len(q) : r[k] = q[j]
      /\ order' = r /\ arrive' \in [Process -> Nat]
  <2>0. arrive \in [Process -> Nat] /\ global \in BOOLEAN
    BY <1>3 DEF TypeOK
  <2>1. CASE global
    <3>1. PICK at : at = arrive
      OBVIOUS
    <3>2. /\ Sorted(q, at) \in Seq(Process) /\ Len(Sorted(q, at)) = Len(q) /\ NoDup(Sorted(q, at))
          /\ \A j \in 1 .. Len(q) : \E k \in 1 .. Len(q) : Sorted(q, at)[k] = q[j]
          /\ \A k \in 1 .. Len(q) : \E j \in 1 .. Len(q) : Sorted(q, at)[k] = q[j]
      <4>1. at \in [Process -> Nat]
        BY <2>0, <3>1
      <4>2. q \in Seq(Process) /\ NoDup(q)
        BY <1>2
      <4> HIDE DEF q
      <4> QED BY ONLY <4>1, <4>2, SortedIsList
    <3>3. /\ r = Sorted(q, at) /\ queues' = [queues EXCEPT ![Last] = Sorted(q, at)]
          /\ arrive' = arrive /\ order' = Sorted(q, at)
      BY <1>1, <1>2, <2>1, <3>1
    <3> HIDE DEF q, r
    <3> QED BY <1>2, <2>0, <3>2, <3>3
  <2>2. CASE ~ global
    <3>1. Numbered(q) \in [Process -> Nat] /\ Sorted(q, Numbered(q)) = q
      BY <1>2, <2>0, NumberedIsSorted
    <3>2. r = q /\ queues' = queues /\ arrive' = Numbered(q) /\ order' = Sorted(q, arrive')
      BY <1>1, <1>2, <2>2
    <3>3. order' = q
      BY <3>1, <3>2
    <3> QED BY <1>2, <3>1, <3>2, <3>3
  <2> QED BY <2>0, <2>1, <2>2
<1> HIDE DEF q
<1>5. \A p \in Process : left'[p] > 0 <=> \E j \in 1 .. Len(r) : r[j] = p
  <2> HIDE DEF r
  <2> SUFFICES ASSUME NEW p \in Process
               PROVE  (\E j \in 1 .. Len(q) : q[j] = p) <=> \E j \in 1 .. Len(r) : r[j] = p
    BY <1>1, <1>2
  <2> QED BY <1>4
<1>6. ListedOnce' /\ WaitsOnce' /\ WaitsIfUnserved' /\ InTurn'
  BY <1>1, <1>2, <1>4, <1>5, OneListLeft
<1>7. TypeOK'
  BY <1>1, <1>2, <1>3, <1>4 DEF TypeOK
<1>8. LoopsAreInside'
  <2>1. Last' = Last
    BY DEF Last
  <2>2. index' < Len(r)
    <3>1. index' = index /\ Len(r) = Len(q)
      BY <1>1, <1>4
    <3> HIDE DEF r
    <3> QED BY <1>2, <3>1
  <2> QED BY <1>1, <1>2, <2>1, <2>2 DEF LoopsAreInside
<1>9. RoundIsShared'
  <2>1. \A j \in 1 .. Len(r) : left[r[j]] \in Int
    <3> SUFFICES ASSUME NEW j \in 1 .. Len(r) PROVE left[r[j]] \in Int
      OBVIOUS
    <3>0. r \in Seq(Process)
      BY <1>4
    <3> HIDE DEF r
    <3>1. r[j] \in Process
      BY <3>0
    <3> QED BY <1>2, <3>1
  <2>2. \A j \in 1 .. Len(r) : ~ (j <= index')
    BY <1>1, <1>2, <1>3, <1>4 DEF LoopsAreInside
  <2>3. \A j \in 1 .. Len(r) :
           base'[r[j]] - left'[r[j]] = IF j <= index' THEN 0 + slice' ELSE 0
    BY <1>1, <2>1, <2>2
  <2>4. 0 \in Int
    OBVIOUS
  <2> QED BY <2>3, <2>4 DEF RoundIsShared, Last
<1>10. SchedulerInv'
  BY <1>6, <1>7, <1>8, <1>9 DEF SchedulerInv
<1>11. order' = r /\ r \in Seq(Process) /\ NoDup(r)
  BY <1>4
<1>12. \A k \in 1 .. Len(r) : left'[r[k]] > 0
  <2>1. \A k \in 1 .. Len(r) : r[k] \in Process
    BY <1>11
  <2> HIDE DEF r
  <2> QED BY <1>5, <2>1
<1> QED BY <1>10, <1>11, <1>12

\* A slice: index goes on to the next one, or back to the first, where a new round
\* begins.
LEMMA RRSliceStep ==
  ASSUME SchedulerInv, RRSlice
  PROVE  SchedulerInv'
<1> DEFINE q == queues[Last]
           n == Len(q)
           p0 == q[index + 1]
<1>1. /\ Last \in Level /\ level = Last /\ queues \in [Level -> Seq(Process)]
      /\ q \in Seq(Process) /\ n \in Nat /\ NoDup(q)
      /\ index \in 0 .. n - 1 /\ n <= NProc /\ index + 1 \in 1 .. n
      /\ \A p \in Process : left[p] > 0 <=> \E j \in 1 .. n : q[j] = p
      /\ left \in [Process -> 0 .. MaxServe] /\ slice \in Nat \ {0} /\ MaxServe \in Nat
      /\ \A l \in Level : ~ (l > Last)
  <2>1. phase \in {"sort", "rr"}
    BY DEF RRSlice, RRServe
  <2> QED BY <2>1, AtLast
<1>2. index % n = index /\ (index + 1) % n = IF index + 1 = n THEN 0 ELSE index + 1
  <2> HIDE DEF n
  <2> QED BY <1>1, Around
<1>3. Scheduled = p0
  BY <1>2 DEF Scheduled
<1>4. /\ phase = "rr" /\ left[p0] > slice
      /\ left' = [left EXCEPT ![p0] = @ - slice]
      /\ index' = IF index + 1 = n THEN 0 ELSE index + 1
      /\ clock' = clock + slice
      /\ UNCHANGED <<serve, arrive, global, home, finish, queues, slice, level, phase, base, order>>
  BY <1>2, <1>3 DEF RRSlice, RRServe
<1>5. TypeOK /\ LoopsAreInside /\ RoundIsShared
  BY DEF SchedulerInv
<1>6. p0 \in Process /\ \A j \in 1 .. n : q[j] \in Process
  BY <1>1
<1>7. \A j \in 1 .. n : q[j] = p0 <=> j = index + 1
  BY <1>1 DEF NoDup
<1>8. PICK g \in Int : \A j \in 1 .. n :
         base[q[j]] - left[q[j]] = IF j <= index THEN g + slice ELSE g
  BY <1>4, <1>5 DEF RoundIsShared
<1>9. \A p \in Process : base[p] \in Int /\ left[p] \in Int
  BY <1>5 DEF TypeOK
<1> HIDE DEF q, n, p0
<1>10. left' \in [Process -> 0 .. MaxServe]
  BY <1>1, <1>4, <1>6
<1>11. ListedOnce' /\ WaitsOnce' /\ WaitsIfUnserved' /\ InTurn'
  <2>1. \A p \in Process : left'[p] > 0 <=> left[p] > 0
    BY <1>1, <1>4, <1>6
  <2>2. \A p \in Process :
           left'[p] > 0 <=> \E j \in 1 .. Len(queues'[Last]) : queues'[Last][j] = p
    BY <1>1, <1>4, <2>1 DEF q, n
  <2>3. /\ level' = Last /\ phase' \in {"rr", "ended"}
        /\ queues' \in [Level -> Seq(Process)] /\ NoDup(queues'[Last])
    BY <1>1, <1>4 DEF q
  <2> QED BY <2>2, <2>3, OneListLeft
<1>12. index' \in 0 .. n - 1
  BY <1>1, <1>4
<1>13. TypeOK'
  <2>1. clock' \in Nat /\ index' \in 0 .. NProc
    BY <1>1, <1>4, <1>5, <1>12, Processes DEF TypeOK
  <2> QED BY <1>4, <1>5, <1>10, <2>1 DEF TypeOK
<1>14. LoopsAreInside'
  <2>1. index' < Len(queues'[Last])
    BY <1>1, <1>4, <1>12 DEF n, q
  <2> QED BY <1>1, <1>4, <2>1 DEF LoopsAreInside, Last, Level
<1>15. RoundIsShared'
  <2>1. ASSUME NEW j \in 1 .. n
        PROVE  base'[q[j]] - left'[q[j]] = IF j <= index + 1 THEN g + slice ELSE g
    <3>1. CASE j = index + 1
      <4>1. q[j] = p0 /\ base[p0] - left[p0] = g
        <5>1. q[index + 1] = p0
          BY DEF p0
        <5> QED BY <1>1, <1>7, <1>8, <3>1, <5>1
      <4>2. left'[p0] = left[p0] - slice
        BY <1>1, <1>4, <1>6
      <4>3. /\ base' = base /\ j <= index + 1 /\ g \in Int /\ slice \in Int
            /\ base[p0] \in Int /\ left[p0] \in Int
        BY <1>1, <1>4, <1>6, <1>9, <3>1
      <4>4. base[p0] - (left[p0] - slice) = g + slice
        BY <4>1, <4>3
      <4> QED BY <4>1, <4>2, <4>3, <4>4
    <3>2. CASE j # index + 1
      <4>1. left'[q[j]] = left[q[j]]
        BY <1>1, <1>4, <1>6, <1>7, <3>2
      <4> QED BY <1>1, <1>4, <1>8, <3>2, <4>1
    <3> QED BY <3>1, <3>2
  <2>2. CASE index + 1 = n
    <3>1. \A j \in 1 .. n :
             base'[q[j]] - left'[q[j]] = IF j <= index' THEN (g + slice) + slice ELSE g + slice
      BY <1>1, <1>4, <2>1, <2>2
    <3>2. g + slice \in Int
      BY <1>1
    <3> QED BY <1>4, <3>1, <3>2 DEF RoundIsShared, q, n, Last
  <2>3. CASE index + 1 # n
    <3>1. \A j \in 1 .. n :
             base'[q[j]] - left'[q[j]] = IF j <= index' THEN g + slice ELSE g
      BY <1>1, <1>4, <2>1, <2>3
    <3> QED BY <1>4, <3>1 DEF RoundIsShared, q, n, Last
  <2> QED BY <2>2, <2>3
<1> QED BY <1>11, <1>13, <1>14, <1>15 DEF SchedulerInv

\* The last slice of a process: it leaves the list, and index names the one that
\* moved up, or the first.
LEMMA RRFinishStep ==
  ASSUME SchedulerInv, RRFinish
  PROVE  SchedulerInv'
<1> DEFINE q == queues[Last]
           n == Len(q)
           p0 == q[index + 1]
           r == Removed(q, index)
<1>1. /\ Last \in Level /\ level = Last /\ queues \in [Level -> Seq(Process)]
      /\ q \in Seq(Process) /\ n \in Nat /\ NoDup(q)
      /\ index \in 0 .. n - 1 /\ n <= NProc /\ index + 1 \in 1 .. n
      /\ \A p \in Process : left[p] > 0 <=> \E j \in 1 .. n : q[j] = p
      /\ left \in [Process -> 0 .. MaxServe] /\ slice \in Nat \ {0} /\ MaxServe \in Nat
      /\ \A l \in Level : ~ (l > Last)
  <2>1. phase \in {"sort", "rr"}
    BY DEF RRFinish, RRLeave
  <2> QED BY <2>1, AtLast
<1>2. index % n = index
  <2> HIDE DEF n
  <2> QED BY <1>1, Around
<1>3. Scheduled = p0 /\ Rest = r
  BY <1>2 DEF Scheduled, Rest
<1>4. /\ phase = "rr" /\ left[p0] <= slice
      /\ clock' = clock + left[p0]
      /\ left' = [left EXCEPT ![p0] = 0] /\ finish' = [finish EXCEPT ![p0] = clock']
      /\ queues' = [queues EXCEPT ![Last] = r]
      /\ IF r = <<>> THEN phase' = "ended" /\ index' = index
         ELSE phase' = phase /\ index' = (index + 0) % Len(r)
      /\ UNCHANGED <<serve, arrive, global, home, slice, level, base, order>>
  BY <1>3 DEF RRFinish, RRLeave
<1>5. /\ r \in Seq(Process) /\ Len(r) = n - 1 /\ NoDup(r)
      /\ \A j \in 1 .. n - 1 : r[j] = IF j <= index THEN q[j] ELSE q[j + 1]
  BY <1>1, RemovedIsList
<1>6. TypeOK /\ LoopsAreInside /\ RoundIsShared
  BY DEF SchedulerInv
<1>7. p0 \in Process /\ \A j \in 1 .. n : q[j] \in Process
  BY <1>1
<1>8. \A j \in 1 .. n : q[j] = p0 <=> j = index + 1
  BY <1>1 DEF NoDup
<1>9. PICK g \in Int : \A j \in 1 .. n :
         base[q[j]] - left[q[j]] = IF j <= index THEN g + slice ELSE g
  BY <1>4, <1>6 DEF RoundIsShared
<1>10. \A p \in Process : base[p] \in Int /\ left[p] \in Int
  BY <1>6 DEF TypeOK
<1> HIDE DEF q, n, p0, r
<1>11. queues' \in [Level -> Seq(Process)] /\ queues'[Last] = r
  BY <1>1, <1>4, <1>5
<1>12. r = <<>> <=> n = 1
  BY <1>1, <1>5
<1>13. r # <<>> => index' = IF index = n - 1 THEN 0 ELSE index
  <2> SUFFICES ASSUME r # <<>> PROVE index' = IF index = n - 1 THEN 0 ELSE index
    OBVIOUS
  <2>1. index' = (index + 0) % (n - 1) /\ index + 0 = index /\ n - 1 \in Nat \ {0}
    BY <1>1, <1>4, <1>5, <1>12
  <2>2. CASE index = n - 1
    <3>1. n - 2 \in 0 .. (n - 1) - 1 /\ (n - 2) + 1 = n - 1
      BY <1>1, <2>1
    <3>2. (n - 1) % (n - 1) = 0
      BY <2>1, <3>1, Around
    <3> QED BY <2>1, <2>2, <3>2
  <2>3. CASE index # n - 1
    <3>1. index \in 0 .. (n - 1) - 1
      BY <1>1, <2>3
    <3>2. index % (n - 1) = index
      BY <2>1, <3>1, Around
    <3> QED BY <2>1, <2>3, <3>2
  <2> QED BY <2>2, <2>3
<1>14. r = <<>> => index' = 0
  BY <1>1, <1>4, <1>12
<1>15. \A p \in Process : left'[p] > 0 <=> \E j \in 1 .. Len(r) : r[j] = p
  <2> SUFFICES ASSUME NEW p \in Process
               PROVE  left'[p] > 0 <=> \E j \in 1 .. n - 1 : r[j] = p
    BY <1>5
  <2>1. CASE p = p0
    <3>1. ~ (left'[p] > 0)
      BY <1>1, <1>4, <1>7, <2>1
    <3>2. \A j \in 1 .. n - 1 : r[j] # p0
      <4> SUFFICES ASSUME NEW j \in 1 .. n - 1 PROVE r[j] # p0
        OBVIOUS
      <4>1. CASE j <= index
        <5>1. r[j] = q[j] /\ j \in 1 .. n /\ j # index + 1
          BY <1>1, <1>5, <4>1
        <5> QED BY <1>8, <5>1
      <4>2. CASE ~ (j <= index)
        <5>1. r[j] = q[j + 1] /\ j + 1 \in 1 .. n /\ j + 1 # index + 1
          BY <1>1, <1>5, <4>2
        <5> QED BY <1>8, <5>1
      <4> QED BY <4>1, <4>2
    <3> QED BY <2>1, <3>1, <3>2
  <2>2. CASE p # p0
    <3>1. left'[p] = left[p]
      BY <1>1, <1>4, <1>7, <2>2
    <3>2. ASSUME NEW j \in 1 .. n, q[j] = p
          PROVE  \E k \in 1 .. n - 1 : r[k] = p
      <4>1. j # index + 1
        BY <1>8, <2>2, <3>2
      <4>2. CASE j <= index
        <5>1. j \in 1 .. n - 1
          BY <1>1, <4>2
        <5> QED BY <1>5, <3>2, <4>2, <5>1
      <4>3. CASE ~ (j <= index)
        <5>1. j - 1 \in 1 .. n - 1 /\ ~ (j - 1 <= index) /\ (j - 1) + 1 = j
          BY <1>1, <4>1, <4>3
        <5>2. r[j - 1] = q[j]
          BY <1>5, <5>1
        <5> QED BY <3>2, <5>1, <5>2
      <4> QED BY <4>2, <4>3
    <3>3. ASSUME NEW k \in 1 .. n - 1, r[k] = p
          PROVE  \E j \in 1 .. n : q[j] = p
      <4>1. k \in 1 .. n /\ k + 1 \in 1 .. n
        BY <1>1
      <4> QED BY <1>5, <3>3, <4>1
    <3> QED BY <1>1, <3>1, <3>2, <3>3
  <2> QED BY <2>1, <2>2
<1>16. ListedOnce' /\ WaitsOnce' /\ WaitsIfUnserved' /\ InTurn'
  <2>1. level' = Last /\ phase' \in {"rr", "ended"} /\ NoDup(queues'[Last])
    BY <1>1, <1>4, <1>5, <1>11
  <2> QED BY <1>11, <1>15, <2>1, OneListLeft
<1>17. index' \in 0 .. NProc /\ (r # <<>> => index' < Len(r))
  BY <1>1, <1>5, <1>12, <1>13, <1>14, Processes
<1>18. TypeOK'
  <2>1. left[p0] \in Nat /\ left' \in [Process -> 0 .. MaxServe]
    BY <1>1, <1>4, <1>7
  <2>2. clock' \in Nat
    BY <1>4, <1>6, <2>1 DEF TypeOK
  <2>3. finish' \in [Process -> Nat]
    BY <1>4, <1>6, <2>2 DEF TypeOK
  <2> QED BY <1>4, <1>6, <1>11, <1>17, <2>1, <2>2, <2>3 DEF TypeOK
<1>19. LoopsAreInside'
  <2>1. CASE r = <<>>
    BY <1>1, <1>4, <1>11, <1>14, <2>1 DEF LoopsAreInside, Last, Level
  <2>2. CASE r # <<>>
    BY <1>1, <1>4, <1>11, <1>17, <2>2 DEF LoopsAreInside, Last, Level
  <2> QED BY <2>1, <2>2
<1>20. RoundIsShared'
  <2> SUFFICES ASSUME phase' = "rr"
               PROVE  \E h \in Int : \A j \in 1 .. Len(r) :
                         base[r[j]] - left'[r[j]] = IF j <= index' THEN h + slice ELSE h
    BY <1>4, <1>11 DEF RoundIsShared, Last
  <2>1. r # <<>>
    BY <1>4
  <2>2. ASSUME NEW j \in 1 .. n - 1
        PROVE  base[r[j]] - left'[r[j]] = IF j <= index THEN g + slice ELSE g
    <3>1. PICK k \in 1 .. n : r[j] = q[k] /\ k # index + 1 /\ (k <= index <=> j <= index)
      <4>1. CASE j <= index
        <5>1. j \in 1 .. n /\ j # index + 1
          BY <1>1, <4>1
        <5> QED BY <1>5, <4>1, <5>1
      <4>2. CASE ~ (j <= index)
        <5>1. j + 1 \in 1 .. n /\ j + 1 # index + 1 /\ ~ (j + 1 <= index)
          BY <1>1, <4>2
        <5> QED BY <1>5, <4>2, <5>1
      <4> QED BY <4>1, <4>2
    <3>2. left'[q[k]] = left[q[k]]
      BY <1>1, <1>4, <1>7, <1>8, <3>1
    <3> QED BY <1>9, <3>1, <3>2
  <2>3. CASE index = n - 1
    <3>1. \A j \in 1 .. n - 1 :
             base[r[j]] - left'[r[j]] = IF j <= index' THEN (g + slice) + slice ELSE g + slice
      BY <1>1, <1>13, <2>1, <2>2, <2>3
    <3>2. g + slice \in Int
      BY <1>1
    <3> QED BY <1>5, <3>1, <3>2
  <2>4. CASE index # n - 1
    <3>1. index' = index
      BY <1>13, <2>1, <2>4
    <3> QED BY <1>5, <2>2, <3>1
  <2> QED BY <2>3, <2>4
<1> QED BY <1>16, <1>18, <1>19, <1>20 DEF SchedulerInv

\* Every turn of a loop keeps the invariant.
LEMMA SchedulerStep ==
  ASSUME SchedulerInv, [Next]_vars
  PROVE  SchedulerInv'
<1>1. CASE Demote
  BY <1>1, DemoteStep
<1>2. CASE Complete
  BY <1>2, CompleteStep
<1>3. CASE RRSort
  BY <1>3, RRSortStep
<1>4. CASE RRSlice
  BY <1>4, RRSliceStep
<1>5. CASE RRFinish
  BY <1>5, RRFinishStep
<1>6. CASE UNCHANGED vars
  <2>1. /\ TypeOK' = TypeOK /\ LoopsAreInside' = LoopsAreInside
        /\ ListedOnce' = ListedOnce /\ RoundIsShared' = RoundIsShared
    BY <1>6 DEF vars, TypeOK, LoopsAreInside, ListedOnce, RoundIsShared, Last, Level, Process
  <2>2. \A p \in Process : \A l \in Level : \A j \in Nat : Waits(p, l, j)' <=> Waits(p, l, j)
    BY <1>6 DEF vars, Waits
  <2>3. WaitsOnce' /\ WaitsIfUnserved' /\ InTurn'
    BY <1>6, <2>2 DEF SchedulerInv, vars, WaitsOnce, WaitsIfUnserved, InTurn
  <2> QED BY <2>1, <2>3 DEF SchedulerInv
<1> QED BY <1>1, <1>2, <1>3, <1>4, <1>5, <1>6 DEF Next

\* Of two processes in RR's list one is in the part of the round that is served, or
\* both are in the same part: a slice at most is between them.
LEMMA RoundGivesShares ==
  ASSUME SchedulerInv
  PROVE  SlicesAreShared
<1> SUFFICES ASSUME phase = "rr", NEW j \in DOMAIN queues[Last], NEW k \in DOMAIN queues[Last]
             PROVE  (base[queues[Last][j]] - left[queues[Last][j]])
                      - (base[queues[Last][k]] - left[queues[Last][k]]) <= slice
  BY DEF SlicesAreShared
<1>1. RoundIsShared /\ queues[Last] \in Seq(Process) /\ slice \in Nat \ {0}
  BY AtLast DEF SchedulerInv
<1>2. j \in 1 .. Len(queues[Last]) /\ k \in 1 .. Len(queues[Last])
  BY <1>1
<1>3. PICK g \in Int : \A m \in 1 .. Len(queues[Last]) :
         base[queues[Last][m]] - left[queues[Last][m]] = IF m <= index THEN g + slice ELSE g
  BY <1>1 DEF RoundIsShared
<1>4. /\ base[queues[Last][j]] - left[queues[Last][j]] \in {g, g + slice}
      /\ base[queues[Last][k]] - left[queues[Last][k]] \in {g, g + slice}
  BY <1>2, <1>3
<1> QED BY <1>1, <1>3, <1>4

\* The places where a process waits, as the property counts them.
LEMMA WaitingIsWaits ==
  ASSUME SchedulerInv, NEW p \in Process
  PROVE  \A w : w \in Waiting(p) <=> \E l \in Level : \E j \in Nat : w = <<l, j>> /\ Waits(p, l, j)
<1>1. TypeOK /\ LoopsAreInside /\ ListedOnce
  BY DEF SchedulerInv
<1>2. \A l : l \in level .. Last <=> l \in Level /\ l >= level
  BY <1>1, ConstantsAssumption DEF TypeOK, Level, Last
<1>3. \A l \in Level : queues[l] \in Seq(Process) /\ Len(queues[l]) \in Nat
  BY <1>1 DEF TypeOK
<1>4. \A l \in Level : l >= level => Len(queues[l]) <= NProc
  BY <1>1, <1>3, ShortList DEF ListedOnce
<1> SUFFICES ASSUME NEW w
             PROVE  w \in Waiting(p) <=>
                       \E l \in Level : \E j \in Nat : w = <<l, j>> /\ Waits(p, l, j)
  OBVIOUS
<1>5. ASSUME w \in Waiting(p)
      PROVE  \E l \in Level : \E j \in Nat : w = <<l, j>> /\ Waits(p, l, j)
  <2>1. /\ w \in (level .. Last) \X (1 .. NProc)
        /\ w[2] \in DOMAIN queues[w[1]]
        /\ (w[1] = level /\ phase = "level") => w[2] > index
        /\ queues[w[1]][w[2]] = p
    BY <1>5 DEF Waiting
  <2>2. w = <<w[1], w[2]>> /\ w[1] \in level .. Last /\ w[2] \in 1 .. NProc
    BY <2>1
  <2>3. w[1] \in Level /\ w[1] >= level /\ w[2] \in Nat
    BY <1>2, <2>2, Processes
  <2>4. w[2] \in 1 .. Len(queues[w[1]])
    BY <1>3, <2>1, <2>3
  <2>5. Waits(p, w[1], w[2])
    BY <2>1, <2>3, <2>4 DEF Waits
  <2> QED BY <2>2, <2>3, <2>5
<1>6. ASSUME NEW l \in Level, NEW j \in Nat, w = <<l, j>>, Waits(p, l, j)
      PROVE  w \in Waiting(p)
  <2>1. /\ l >= level /\ j \in 1 .. Len(queues[l])
        /\ l = level /\ phase = "level" => j > index
        /\ queues[l][j] = p
    BY <1>6 DEF Waits
  <2>2. l \in level .. Last /\ j \in 1 .. NProc
    BY <1>2, <1>3, <1>4, <2>1, Processes
  <2>3. j \in DOMAIN queues[l]
    BY <1>3, <2>1
  <2>4. w \in (level .. Last) \X (1 .. NProc) /\ w[1] = l /\ w[2] = j
    BY <1>6, <2>2
  <2> QED BY <2>1, <2>3, <2>4 DEF Waiting
<1> QED BY <1>5, <1>6

\* One place to wait is one element of Waiting(p), and places are in turn.
LEMMA QueuesFollow ==
  ASSUME SchedulerInv
  PROVE  QueuesAreKept
<1>1. WaitsOnce /\ WaitsIfUnserved /\ InTurn /\ TypeOK
  BY DEF SchedulerInv
<1>2. ASSUME NEW p \in Process
      PROVE  Cardinality(Waiting(p)) = IF left[p] > 0 THEN 1 ELSE 0
  <2>1. \A w : w \in Waiting(p) <=>
               \E l \in Level : \E j \in Nat : w = <<l, j>> /\ Waits(p, l, j)
    BY WaitingIsWaits
  <2>2. left[p] > 0 <=> \E l \in Level : \E j \in Nat : Waits(p, l, j)
    BY <1>1 DEF WaitsIfUnserved
  <2>3. CASE left[p] > 0
    <3>1. PICK l \in Level, j \in Nat : Waits(p, l, j)
      BY <2>2, <2>3
    <3>2. \A k \in Level : \A b \in Nat : Waits(p, k, b) => k = l /\ b = j
      BY <1>1, <3>1 DEF WaitsOnce
    <3>3. Waiting(p) = {<<l, j>>}
      BY <2>1, <3>1, <3>2
    <3>4. Cardinality({<<l, j>>}) = 1
      BY FS_Singleton
    <3> QED BY <2>3, <3>3, <3>4
  <2>4. CASE ~ (left[p] > 0)
    <3>1. Waiting(p) = {}
      BY <2>1, <2>2, <2>4
    <3> QED BY <2>4, <3>1, FS_EmptySet
  <2> QED BY <2>3, <2>4
<1>3. ASSUME phase \in {"level", "sort"}, NEW p \in Process, NEW r \in Process,
             home[p] = home[r], p < r, NEW w \in Waiting(p), NEW v \in Waiting(r), w[1] = v[1]
      PROVE  w[2] < v[2]
  <2>1. PICK l \in Level, j \in Nat : w = <<l, j>> /\ Waits(p, l, j)
    BY WaitingIsWaits
  <2>2. PICK k \in Level, b \in Nat : v = <<k, b>> /\ Waits(r, k, b)
    BY WaitingIsWaits
  <2>3. k < l \/ (k = l /\ j < b)
    BY <1>1, <1>3, <2>1, <2>2 DEF InTurn
  <2>4. l = k /\ l \in Nat
    BY <1>3, <2>1, <2>2, Processes
  <2> QED BY <2>1, <2>2, <2>3, <2>4
<1> QED BY <1>2, <1>3 DEF QueuesAreKept

\* Every state of the schedulers satisfies the invariant, in RR's list as in those of
\* the levels.
THEOREM SchedulerInvariant == Spec => []SchedulerInv
<1>1. Init => SchedulerInv
  BY SchedulerInit
<1>2. SchedulerInv /\ [Next]_vars => SchedulerInv'
  BY SchedulerStep
<1> QED BY <1>1, <1>2, PTL DEF Spec

\* The variables of the schedulers keep their types: index stays inside the lists,
\* which hold processes, and what is left is never negative.
THEOREM SchedulerTypeCorrect == Spec => []TypeOK
<1>1. SchedulerInv => TypeOK
  BY DEF SchedulerInv
<1> QED BY <1>1, SchedulerInvariant, PTL

\* RR is fair for any number of processes, times and slices: whoever joins or
\* leaves, two that are in its list are at most a slice apart.
THEOREM SlicesAreSharedHolds == Spec => []SlicesAreShared
<1>1. SchedulerInv => SlicesAreShared
  BY RoundGivesShares
<1> QED BY <1>1, SchedulerInvariant, PTL

\* The feedback queue loses nobody and doubles nobody, for any number of levels, and
\* keeps the processes of a level in their order.
THEOREM QueuesAreKeptHolds == Spec => []QueuesAreKept
<1>1. SchedulerInv => QueuesAreKept
  BY QueuesFollow
<1> QED BY <1>1, SchedulerInvariant, PTL

-----------------------------------------------------------------------------
(* The schedulers: what the levels charge.                                 *)

\* The slices of the levels double; c[n] is level n's.
Doubles(c) == c \in [Nat -> Nat \ {0}] /\ \A n \in Nat : c[n + 1] = 2 * c[n]

\* A process that waits at level l has been charged the slices of the levels from
\* its home on, which are c[l] - c[home]; one that has ended needed no more than the
\* slices of all levels.
ChargedWith(c) ==
    /\ slice = c[level]
    /\ phase \in {"level", "sort"} =>
          /\ \A p \in Process : \A l \in Level : \A j \in Nat :
                Waits(p, l, j) => l >= home[p] /\ left[p] = serve[p] - (c[l] - c[home[p]])
          /\ \A p \in Process : left[p] = 0 => serve[p] <= c[Last] - c[home[p]]
    /\ phase \notin {"level", "sort"} =>
          \A p \in Process : base[p] = Positive(serve[p] - (c[Last] - c[home[p]]))

\* What the levels of the feedback queue have taken, in the loops and when RR runs
LevelsCharge ==
    (\E p \in Process : home[p] # Last) => \E c : Doubles(c) /\ ChargedWith(c)

\* Slices grow with the level.
LEMMA SlicesGrow ==
  ASSUME NEW c, Doubles(c), NEW m \in Nat, NEW n \in Nat, m <= n
  PROVE  c[m] <= c[n]
<1> DEFINE P == {k \in Nat : c[m] <= c[m + k]}
<1>1. c \in [Nat -> Nat \ {0}] /\ \A k \in Nat : c[k + 1] = 2 * c[k]
  BY DEF Doubles
<1>2. 0 \in P
  <2>1. c[m] \in Nat /\ m + 0 = m
    BY <1>1
  <2> QED BY <2>1
<1>3. ASSUME NEW k \in P PROVE k + 1 \in P
  <2>1. m + (k + 1) = (m + k) + 1 /\ m + k \in Nat /\ c[m] <= c[m + k]
    OBVIOUS
  <2>2. c[(m + k) + 1] = 2 * c[m + k] /\ c[m + k] \in Nat /\ c[m] \in Nat
    BY <1>1, <2>1
  <2> QED BY <2>1, <2>2
<1>4. P = Nat
  <2>1. P \in SUBSET Nat
    OBVIOUS
  <2> HIDE DEF P
  <2> QED BY <1>2, <1>3, <2>1, Induct
<1>5. n - m \in Nat /\ m + (n - m) = n
  OBVIOUS
<1> QED BY <1>4, <1>5

\* Slices that double are multiples of the first one.
LEMMA SlicesAreMultiples ==
  ASSUME NEW c, Doubles(c), NEW n \in Nat
  PROVE  c[n] = c[0] * Pow2[n]
<1> DEFINE P == {k \in Nat : c[k] = c[0] * Pow2[k]}
<1>1. c \in [Nat -> Nat \ {0}] /\ \A k \in Nat : c[k + 1] = 2 * c[k]
  BY DEF Doubles
<1>2. /\ Pow2 \in [Nat -> Nat \ {0}]
      /\ Pow2[0] = 1 /\ \A k \in Nat : Pow2[k + 1] = 2 * Pow2[k]
  BY Powers
<1>3. 0 \in P
  <2>1. c[0] \in Nat
    BY <1>1
  <2> QED BY <1>2, <2>1
<1>4. ASSUME NEW k \in P PROVE k + 1 \in P
  <2>1. c[k + 1] = 2 * c[k] /\ Pow2[k + 1] = 2 * Pow2[k] /\ c[k] = c[0] * Pow2[k]
    BY <1>1, <1>2
  <2>2. c[0] \in Nat /\ Pow2[k] \in Nat
    BY <1>1, <1>2
  <2>3. 2 * (c[0] * Pow2[k]) = c[0] * (2 * Pow2[k])
    BY <2>2
  <2> QED BY <2>1, <2>3
<1>5. P = Nat
  <2>1. P \in SUBSET Nat
    OBVIOUS
  <2> HIDE DEF P
  <2> QED BY <1>3, <1>4, <2>1, Induct
<1> QED BY <1>5

\* Each process waits in its home at first, uncharged.
LEMMA ChargeInit ==
  ASSUME Init
  PROVE  LevelsCharge
<1> SUFFICES ASSUME NEW p0 \in Process, home[p0] # Last
             PROVE  \E c : Doubles(c) /\ ChargedWith(c)
  BY DEF LevelsCharge
<1>1. /\ serve \in [Process -> 1 .. MaxServe] /\ left = serve
      /\ queues = [l \in Level |-> InLevel(home, l)]
      /\ slice \in Slices
  BY DEF Init, Begin
<1>2. slice \in Nat \ {0} /\ MaxServe \in Nat \ {0}
  BY <1>1, ConstantsAssumption
<1>3. home \in [Process -> Level] /\ level = 0 /\ phase \in {"level", "sort"}
  <2>1. ~ InitRoundRobin
    BY DEF InitRoundRobin
  <2> QED BY <2>1 DEF Init, InitLevels
<1> DEFINE c == [n \in Nat |-> slice * Pow2[n]]
<1>4. Doubles(c)
  <2>1. Pow2 \in [Nat -> Nat \ {0}] /\ \A n \in Nat : Pow2[n + 1] = 2 * Pow2[n]
    BY Powers
  <2>2. ASSUME NEW n \in Nat PROVE slice * Pow2[n] \in Nat \ {0}
    <3>1. Pow2[n] \in Nat \ {0}
      BY <2>1
    <3> QED BY <1>2, <3>1
  <2>3. ASSUME NEW n \in Nat PROVE c[n + 1] = 2 * c[n]
    <3>1. Pow2[n] \in Nat /\ Pow2[n + 1] = 2 * Pow2[n]
      BY <2>1
    <3>2. slice * (2 * Pow2[n]) = 2 * (slice * Pow2[n])
      BY <1>2, <3>1
    <3> QED BY <3>1, <3>2
  <2> QED BY <2>2, <2>3 DEF Doubles
<1>5. slice = c[level]
  <2>1. Pow2[0] = 1 /\ 0 \in Nat
    BY Powers
  <2> QED BY <1>2, <1>3, <2>1
<1> HIDE DEF c
<1>6. ASSUME NEW p \in Process, NEW l \in Level, NEW j \in Nat, Waits(p, l, j)
      PROVE  l >= home[p] /\ left[p] = serve[p] - (c[l] - c[home[p]])
  <2>1. j \in 1 .. Len(queues[l]) /\ queues[l][j] = p /\ queues[l] = InLevel(home, l)
    BY <1>1, <1>6 DEF Waits
  <2>2. LET s == InLevel(home, l) IN \A k \in 1 .. Len(s) : home[s[k]] = l
    <3>1. home \in [Process -> Level]
      BY <1>3
    <3> QED BY ONLY <3>1, InLevelIsList
  <2>3. home[p] = l
    BY <2>1, <2>2
  <2>4. l \in Nat /\ c[l] \in Nat /\ serve[p] \in Nat
    BY <1>1, <1>2, <1>4, Processes DEF Doubles
  <2> QED BY <1>1, <2>3, <2>4
<1>7. \A p \in Process : left[p] # 0
  BY <1>1, <1>2
<1>8. ChargedWith(c)
  BY <1>3, <1>5, <1>6, <1>7 DEF ChargedWith
<1> QED BY <1>4, <1>8

\* The slice grows with the level.
LEMMA SliceFollowsLevel ==
  ASSUME NEW c, Doubles(c), slice = c[level], level \in Nat, NEW q2, NEW m, NextLevel(q2, m)
  PROVE  slice' = c[level']
<1>1. \/ level' = level /\ slice' = slice
      \/ level' = level + 1 /\ slice' = 2 * slice
  BY DEF NextLevel
<1> QED BY <1>1 DEF Doubles

\* Times and levels are natural numbers.
LEMMA TimesAreNumbers ==
  ASSUME SchedulerInv
  PROVE  \A p \in Process : /\ serve[p] \in Nat /\ left[p] \in Nat /\ base[p] \in Nat
                             /\ home[p] \in Nat
<1>1. TypeOK /\ MaxServe \in Nat
  BY ConstantsAssumption DEF SchedulerInv
<1>2. \A l \in Level : l \in Nat
  BY Processes
<1> QED BY <1>1, <1>2 DEF TypeOK

\* A process that is demoted pays the slice of the level it leaves.
LEMMA DemoteCharges ==
  ASSUME SchedulerInv, NEW c, Doubles(c), ChargedWith(c), Demote
  PROVE  ChargedWith(c)'
<1> DEFINE p0 == Current
           q2 == [queues EXCEPT ![level + 1] = Append(queues[level + 1], Current)]
<1>1. /\ phase = "level" /\ left[p0] > slice
      /\ left' = [left EXCEPT ![p0] = @ - slice]
      /\ NextLevel(q2, index + 1)
      /\ UNCHANGED <<serve, home>>
  BY DEF Demote, DemoteInto
<1>2. /\ level \in Level /\ level + 1 \in Level /\ level \in Nat /\ level < Last /\ Last \in Nat
      /\ \A l \in Level : l \in Nat
      /\ index + 1 \in Nat /\ p0 \in Process /\ Waits(p0, level, index + 1)
      /\ left \in [Process -> 0 .. MaxServe] /\ slice \in Nat \ {0}
  <2>1. /\ level \in Level /\ level + 1 \in Level /\ level \in Nat /\ level < Last
        /\ Last \in Nat /\ \A l \in Level : l \in Nat
    BY <1>1, AtLevel
  <2>2. Len(queues[level]) \in Nat /\ index + 1 \in 1 .. Len(queues[level])
    BY <1>1, <2>1, AtLevel
  <2>3. /\ p0 \in Process /\ Waits(p0, level, index + 1)
        /\ left \in [Process -> 0 .. MaxServe] /\ slice \in Nat \ {0}
    BY <1>1, AtLevel
  <2> QED BY <2>1, <2>2, <2>3
<1>3. /\ SchedulerInv'
      /\ \A p \in Process : \A l \in Level : \A j \in Nat :
            Waits(p, l, j)' => (p # p0 /\ Waits(p, l, j)) \/ (p = p0 /\ l = level + 1)
  BY DemoteStep
<1>4. /\ slice = c[level]
      /\ \A p \in Process : \A l \in Level : \A j \in Nat :
            Waits(p, l, j) => l >= home[p] /\ left[p] = serve[p] - (c[l] - c[home[p]])
      /\ \A p \in Process : left[p] = 0 => serve[p] <= c[Last] - c[home[p]]
  BY <1>1 DEF ChargedWith
<1>5. c \in [Nat -> Nat \ {0}] /\ c[level + 1] = 2 * c[level]
  BY <1>2 DEF Doubles
<1>6. \A p \in Process : serve[p] \in Nat /\ home[p] \in Nat
  BY TimesAreNumbers
<1> HIDE DEF p0, q2
<1>7. slice' = c[level'] /\ phase' \in {"level", "sort"}
  <2>1. slice' = c[level']
    BY <1>1, <1>2, <1>4, SliceFollowsLevel
  <2> QED BY <1>1, <2>1 DEF NextLevel
<1>8. ASSUME NEW p \in Process, NEW l \in Level, NEW j \in Nat, Waits(p, l, j)'
      PROVE  l >= home[p] /\ left'[p] = serve[p] - (c[l] - c[home[p]])
  <2>1. CASE p # p0
    <3>1. Waits(p, l, j) /\ left'[p] = left[p]
      BY <1>1, <1>2, <1>3, <1>8, <2>1
    <3> QED BY <1>4, <3>1
  <2>2. CASE p = p0
    <3>1. l = level + 1
      BY <1>3, <1>8, <2>2
    <3>2. level >= home[p] /\ left[p] = serve[p] - (c[level] - c[home[p]])
      BY <1>2, <1>4, <2>2
    <3>3. left'[p] = left[p] - c[level]
      BY <1>1, <1>2, <1>4, <2>2
    <3>4. c[level] \in Nat /\ c[home[p]] \in Nat /\ c[l] = 2 * c[level]
      BY <1>2, <1>5, <1>6, <3>1
    <3> QED BY <1>2, <1>6, <3>1, <3>2, <3>3, <3>4
  <2> QED BY <2>1, <2>2
<1>9. ASSUME NEW p \in Process, left'[p] = 0
      PROVE  serve[p] <= c[Last] - c[home[p]]
  <2>1. p # p0
    BY <1>1, <1>2, <1>9
  <2>2. left'[p] = left[p]
    BY <1>1, <1>2, <2>1
  <2> QED BY <1>4, <1>9, <2>2
<1> QED BY <1>1, <1>7, <1>8, <1>9 DEF ChargedWith, Last

\* A process that ends at a level needed no more than that level's slice.
LEMMA CompleteCharges ==
  ASSUME SchedulerInv, NEW c, Doubles(c), ChargedWith(c), Complete
  PROVE  ChargedWith(c)'
<1> DEFINE p0 == Current
           q2 == [queues EXCEPT ![level] = Removed(@, index)]
<1>1. /\ phase = "level" /\ left[p0] <= slice
      /\ left' = [left EXCEPT ![p0] = 0]
      /\ NextLevel(q2, index + 0)
      /\ UNCHANGED <<serve, home>>
  BY DEF Complete, Remove
<1>2. /\ level \in Level /\ level + 1 \in Level /\ level \in Nat /\ level < Last /\ Last \in Nat
      /\ \A l \in Level : l \in Nat
      /\ index + 1 \in Nat /\ p0 \in Process /\ Waits(p0, level, index + 1)
      /\ left \in [Process -> 0 .. MaxServe] /\ slice \in Nat \ {0}
  <2>1. Len(queues[level]) \in Nat
    BY <1>1, AtLevel
  <2> QED BY <1>1, <2>1, AtLevel
<1>3. /\ SchedulerInv'
      /\ \A p \in Process : \A l \in Level : \A j \in Nat :
            Waits(p, l, j)' => p # p0 /\ \E k \in Nat : Waits(p, l, k)
  BY CompleteStep
<1>4. /\ slice = c[level]
      /\ \A p \in Process : \A l \in Level : \A j \in Nat :
            Waits(p, l, j) => l >= home[p] /\ left[p] = serve[p] - (c[l] - c[home[p]])
      /\ \A p \in Process : left[p] = 0 => serve[p] <= c[Last] - c[home[p]]
  BY <1>1 DEF ChargedWith
<1>5. c \in [Nat -> Nat \ {0}] /\ c[level + 1] = 2 * c[level] /\ c[level + 1] <= c[Last]
  <2>1. c \in [Nat -> Nat \ {0}] /\ c[level + 1] = 2 * c[level]
    BY <1>2 DEF Doubles
  <2>2. Doubles(c) /\ level + 1 \in Nat /\ Last \in Nat /\ level + 1 <= Last
    BY <1>2
  <2> QED BY <2>1, <2>2, SlicesGrow
<1>6. \A p \in Process : serve[p] \in Nat /\ home[p] \in Nat
  BY TimesAreNumbers
<1> HIDE DEF p0, q2
<1>7. slice' = c[level'] /\ phase' \in {"level", "sort"}
  <2>1. slice' = c[level']
    BY <1>1, <1>2, <1>4, SliceFollowsLevel
  <2> QED BY <1>1, <2>1 DEF NextLevel
<1>8. ASSUME NEW p \in Process, NEW l \in Level, NEW j \in Nat, Waits(p, l, j)'
      PROVE  l >= home[p] /\ left'[p] = serve[p] - (c[l] - c[home[p]])
  <2>1. p # p0 /\ \E k \in Nat : Waits(p, l, k)
    BY <1>3, <1>8
  <2>2. left'[p] = left[p]
    BY <1>1, <1>2, <2>1
  <2> QED BY <1>4, <2>1, <2>2
<1>9. ASSUME NEW p \in Process, left'[p] = 0
      PROVE  serve[p] <= c[Last] - c[home[p]]
  <2>1. CASE p # p0
    <3>1. left'[p] = left[p]
      BY <1>1, <1>2, <2>1
    <3> QED BY <1>4, <1>9, <3>1
  <2>2. CASE p = p0
    <3>1. left[p] = serve[p] - (c[level] - c[home[p]]) /\ left[p] <= c[level]
      BY <1>1, <1>2, <1>4, <2>2
    <3>2. c[level] \in Nat /\ c[home[p]] \in Nat /\ c[Last] \in Nat
      BY <1>2, <1>5, <1>6
    <3> QED BY <1>5, <1>6, <3>1, <3>2
  <2> QED BY <2>1, <2>2
<1> QED BY <1>1, <1>7, <1>8, <1>9 DEF ChargedWith, Last

\* What RR begins with
LEMMA SortCharges ==
  ASSUME SchedulerInv, NEW c, Doubles(c), ChargedWith(c), RRSort
  PROVE  ChargedWith(c)'
<1>1. phase = "sort" /\ phase' = "rr" /\ base' = left /\ UNCHANGED <<serve, home, left, slice, level>>
  BY DEF RRSort, RRBegins
<1>2. /\ slice = c[level]
      /\ \A p \in Process : \A l \in Level : \A j \in Nat :
            Waits(p, l, j) => l >= home[p] /\ left[p] = serve[p] - (c[l] - c[home[p]])
      /\ \A p \in Process : left[p] = 0 => serve[p] <= c[Last] - c[home[p]]
  BY <1>1 DEF ChargedWith
<1>3. /\ level = Last /\ WaitsIfUnserved /\ c \in [Nat -> Nat \ {0}] /\ Last \in Nat
      /\ \A l \in Level : l \in Nat /\ l <= Last
      /\ \A p \in Process : serve[p] \in Nat /\ home[p] \in Nat /\ left[p] \in Nat
  <2>1. level = Last /\ WaitsIfUnserved
    BY <1>1 DEF SchedulerInv, LoopsAreInside
  <2>2. \A l \in Level : l \in Nat /\ l <= Last
    BY Processes, ConstantsAssumption DEF Level, Last
  <2> QED BY <2>1, <2>2, TimesAreNumbers, Processes DEF Doubles
<1>4. ASSUME NEW p \in Process
      PROVE  left[p] = Positive(serve[p] - (c[Last] - c[home[p]]))
  <2>1. c[Last] \in Nat /\ c[home[p]] \in Nat
    BY <1>3
  <2>2. CASE left[p] > 0
    <3>1. PICK l \in Level, j \in Nat : Waits(p, l, j)
      BY <1>3, <2>2 DEF WaitsIfUnserved
    <3>2. l >= level
      BY <3>1 DEF Waits
    <3>3. l = Last
      BY <1>3, <3>2
    <3>4. left[p] = serve[p] - (c[Last] - c[home[p]])
      BY <1>2, <3>1, <3>3
    <3> QED BY <2>2, <3>4 DEF Positive
  <2>3. CASE left[p] = 0
    BY <1>2, <1>3, <2>1, <2>3 DEF Positive
  <2> QED BY <1>3, <2>2, <2>3
<1> QED BY <1>1, <1>2, <1>4 DEF ChargedWith, Last

\* Every turn of a loop keeps the account of the levels; RR does not touch it.
LEMMA ChargeStep ==
  ASSUME SchedulerInv, LevelsCharge, [Next]_vars
  PROVE  LevelsCharge'
<1>1. home' = home
  BY DEF Next, vars, Demote, DemoteInto, Complete, Remove, RRSort, RRBegins, RRSlice, RRServe, RRFinish, RRLeave
<1> SUFFICES ASSUME NEW p0 \in Process, home[p0] # Last
             PROVE  \E c : Doubles(c) /\ ChargedWith(c)'
  BY <1>1 DEF LevelsCharge, Last, Process, Doubles
<1>2. PICK c : Doubles(c) /\ ChargedWith(c)
  BY DEF LevelsCharge
<1>3. CASE Demote
  BY <1>2, <1>3, DemoteCharges
<1>4. CASE Complete
  BY <1>2, <1>4, CompleteCharges
<1>5. CASE RRSort
  BY <1>2, <1>5, SortCharges
<1>6. CASE RRSlice \/ RRFinish
  <2>1. /\ phase = "rr" /\ phase' \in {"rr", "ended"}
        /\ UNCHANGED <<serve, home, slice, level, base>>
    BY <1>6 DEF RRSlice, RRServe, RRFinish, RRLeave
  <2>2. ChargedWith(c)'
    BY <1>2, <2>1 DEF ChargedWith, Last, Process, Positive
  <2> QED BY <1>2, <2>2
<1>7. CASE UNCHANGED vars
  <2>1. ChargedWith(c)'
    BY <1>2, <1>7 DEF vars, ChargedWith, Waits, Last, Process, Level, Positive
  <2> QED BY <1>2, <2>1
<1> QED BY <1>3, <1>4, <1>5, <1>6, <1>7 DEF Next

\* The account says what each process has left when RR takes over.
LEMMA ChargesFollow ==
  ASSUME SchedulerInv, LevelsCharge
  PROVE  LevelsAreCharged
<1> SUFFICES ASSUME phase = "rr", \E p \in Process : home[p] # Last, NEW p \in Process
             PROVE  base[p] = Positive(serve[p] - First * (Pow2[Last] - Pow2[home[p]]))
  BY DEF LevelsAreCharged
<1>1. PICK c : Doubles(c) /\ ChargedWith(c)
  BY DEF LevelsCharge
<1>2. /\ slice = c[Last]
      /\ base[p] = Positive(serve[p] - (c[Last] - c[home[p]]))
  BY <1>1 DEF ChargedWith, SchedulerInv, LoopsAreInside
<1>3. Last \in Nat /\ home[p] \in Nat
  BY Processes DEF SchedulerInv, TypeOK
<1>4. c[Last] = c[0] * Pow2[Last] /\ c[home[p]] = c[0] * Pow2[home[p]]
  BY <1>1, <1>3, SlicesAreMultiples
<1>5. c[0] \in Nat /\ Pow2[Last] \in Nat \ {0} /\ Pow2[home[p]] \in Nat \ {0}
  BY <1>1, <1>3, Powers DEF Doubles
<1>6. First = c[0]
  BY <1>2, <1>4, <1>5, Quotient DEF First
<1>7. c[0] * (Pow2[Last] - Pow2[home[p]]) = c[0] * Pow2[Last] - c[0] * Pow2[home[p]]
  BY <1>5
<1> QED BY <1>2, <1>4, <1>6, <1>7

\* What a process has left when RR takes over is what its service time leaves after
\* one slice per level, each twice the one before, for any number of levels.
THEOREM LevelsAreChargedHolds == Spec => []LevelsAreCharged
<1>1. Init => SchedulerInv /\ LevelsCharge
  BY SchedulerInit, ChargeInit
<1>2. SchedulerInv /\ LevelsCharge /\ [Next]_vars => (SchedulerInv /\ LevelsCharge)'
  BY SchedulerStep, ChargeStep
<1>3. SchedulerInv /\ LevelsCharge => LevelsAreCharged
  BY ChargesFollow
<1> QED BY <1>1, <1>2, <1>3, PTL DEF Spec

-----------------------------------------------------------------------------
(* The schedulers: RR's rounds, and the finish times they give.            *)

\* What RR has served the processes of its list, by their place in it
Service == [o \in 1 .. Len(order) |-> base[order[o]] - left[order[o]]]

\* Those up to place m have had one slice more than the g of the others, unless they
\* needed less.
Turns(g, m) ==
    \A o \in 1 .. Len(order) :
        Service[o] = Least(base[order[o]], IF o <= m THEN g + slice ELSE g)

\* What is left of the list is in the order of the list that RR began with, and
\* index is behind those that are at place m or before it.
Follows(m) ==
    /\ \A j \in 1 .. Len(queues[Last]) :
          \E o \in 1 .. Len(order) : order[o] = queues[Last][j]
    /\ \A j, k \in 1 .. Len(queues[Last]) : \A o, h \in 1 .. Len(order) :
          order[o] = queues[Last][j] /\ order[h] = queues[Last][k] /\ j < k => o < h
    /\ \A j \in 1 .. Len(queues[Last]) : \A o \in 1 .. Len(order) :
          order[o] = queues[Last][j] => (o <= m <=> j <= index)

\* RR is in a round: turns whole rounds are over, and in this one the places up to m
\* have had their turn.  The clock shows what everybody has been served.
RoundsAreKept ==
    /\ phase \in {"level", "sort"} => clock = 0 /\ order = <<>>
    /\ phase \notin {"level", "sort"} =>
          /\ NoDup(order)
          /\ clock = SumOf(Service, Len(order))
          /\ \A o \in 1 .. Len(order) :
                left[order[o]] = 0 => finish[order[o]] = FinishTime(order[o])
          /\ \E turns \in Nat : \E m \in 0 .. Len(order) :
                Turns(slice * turns, m) /\ Follows(m)

\* The types of what RR keeps
LEMMA OrderTypes ==
  ASSUME SchedulerInv
  PROVE  /\ order \in Seq(Process) /\ Len(order) \in Nat
         /\ \A o \in 1 .. Len(order) :
               order[o] \in Process /\ base[order[o]] \in Nat /\ left[order[o]] \in Nat
         /\ Service \in [1 .. Len(order) -> Int]
         /\ slice \in Nat \ {0} /\ clock \in Nat /\ index \in Nat /\ finish \in [Process -> Nat]
<1>1. order \in Seq(Process) /\ slice \in Nat \ {0} /\ clock \in Nat /\ index \in Nat /\ finish \in [Process -> Nat]
  BY DEF SchedulerInv, TypeOK
<1>2. Len(order) \in Nat /\ \A o \in 1 .. Len(order) : order[o] \in Process
  BY <1>1
<1>3. \A p \in Process : base[p] \in Nat /\ left[p] \in Nat
  BY TimesAreNumbers
<1>4. Service \in [1 .. Len(order) -> Int]
  BY <1>2, <1>3 DEF Service
<1> QED BY <1>1, <1>2, <1>3, <1>4

\* What a turn of the process at place z does to the round: that process had had no
\* more than the others behind it, and now it has its turn behind it.  Those between m
\* and z have ended.
LEMMA TurnTaken ==
  ASSUME SchedulerInv, phase = "rr", NoDup(order),
         NEW g \in Nat, NEW m \in 0 .. Len(order), Turns(g, m), Follows(m),
         NEW z \in 1 .. Len(order), order[z] = queues[Last][index + 1],
         NEW d, d = Least(left[order[z]], slice),
         left' = [left EXCEPT ![order[z]] = @ - d],
         UNCHANGED <<base, order, slice>>
  PROVE  /\ left[order[z]] = base[order[z]] - g /\ left[order[z]] > 0
         /\ Turns(g, z)'
         /\ index + 1 = Len(queues[Last]) => Turns(g + slice, 0)'
         /\ SumOf(Service', Len(order)) = SumOf(Service, Len(order)) + d
<1> DEFINE n == Len(order)
           q == queues[Last]
           b == [o \in 1 .. n |-> base[order[o]]]
           f == [o \in 1 .. n |-> left[order[o]]]
           f2 == [o \in 1 .. n |-> left'[order[o]]]
<1>1. /\ n \in Nat /\ slice \in Nat \ {0} /\ index \in Nat
      /\ b \in [1 .. n -> Nat] /\ f \in [1 .. n -> Nat]
      /\ \A o \in 1 .. n : order[o] \in Process
  BY OrderTypes
<1>2. \A o \in 1 .. n : f2[o] = IF o = z THEN f[z] - d ELSE f[o]
  <2> SUFFICES ASSUME NEW o \in 1 .. n PROVE f2[o] = IF o = z THEN f[z] - d ELSE f[o]
    OBVIOUS
  <2>1. DOMAIN left = Process /\ order[o] \in Process /\ order[z] \in Process
    BY <1>1 DEF SchedulerInv, TypeOK
  <2>2. order[o] = order[z] => o = z
    BY DEF NoDup
  <2> QED BY <2>1, <2>2
<1>3. \A o \in 1 .. n : Service[o] = b[o] - f[o] /\ Service'[o] = b[o] - f2[o]
  BY DEF Service
<1>4. \A o \in 1 .. n : Service[o] = Least(b[o], IF o <= m THEN g + slice ELSE g)
  BY DEF Turns
<1>5. /\ index + 1 \in 1 .. Len(q) /\ Len(q) \in Nat
      /\ \A o \in 1 .. n : f[o] > 0 <=> \E j \in 1 .. Len(q) : q[j] = order[o]
  BY <1>1, AtLast
<1>6. /\ \A j, k \in 1 .. Len(q) : \A o, h \in 1 .. n :
            order[o] = q[j] /\ order[h] = q[k] /\ j < k => o < h
      /\ \A j \in 1 .. Len(q) : \A o \in 1 .. n : order[o] = q[j] => (o <= m <=> j <= index)
  BY DEF Follows
<1>7. order[z] = q[index + 1] /\ \A o \in 1 .. n : order[o] = q[index + 1] => o = z
  BY DEF NoDup
<1>8. d = Least(f[z], slice)
  OBVIOUS
<1> HIDE DEF b, f, f2, q
<1>9. m < z /\ f[z] > 0
  <2>1. ~ (z <= m)
    BY <1>1, <1>5, <1>6, <1>7
  <2> QED BY <1>1, <1>5, <1>7, <2>1
<1>10. f[z] = b[z] - g
  <2>1. b[z] - f[z] = Least(b[z], g)
    BY <1>1, <1>3, <1>4, <1>9
  <2> QED BY <1>1, <1>9, <2>1 DEF Least
<1>11. ASSUME NEW o \in 1 .. n, m < o, o < z PROVE f[o] = 0
  <2> SUFFICES ASSUME f[o] > 0 PROVE FALSE
    BY <1>1
  <2>1. PICK j \in 1 .. Len(q) : q[j] = order[o]
    BY <1>5
  <2>2. ~ (j <= index) /\ j # index + 1
    BY <1>1, <1>6, <1>7, <1>11, <2>1
  <2>3. index + 1 < j
    BY <1>1, <1>5, <2>2
  <2>4. z < o
    BY <1>5, <1>6, <1>7, <2>1, <2>3
  <2> QED BY <1>1, <1>11, <2>4
<1>12. ASSUME NEW o \in 1 .. n, z < o, index + 1 = Len(q) PROVE f[o] = 0
  <2> SUFFICES ASSUME f[o] > 0 PROVE FALSE
    BY <1>1
  <2>1. PICK j \in 1 .. Len(q) : q[j] = order[o]
    BY <1>5
  <2>2. ~ (j <= index) /\ j # index + 1
    BY <1>1, <1>6, <1>7, <1>9, <1>12, <2>1
  <2> QED BY <1>1, <1>5, <1>12, <2>2
<1>13. ASSUME NEW o \in 1 .. n
       PROVE  b[o] - f2[o] = Least(b[o], IF o <= z THEN g + slice ELSE g)
  <2>0. /\ b[o] \in Nat /\ f[o] \in Nat /\ b[o] - f[o] = Least(b[o], IF o <= m THEN g + slice ELSE g)
        /\ o \in Int /\ m \in Int /\ z \in Int
    BY <1>1, <1>3, <1>4
  <2>1. CASE o = z
    <3>1. f2[z] = f[z] - d /\ f[z] \in Nat /\ b[z] \in Nat /\ b[z] = f[z] + g
      BY <1>1, <1>2, <1>10
    <3>2. d \in Nat
      BY <1>1, <1>8, <3>1 DEF Least
    <3>3. b[z] - f2[z] = g + d
      BY <3>1, <3>2
    <3> QED BY <1>1, <1>8, <2>1, <3>1, <3>3 DEF Least
  <2>2. CASE o < z /\ ~ (o <= m)
    <3>1. f[o] = 0 /\ f2[o] = 0
      BY <1>2, <1>11, <2>0, <2>2
    <3> QED BY <1>1, <2>0, <2>2, <3>1 DEF Least
  <2>3. CASE o <= m
    <3>1. f2[o] = f[o] /\ o <= z
      BY <1>2, <1>9, <2>0, <2>3
    <3> QED BY <2>0, <2>3, <3>1
  <2>4. CASE z < o
    <3>1. f2[o] = f[o] /\ ~ (o <= z) /\ ~ (o <= m)
      BY <1>2, <1>9, <2>0, <2>4
    <3> QED BY <2>0, <3>1
  <2> QED BY <2>0, <2>1, <2>2, <2>3, <2>4
<1>14. ASSUME NEW o \in 1 .. n, index + 1 = Len(q)
       PROVE  b[o] - f2[o] = Least(b[o], g + slice)
  <2>1. CASE o <= z
    BY <1>13, <2>1
  <2>2. CASE ~ (o <= z)
    <3>1. f[o] = 0 /\ f2[o] = f[o] /\ b[o] \in Nat
      BY <1>1, <1>2, <1>12, <1>14, <2>2
    <3>2. b[o] - f2[o] = Least(b[o], g)
      BY <1>13, <2>2
    <3> QED BY <1>1, <3>1, <3>2 DEF Least
  <2> QED BY <2>1, <2>2
<1>15. Turns(g, z)'
  <2> SUFFICES ASSUME NEW o \in 1 .. n
               PROVE  Service'[o] = Least(b[o], IF o <= z THEN g + slice ELSE g)
    BY DEF Turns, b
  <2> QED BY <1>3, <1>13
<1>16. ASSUME index + 1 = Len(q) PROVE Turns(g + slice, 0)'
  <2> SUFFICES ASSUME NEW o \in 1 .. n
               PROVE  Service'[o] = Least(b[o], IF o <= 0 THEN (g + slice) + slice ELSE g + slice)
    BY DEF Turns, b
  <2>1. ~ (o <= 0)
    BY <1>1
  <2> QED BY <1>3, <1>14, <1>16, <2>1
<1>17. SumOf(Service', n) = SumOf(Service, n) + d
  <2>1. Service \in [1 .. n -> Int] /\ d \in Int
    BY <1>1, <1>8, OrderTypes DEF Least
  <2>2. Service' \in [1 .. n -> Int]
    <3>1. ASSUME NEW o \in 1 .. n PROVE Service'[o] \in Int
      <4>1. b[o] \in Nat /\ f[o] \in Nat /\ f[z] \in Nat
        BY <1>1
      <4>2. f2[o] \in Int
        BY <1>2, <2>1, <4>1
      <4> QED BY <1>3, <4>1, <4>2
    <3>2. DOMAIN Service' = 1 .. n /\ Service' = [o \in 1 .. n |-> Service'[o]]
      BY DEF Service
    <3> QED BY <3>1, <3>2
  <2>3. Service'[z] = Service[z] + d
    <3>1. b[z] \in Nat /\ f[z] \in Nat /\ f2[z] = f[z] - d
      BY <1>1, <1>2
    <3> QED BY <1>3, <2>1, <3>1
  <2>4. \A o \in 1 .. n : o # z => Service'[o] = Service[o]
    BY <1>2, <1>3
  <2> DEFINE s == Service
             t == Service'
  <2>5. /\ s \in [1 .. n -> Int] /\ t \in [1 .. n -> Int] /\ t[z] = s[z] + d
        /\ \A o \in 1 .. n : o # z => t[o] = s[o]
        /\ n \in Nat /\ z \in 1 .. n /\ d \in Int
    BY <1>1, <2>1, <2>2, <2>3, <2>4
  <2> HIDE DEF s, t, n
  <2>6. SumOf(t, n) = SumOf(s, n) + d
    BY ONLY <2>5, SumGrows
  <2> QED BY <2>6 DEF s, t
<1> QED BY <1>9, <1>10, <1>15, <1>16, <1>17 DEF b, f, q

\* RR has not begun.
LEMMA RoundsInit ==
  ASSUME Init
  PROVE  RoundsAreKept
<1>1. clock = 0 /\ order = <<>> /\ phase \in {"level", "sort"}
  BY DEF Init, Begin, InitLevels, InitRoundRobin
<1> QED BY <1>1 DEF RoundsAreKept

\* RR begins: nobody has been served, and the list is all of the list.
LEMMA RoundsBegin ==
  ASSUME SchedulerInv, RoundsAreKept, RRSort
  PROVE  RoundsAreKept'
<1> DEFINE o2 == order'
           n == Len(o2)
<1>1. /\ phase = "sort" /\ phase' = "rr" /\ base' = left
      /\ UNCHANGED <<left, finish, slice, level, index, clock>>
  BY DEF RRSort, RRBegins
<1>2. /\ SchedulerInv' /\ o2 \in Seq(Process) /\ NoDup(o2) /\ o2 = queues'[Last]
      /\ \A k \in 1 .. n : left'[o2[k]] > 0
  BY RRSortStep
<1>3. clock' = 0 /\ index' = 0 /\ slice \in Nat \ {0}
  BY <1>1 DEF RoundsAreKept, SchedulerInv, LoopsAreInside, TypeOK
<1>4. n \in Nat /\ \A k \in 1 .. n : left[o2[k]] \in Nat
  <2>1. n \in Nat /\ \A k \in 1 .. n : o2[k] \in Process
    <3> HIDE DEF o2
    <3> QED BY <1>2
  <2> QED BY <2>1, TimesAreNumbers
<1>5. \A k \in 1 .. n : base'[o2[k]] - left'[o2[k]] = 0
  BY <1>1, <1>4
<1>6. Service' \in [1 .. n -> Int] /\ \A k \in 1 .. n : Service'[k] = 0
  <2>1. Service' = [k \in 1 .. n |-> base'[o2[k]] - left'[o2[k]]]
    BY DEF Service
  <2> HIDE DEF o2, n
  <2> QED BY <1>5, <2>1
<1>7. SumOf(Service', n) = 0
  <2> DEFINE s == Service'
  <2>1. n \in Nat /\ s \in [1 .. n -> Int] /\ \A k \in 1 .. n : s[k] = 0
    BY <1>4, <1>6
  <2> HIDE DEF s, n, o2
  <2>2. SumOf(s, n) = 0
    BY ONLY <2>1, SumOfZeroes
  <2> QED BY <2>2 DEF s
<1>8. Turns(slice * 0, 0)'
  <2>1. slice' * 0 = 0 /\ slice' = slice
    BY <1>1, <1>3
  <2> SUFFICES ASSUME NEW k \in 1 .. n
               PROVE  Service'[k] = Least(base'[o2[k]], IF k <= 0 THEN slice' * 0 + slice' ELSE slice' * 0)
    BY <2>1 DEF Turns
  <2>2. ~ (k <= 0) /\ base'[o2[k]] \in Nat
    BY <1>1, <1>4
  <2> HIDE DEF o2, n
  <2> QED BY <1>6, <2>1, <2>2 DEF Least
<1>9. Follows(0)'
  <2>1. \A j, k \in 1 .. n : o2[j] = o2[k] => j = k
    BY <1>2 DEF NoDup
  <2>2. \A j \in 1 .. n : ~ (j <= 0) /\ j \in Nat
    BY <1>4
  <2>3. Last' = Last
    BY DEF Last
  <2>4. \A j \in 1 .. n : \E o \in 1 .. n : o2[o] = o2[j]
    OBVIOUS
  <2>5. \A j, k \in 1 .. n : \A o, h \in 1 .. n : o2[o] = o2[j] /\ o2[h] = o2[k] /\ j < k => o < h
    <3> SUFFICES ASSUME NEW j \in 1 .. n, NEW k \in 1 .. n, NEW o \in 1 .. n, NEW h \in 1 .. n,
                        o2[o] = o2[j], o2[h] = o2[k], j < k
                 PROVE  o < h
      OBVIOUS
    <3>1. o = j /\ h = k
      BY <2>1
    <3> QED BY <3>1
  <2>6. \A j \in 1 .. n : \A o \in 1 .. n : o2[o] = o2[j] => (o <= 0 <=> j <= index')
    BY <1>3, <2>2
  <2>7. order' = o2 /\ queues'[Last'] = o2 /\ Len(o2) = n
    BY <1>2, <2>3
  <2> HIDE DEF o2, n
  <2> QED BY <2>4, <2>5, <2>6, <2>7 DEF Follows
<1>10. \A o \in 1 .. n : left'[o2[o]] # 0
  BY <1>1, <1>2, <1>4
<1>11. \E turns \in Nat : \E m \in 0 .. n : Turns(slice * turns, m)' /\ Follows(m)'
  <2>1. 0 \in Nat /\ 0 \in 0 .. n
    BY <1>4
  <2> HIDE DEF n
  <2> QED BY <1>8, <1>9, <2>1
<1>12. \E turns \in Nat : \E m \in 0 .. Len(order)' : (Turns(slice * turns, m) /\ Follows(m))'
  BY <1>11
<1> QED BY <1>1, <1>2, <1>3, <1>7, <1>10, <1>12 DEF RoundsAreKept

\* A slice: the process at index has had its turn; after the last one a new round
\* begins.
LEMMA RoundsGoOn ==
  ASSUME SchedulerInv, RoundsAreKept, RRSlice
  PROVE  RoundsAreKept'
<1> DEFINE q == queues[Last]
           n == Len(q)
           p0 == q[index + 1]
<1>1. /\ n \in Nat /\ q \in Seq(Process) /\ NoDup(q) /\ index \in 0 .. n - 1 /\ index + 1 \in 1 .. n
      /\ left \in [Process -> 0 .. MaxServe] /\ slice \in Nat \ {0} /\ MaxServe \in Nat
  <2>1. phase \in {"sort", "rr"}
    BY DEF RRSlice, RRServe
  <2> QED BY <2>1, AtLast
<1>2. index % n = index /\ (index + 1) % n = IF index + 1 = n THEN 0 ELSE index + 1
  <2> HIDE DEF n
  <2> QED BY <1>1, Around
<1>3. Scheduled = p0
  BY <1>2 DEF Scheduled
<1>4. /\ phase = "rr" /\ left[p0] > slice
      /\ left' = [left EXCEPT ![p0] = @ - slice]
      /\ index' = IF index + 1 = n THEN 0 ELSE index + 1
      /\ clock' = clock + slice
      /\ UNCHANGED <<finish, queues, slice, phase, base, order>>
  BY <1>2, <1>3 DEF RRSlice, RRServe
<1>5. /\ NoDup(order)
      /\ clock = SumOf(Service, Len(order))
      /\ \A o \in 1 .. Len(order) :
            left[order[o]] = 0 => finish[order[o]] = FinishTime(order[o])
  BY <1>4 DEF RoundsAreKept
<1>6. PICK turns \in Nat, m \in 0 .. Len(order) : Turns(slice * turns, m) /\ Follows(m)
  BY <1>4 DEF RoundsAreKept
<1>7. /\ Len(order) \in Nat
      /\ \A o \in 1 .. Len(order) : order[o] \in Process /\ left[order[o]] \in Nat
  BY OrderTypes
<1>8. PICK z \in 1 .. Len(order) : order[z] = p0
  BY <1>1, <1>6 DEF Follows
<1>9. PICK g \in Nat, d \in Nat :
         d = slice /\ g = slice * turns /\ slice * (turns + 1) = g + slice
  <2>1. slice * turns \in Nat /\ slice * (turns + 1) = slice * turns + slice
    BY <1>1
  <2> QED BY <1>1, <2>1
<1>10. left[p0] \in Nat /\ d = Least(left[p0], slice)
  <2>1. left[p0] \in Nat
    BY <1>7, <1>8
  <2>2. slice \in Nat /\ left[p0] > slice /\ d = slice
    BY <1>1, <1>4, <1>9
  <2> QED BY <2>1, <2>2 DEF Least
<1>11. /\ Turns(g, z)'
       /\ index + 1 = n => Turns(g + slice, 0)'
       /\ SumOf(Service', Len(order)) = SumOf(Service, Len(order)) + d
  <2>1. /\ SchedulerInv /\ phase = "rr" /\ NoDup(order) /\ g \in Nat /\ m \in 0 .. Len(order)
        /\ Turns(g, m) /\ Follows(m)
        /\ z \in 1 .. Len(order) /\ order[z] = queues[Last][index + 1]
        /\ d = Least(left[order[z]], slice)
        /\ left' = [left EXCEPT ![order[z]] = @ - d]
        /\ UNCHANGED <<base, order, slice>>
    BY <1>4, <1>5, <1>6, <1>8, <1>9, <1>10
  <2> QED BY ONLY <2>1, TurnTaken
<1>12. /\ \A j \in 1 .. n : \E o \in 1 .. Len(order) : order[o] = q[j]
       /\ \A j, k \in 1 .. n : \A o, h \in 1 .. Len(order) :
             order[o] = q[j] /\ order[h] = q[k] /\ j < k => o < h
  BY <1>6 DEF Follows
<1>13. \A o \in 1 .. Len(order) : order[o] = p0 => o = z
  BY <1>5, <1>8 DEF NoDup
<1>14. (\E t \in Nat : \E h \in 0 .. Len(order)' : (Turns(slice * t, h) /\ Follows(h))')
          => RoundsAreKept'
  <2>1. ASSUME NEW o \in 1 .. Len(order), left'[order[o]] = 0
        PROVE  finish'[order[o]] = FinishTime(order[o])'
    <3>1. order[o] # p0
      <4>1. p0 \in Process /\ left[p0] \in Nat /\ slice \in Nat /\ left[p0] > slice
        BY <1>1, <1>4, <1>7, <1>8, <1>10
      <4>2. left'[p0] = left[p0] - slice
        BY <1>1, <1>4, <4>1
      <4>3. left'[p0] # 0
        BY <4>1, <4>2
      <4> QED BY <2>1, <4>3
    <3>2. left[order[o]] = 0
      BY <1>1, <1>4, <1>7, <2>1, <3>1
    <3>3. FinishTime(order[o])' = FinishTime(order[o])
      BY <1>4 DEF FinishTime, Rounds, Position
    <3> QED BY <1>4, <1>5, <3>2, <3>3
  <2> QED BY <1>4, <1>5, <1>9, <1>11, <2>1 DEF RoundsAreKept
<1>15. CASE index + 1 # n
  <2>1. index' = index + 1
    BY <1>4, <1>15
  <2>2. ASSUME NEW j \in 1 .. n, NEW o \in 1 .. Len(order), order[o] = q[j]
        PROVE  o <= z <=> j <= index + 1
    <3>1. CASE j = index + 1
      BY <1>7, <1>13, <2>2, <3>1
    <3>2. CASE j < index + 1
      BY <1>1, <1>7, <1>8, <1>12, <2>2, <3>2
    <3>3. CASE index + 1 < j
      BY <1>1, <1>7, <1>8, <1>12, <2>2, <3>3
    <3> QED BY <1>1, <3>1, <3>2, <3>3
  <2>3. Follows(z)'
    BY <1>4, <1>12, <2>1, <2>2 DEF Follows, Last
  <2>4. (Turns(slice * turns, z) /\ Follows(z))'
    BY <1>4, <1>9, <1>11, <2>3
  <2>5. \E t \in Nat : \E h \in 0 .. Len(order)' : (Turns(slice * t, h) /\ Follows(h))'
    BY <1>4, <1>7, <2>4
  <2> QED BY <1>14, <2>5
<1>16. CASE index + 1 = n
  <2>1. index' = 0
    BY <1>4, <1>16
  <2>2. \A j \in 1 .. n : \A o \in 1 .. Len(order) : o <= 0 <=> j <= 0
    BY <1>1, <1>7
  <2>3. Follows(0)'
    BY <1>4, <1>12, <2>1, <2>2 DEF Follows, Last
  <2>4. (Turns(slice * (turns + 1), 0) /\ Follows(0))'
    <3>1. slice' * (turns + 1) = g + slice /\ slice' = slice
      BY <1>4, <1>9
    <3>2. Turns(g + slice, 0)'
      BY <1>11, <1>16
    <3> QED BY <2>3, <3>1, <3>2
  <2>5. \E t \in Nat : \E h \in 0 .. Len(order)' : (Turns(slice * t, h) /\ Follows(h))'
    BY <1>4, <1>7, <2>4
  <2> QED BY <1>14, <2>5
<1> QED BY <1>15, <1>16

\* The process at place z that ends in the round after turns whole ones has had
\* turns + 1 slices, the last of which it may not have needed all of: what everybody
\* has been served by then is its finish time.
LEMMA RoundsGiveFinish ==
  ASSUME NoDup(order), order \in Seq(Process), slice \in Nat \ {0},
         NEW turns \in Nat, NEW z \in 1 .. Len(order), NEW x \in Nat,
         x \in 1 .. slice, base[order[z]] = slice * turns + x,
         NEW s \in [1 .. Len(order) -> Int],
         \A o \in 1 .. Len(order) :
            s[o] = Least(base[order[o]], IF o <= z THEN slice * (turns + 1) ELSE slice * turns)
  PROVE  FinishTime(order[z]) = SumOf(s, Len(order))
<1> DEFINE f == [o \in DOMAIN order |->
                   Least(base[order[o]],
                         slice * (IF o <= Position(order[z]) THEN Rounds(order[z])
                                  ELSE Rounds(order[z]) - 1))]
<1>1. DOMAIN order = 1 .. Len(order) /\ Len(order) \in Nat
  OBVIOUS
<1>2. Position(order[z]) = z
  BY <1>1 DEF Position, NoDup
<1>3. Rounds(order[z]) = turns + 1
  <2>1. (slice * turns + x + slice - 1) \div slice = turns + 1
    BY Ceiling
  <2> QED BY <2>1 DEF Rounds
<1>4. \A o \in 1 .. Len(order) : f[o] = s[o]
  <2> SUFFICES ASSUME NEW o \in 1 .. Len(order) PROVE f[o] = s[o]
    OBVIOUS
  <2>1. f[o] = Least(base[order[o]], slice * (IF o <= z THEN turns + 1 ELSE (turns + 1) - 1))
    BY <1>1, <1>2, <1>3
  <2>2. (turns + 1) - 1 = turns
    OBVIOUS
  <2>3. slice * (IF o <= z THEN turns + 1 ELSE turns)
          = IF o <= z THEN slice * (turns + 1) ELSE slice * turns
    OBVIOUS
  <2> QED BY <2>1, <2>2, <2>3
<1>5. f = s
  <2>1. DOMAIN f = 1 .. Len(order)
    BY <1>1
  <2>2. f = [o \in 1 .. Len(order) |-> f[o]] /\ s = [o \in 1 .. Len(order) |-> s[o]]
    BY <2>1
  <2> HIDE DEF f
  <2> QED BY <1>4, <2>2
<1> QED BY <1>5 DEF FinishTime

\* The last slice: the process leaves the list with the time on the clock, and the next
\* one moves up to index.
LEMMA RoundsEnd ==
  ASSUME SchedulerInv, RoundsAreKept, RRFinish
  PROVE  RoundsAreKept'
<1> DEFINE q == queues[Last]
           n == Len(q)
           p0 == q[index + 1]
           r == Removed(q, index)
<1>1. /\ n \in Nat /\ q \in Seq(Process) /\ NoDup(q) /\ index \in 0 .. n - 1 /\ index + 1 \in 1 .. n
      /\ left \in [Process -> 0 .. MaxServe] /\ slice \in Nat \ {0} /\ MaxServe \in Nat
      /\ Last \in Level /\ queues \in [Level -> Seq(Process)]
  <2>1. phase \in {"sort", "rr"}
    BY DEF RRFinish, RRLeave
  <2> QED BY <2>1, AtLast
<1>2. index % n = index
  <2> HIDE DEF n
  <2> QED BY <1>1, Around
<1>3. Scheduled = p0 /\ Rest = r
  BY <1>2 DEF Scheduled, Rest
<1>4. /\ phase = "rr" /\ left[p0] <= slice
      /\ clock' = clock + left[p0]
      /\ left' = [left EXCEPT ![p0] = 0] /\ finish' = [finish EXCEPT ![p0] = clock']
      /\ queues' = [queues EXCEPT ![Last] = r]
      /\ IF r = <<>> THEN phase' = "ended" /\ index' = index
         ELSE phase' = phase /\ index' = (index + 0) % Len(r)
      /\ UNCHANGED <<slice, base, order>>
  BY <1>3 DEF RRFinish, RRLeave
<1>5. /\ r \in Seq(Process) /\ Len(r) = n - 1
      /\ \A j \in 1 .. n - 1 : r[j] = IF j <= index THEN q[j] ELSE q[j + 1]
  BY <1>1, RemovedIsList
<1>6. /\ NoDup(order)
      /\ clock = SumOf(Service, Len(order))
      /\ \A o \in 1 .. Len(order) :
            left[order[o]] = 0 => finish[order[o]] = FinishTime(order[o])
  BY <1>4 DEF RoundsAreKept
<1>7. PICK turns \in Nat, m \in 0 .. Len(order) : Turns(slice * turns, m) /\ Follows(m)
  BY <1>4 DEF RoundsAreKept
<1>8. /\ Len(order) \in Nat /\ order \in Seq(Process) /\ finish \in [Process -> Nat]
      /\ \A o \in 1 .. Len(order) : order[o] \in Process /\ left[order[o]] \in Nat
  BY OrderTypes
<1>9. PICK z \in 1 .. Len(order) : order[z] = p0
  BY <1>1, <1>7 DEF Follows
<1>10. PICK g \in Nat, d \in Nat :
          d = left[p0] /\ g = slice * turns /\ slice * (turns + 1) = g + slice
  <2>1. slice * turns \in Nat /\ slice * (turns + 1) = slice * turns + slice
    BY <1>1
  <2>2. left[p0] \in Nat
    BY <1>8, <1>9
  <2> QED BY <2>1, <2>2
<1>11. d = Least(left[p0], slice)
  BY <1>1, <1>4, <1>10 DEF Least
<1>12. /\ left[p0] = base[p0] - g /\ left[p0] > 0
       /\ Turns(g, z)'
       /\ index + 1 = n => Turns(g + slice, 0)'
       /\ SumOf(Service', Len(order)) = SumOf(Service, Len(order)) + d
  <2>1. left' = [left EXCEPT ![order[z]] = @ - d]
    <3>1. left[p0] - d = 0
      BY <1>10
    <3> QED BY <1>4, <1>9, <3>1
  <2>2. /\ SchedulerInv /\ phase = "rr" /\ NoDup(order) /\ g \in Nat /\ m \in 0 .. Len(order)
        /\ Turns(g, m) /\ Follows(m)
        /\ z \in 1 .. Len(order) /\ order[z] = queues[Last][index + 1]
        /\ d = Least(left[order[z]], slice)
        /\ UNCHANGED <<base, order, slice>>
    BY <1>4, <1>6, <1>7, <1>9, <1>10, <1>11
  <2>3. /\ left[order[z]] = base[order[z]] - g /\ left[order[z]] > 0
        /\ Turns(g, z)'
        /\ index + 1 = Len(queues[Last]) => Turns(g + slice, 0)'
        /\ SumOf(Service', Len(order)) = SumOf(Service, Len(order)) + d
    BY ONLY <2>1, <2>2, TurnTaken
  <2> QED BY <1>9, <2>3
<1>13. \A o \in 1 .. Len(order) : order[o] = p0 => o = z
  BY <1>6, <1>9 DEF NoDup
<1>14. /\ \A j \in 1 .. n : \E o \in 1 .. Len(order) : order[o] = q[j]
       /\ \A j, k \in 1 .. n : \A o, h \in 1 .. Len(order) :
             order[o] = q[j] /\ order[h] = q[k] /\ j < k => o < h
  BY <1>7 DEF Follows
<1>15. queues'[Last] = r /\ Last' = Last /\ Len(order)' = Len(order)
  BY <1>1, <1>4, <1>5 DEF Last
<1>16. clock' = SumOf(Service, Len(order))'
  BY <1>4, <1>6, <1>10, <1>12
<1>17. FinishTime(order[z])' = clock'
  <2>1. FinishTime(order[z])' = FinishTime(order[z])
    BY <1>4 DEF FinishTime, Rounds, Position
  <2>2. PICK s : s = Service'
    OBVIOUS
  <2>3. \A o \in 1 .. Len(order) :
           s[o] = Least(base[order[o]], IF o <= z THEN g + slice ELSE g)
    BY <1>4, <2>2, <1>12 DEF Turns
  <2>4. s \in [1 .. Len(order) -> Int]
    <3>1. SchedulerInv'
      BY RRFinishStep
    <3>2. /\ \A o \in 1 .. Len(order) : order[o] \in Process
          /\ \A p \in Process : base[p] \in Nat /\ left'[p] \in Int
      <4>1. \A p \in Process : left'[p] \in Int /\ base[p] \in Nat
        BY <1>1, <1>4, TimesAreNumbers
      <4> QED BY <1>8, <4>1
    <3> QED BY <1>4, <2>2, <3>2 DEF Service
  <2>5. d \in 1 .. slice /\ base[order[z]] = slice * turns + d
    <3>1. base[p0] \in Int /\ d > 0 /\ d <= slice /\ d = base[p0] - g
      BY <1>4, <1>8, <1>9, <1>10, <1>12, TimesAreNumbers
    <3>2. base[p0] = g + d
      BY <1>10, <3>1
    <3>3. slice \in Nat /\ d \in Nat /\ g = slice * turns /\ order[z] = p0
      BY <1>1, <1>9, <1>10
    <3> HIDE DEF p0, n, q, r
    <3>4. d \in 1 .. slice
      BY <3>1, <3>3
    <3>5. base[order[z]] = g + d
      BY <3>2, <3>3
    <3>6. g + d = slice * turns + d
      BY ONLY <3>3
    <3> QED BY <3>4, <3>5, <3>6
  <2>6. \A o \in 1 .. Len(order) :
           s[o] = Least(base[order[o]], IF o <= z THEN slice * (turns + 1) ELSE slice * turns)
    BY <1>10, <2>3
  <2>7. FinishTime(order[z]) = SumOf(s, Len(order))
    BY <1>1, <1>6, <1>8, <2>4, <2>5, <2>6, RoundsGiveFinish
  <2> QED BY <1>9, <1>16, <2>1, <2>2, <2>7, <1>15
<1>18. ASSUME NEW o \in 1 .. Len(order), left'[order[o]] = 0
       PROVE  finish'[order[o]] = FinishTime(order[o])'
  <2>1. CASE order[o] = p0
    <3>1. o = z
      BY <1>13, <2>1
    <3>2. finish'[order[z]] = clock'
      BY <1>4, <1>8, <1>9
    <3> QED BY <1>17, <3>1, <3>2
  <2>2. CASE order[o] # p0
    <3>1. left[order[o]] = 0 /\ finish'[order[o]] = finish[order[o]]
      BY <1>1, <1>4, <1>8, <1>18, <2>2
    <3>2. FinishTime(order[o])' = FinishTime(order[o])
      BY <1>4 DEF FinishTime, Rounds, Position
    <3> QED BY <1>6, <3>1, <3>2
  <2> QED BY <2>1, <2>2
<1> DEFINE at == [j \in 1 .. n - 1 |-> IF j <= index THEN j ELSE j + 1]
<1>19. /\ \A j \in 1 .. n - 1 : at[j] \in 1 .. n /\ r[j] = q[at[j]]
                                /\ (j <= index <=> at[j] < index + 1)
                                /\ (~ (j <= index) <=> index + 1 < at[j])
       /\ \A j, k \in 1 .. n - 1 : j < k => at[j] < at[k]
  <2>1. \A j \in 1 .. n - 1 : at[j] \in 1 .. n /\ (j <= index <=> at[j] < index + 1)
                              /\ (~ (j <= index) <=> index + 1 < at[j])
    BY <1>1
  <2>2. \A j \in 1 .. n - 1 : r[j] = q[at[j]]
    BY <1>5
  <2>3. \A j, k \in 1 .. n - 1 : j < k => at[j] < at[k]
    BY <1>1
  <2> HIDE DEF at, n, r, q, p0
  <2> QED BY ONLY <2>1, <2>2, <2>3
<1> HIDE DEF at, q, n, r, p0
<1>20. /\ \A j \in 1 .. n - 1 : \E o \in 1 .. Len(order) : order[o] = r[j]
       /\ \A j, k \in 1 .. n - 1 : \A o, h \in 1 .. Len(order) :
             order[o] = r[j] /\ order[h] = r[k] /\ j < k => o < h
  <2>1. ASSUME NEW j \in 1 .. n - 1 PROVE \E o \in 1 .. Len(order) : order[o] = r[j]
    BY <1>14, <1>19
  <2>2. ASSUME NEW j \in 1 .. n - 1, NEW k \in 1 .. n - 1,
               NEW o \in 1 .. Len(order), NEW h \in 1 .. Len(order),
               order[o] = r[j], order[h] = r[k], j < k
        PROVE  o < h
    <3>1. at[j] \in 1 .. n /\ at[k] \in 1 .. n /\ r[j] = q[at[j]] /\ r[k] = q[at[k]]
          /\ at[j] < at[k]
      BY <1>19, <2>2
    <3> QED BY <1>14, <2>2, <3>1
  <2> QED BY <2>1, <2>2
<1>21. r # <<>> => index' = IF index = n - 1 THEN 0 ELSE index
  <2> SUFFICES ASSUME r # <<>> PROVE index' = IF index = n - 1 THEN 0 ELSE index
    OBVIOUS
  <2>1. index' = (index + 0) % (n - 1) /\ index + 0 = index /\ n - 1 \in Nat \ {0}
    <3>1. Len(r) # 0
      BY <1>5
    <3> QED BY <1>1, <1>4, <1>5, <3>1
  <2>2. CASE index = n - 1
    <3>1. n - 2 \in 0 .. (n - 1) - 1 /\ (n - 2) + 1 = n - 1
      BY <1>1, <2>1
    <3>2. (n - 1) % (n - 1) = 0
      BY <2>1, <3>1, Around
    <3> QED BY <2>1, <2>2, <3>2
  <2>3. CASE index # n - 1
    <3>1. index \in 0 .. (n - 1) - 1
      BY <1>1, <2>3
    <3>2. index % (n - 1) = index
      BY <2>1, <3>1, Around
    <3> QED BY <2>1, <2>3, <3>2
  <2> QED BY <2>2, <2>3
<1>22. \E t \in Nat : \E h \in 0 .. Len(order) : (Turns(slice * t, h) /\ Follows(h))'
  <2>1. CASE index # n - 1
    <3>1. r # <<>> /\ index' = index
      BY <1>1, <1>5, <1>21, <2>1
    <3>2. ASSUME NEW j \in 1 .. n - 1, NEW o \in 1 .. Len(order), order[o] = r[j]
          PROVE  o <= z <=> j <= index
      <4>1. order[o] = q[at[j]] /\ order[z] = q[index + 1] /\ at[j] \in 1 .. n
        BY <1>9, <1>19, <3>2 DEF p0
      <4>2. j <= index => o < z
        BY <1>1, <1>14, <1>19, <4>1
      <4>3. ~ (j <= index) => z < o
        BY <1>1, <1>14, <1>19, <4>1
      <4>4. o \in Int /\ z \in Int
        BY <1>8
      <4> QED BY <4>2, <4>3, <4>4
    <3>3. Follows(z)'
      <4>1. /\ order' = order /\ queues'[Last'] = r /\ Len(r) = n - 1 /\ index' = index
        BY <1>4, <1>5, <1>15, <3>1
      <4>2. /\ \A j \in 1 .. Len(r) : \E o \in 1 .. Len(order) : order[o] = r[j]
            /\ \A j, k \in 1 .. Len(r) : \A o, h \in 1 .. Len(order) :
                  order[o] = r[j] /\ order[h] = r[k] /\ j < k => o < h
            /\ \A j \in 1 .. Len(r) : \A o \in 1 .. Len(order) :
                  order[o] = r[j] => (o <= z <=> j <= index)
        BY <1>20, <3>2, <4>1
      <4> QED BY <4>1, <4>2 DEF Follows
    <3>4. (Turns(slice * turns, z) /\ Follows(z))'
      BY <1>4, <1>10, <1>12, <3>3
    <3> QED BY <1>8, <3>4
  <2>2. CASE index = n - 1
    <3>1. index + 1 = n
      BY <1>1, <2>2
    <3>2. \A j \in 1 .. n - 1 : \A o \in 1 .. Len(order) : o <= 0 <=> j <= index'
      <4> SUFFICES ASSUME NEW j \in 1 .. n - 1 PROVE ~ (j <= index')
        BY <1>8
      <4>1. r # <<>>
        BY <1>1, <1>5
      <4> QED BY <1>1, <1>21, <2>2, <4>1
    <3>3. Follows(0)'
      <4>1. /\ order' = order /\ queues'[Last'] = r /\ Len(r) = n - 1
        BY <1>4, <1>5, <1>15
      <4>2. /\ \A j \in 1 .. Len(r) : \E o \in 1 .. Len(order) : order[o] = r[j]
            /\ \A j, k \in 1 .. Len(r) : \A o, h \in 1 .. Len(order) :
                  order[o] = r[j] /\ order[h] = r[k] /\ j < k => o < h
            /\ \A j \in 1 .. Len(r) : \A o \in 1 .. Len(order) :
                  order[o] = r[j] => (o <= 0 <=> j <= index')
        BY <1>20, <3>2, <4>1
      <4> QED BY <4>1, <4>2 DEF Follows
    <3>4. (Turns(slice * (turns + 1), 0) /\ Follows(0))'
      <4>1. slice' * (turns + 1) = g + slice /\ slice' = slice
        BY <1>4, <1>10
      <4>2. Turns(g + slice, 0)'
        BY <1>12, <3>1
      <4> QED BY <3>3, <4>1, <4>2
    <3>5. turns + 1 \in Nat /\ 0 \in 0 .. Len(order)
      BY <1>8
    <3> QED BY <3>4, <3>5
  <2> QED BY <2>1, <2>2
<1>23. phase' \notin {"level", "sort"}
  BY <1>4
<1>24. order' = order /\ NoDup(order)'
  BY <1>4, <1>6
<1> QED BY <1>16, <1>18, <1>22, <1>23, <1>24 DEF RoundsAreKept

\* Every turn of a loop keeps the rounds.
LEMMA RoundsStep ==
  ASSUME SchedulerInv, RoundsAreKept, [Next]_vars
  PROVE  RoundsAreKept'
<1>1. CASE Demote \/ Complete
  <2>1. phase = "level" /\ UNCHANGED <<clock, order>>
    BY <1>1 DEF Demote, DemoteInto, Complete, Remove
  <2>2. phase' \in {"level", "sort"}
    BY <1>1, <2>1 DEF Demote, DemoteInto, Complete, Remove, NextLevel
  <2> QED BY <2>1, <2>2 DEF RoundsAreKept
<1>2. CASE RRSort
  BY <1>2, RoundsBegin
<1>3. CASE RRSlice
  BY <1>3, RoundsGoOn
<1>4. CASE RRFinish
  BY <1>4, RoundsEnd
<1>5. CASE UNCHANGED vars
  <2>1. Service' = Service /\ Last' = Last /\ \A p : FinishTime(p)' = FinishTime(p)
    BY <1>5 DEF vars, Service, Last, FinishTime, Rounds, Position
  <2>2. \A g, m : Turns(g, m)' <=> Turns(g, m)
    BY <1>5, <2>1 DEF vars, Turns
  <2>3. \A m : Follows(m)' <=> Follows(m)
    BY <1>5, <2>1 DEF vars, Follows
  <2> QED BY <1>5, <2>1, <2>2, <2>3 DEF vars, RoundsAreKept
<1> QED BY <1>1, <1>2, <1>3, <1>4, <1>5 DEF Next

\* The finish time that RR reports is the sum of what everybody has been served by
\* then, round by round, for any number of processes, times and slices.
THEOREM FinishTimesAreRightHolds == Spec => []FinishTimesAreRight
<1>1. Init => SchedulerInv /\ RoundsAreKept
  BY SchedulerInit, RoundsInit
<1>2. SchedulerInv /\ RoundsAreKept /\ [Next]_vars => (SchedulerInv /\ RoundsAreKept)'
  BY SchedulerStep, RoundsStep
<1>3. SchedulerInv /\ RoundsAreKept => FinishTimesAreRight
  <2> SUFFICES ASSUME SchedulerInv, RoundsAreKept, NEW o \in DOMAIN order, left[order[o]] = 0
               PROVE  finish[order[o]] = FinishTime(order[o])
    BY DEF FinishTimesAreRight
  <2>1. o \in 1 .. Len(order)
    BY OrderTypes
  <2>2. phase \in {"level", "sort"} => order = <<>> /\ 1 .. Len(order) = {}
    BY DEF RoundsAreKept
  <2> QED BY <2>1, <2>2 DEF RoundsAreKept
<1> QED BY <1>1, <1>2, <1>3, PTL DEF Spec
-----------------------------------------------------------------------------
(* Lists: what the operations on sequences do to each element.             *)

\* The elements m .. n of a sequence
LEMMA PartOf ==
  ASSUME NEW S, NEW s \in Seq(S), NEW m \in 1 .. Len(s) + 1, NEW n \in m - 1 .. Len(s)
  PROVE  /\ SubSeq(s, m, n) \in Seq(S)
         /\ Len(SubSeq(s, m, n)) = n - m + 1
         /\ \A k \in 1 .. n - m + 1 : SubSeq(s, m, n)[k] = s[m + k - 1]
<1>1. m \in Int /\ n \in Int /\ Len(s) \in Nat
  OBVIOUS
<1>2. \A k \in m .. n : s[k] \in S
  BY <1>1, ElementOfSeq
<1>3. (IF m <= n THEN n - m + 1 ELSE 0) = n - m + 1
  BY <1>1
<1> QED BY <1>1, <1>2, <1>3, SubSeqProperties

\* InsertAt makes room at j.
LEMMA InsertedAt ==
  ASSUME NEW S, NEW s \in Seq(S), NEW e \in S, NEW j \in 1 .. Len(s) + 1
  PROVE  /\ L!InsertAt(s, j, e) \in Seq(S)
         /\ Len(L!InsertAt(s, j, e)) = Len(s) + 1
         /\ \A k \in 1 .. Len(s) + 1 :
               L!InsertAt(s, j, e)[k] = IF k < j THEN s[k] ELSE IF k = j THEN e ELSE s[k - 1]
<1>1. j \in Int /\ Len(s) \in Nat /\ 1 \in 1 .. Len(s) + 1 /\ j - 1 \in 1 - 1 .. Len(s)
      /\ Len(s) \in j - 1 .. Len(s)
  OBVIOUS
<1> DEFINE a == SubSeq(s, 1, j - 1)
           z == SubSeq(s, j, Len(s))
<1>2. /\ a \in Seq(S) /\ Len(a) = j - 1 /\ \A k \in 1 .. j - 1 : a[k] = s[k]
      /\ z \in Seq(S) /\ Len(z) = Len(s) - j + 1
      /\ \A k \in 1 .. Len(s) - j + 1 : z[k] = s[j + k - 1]
  <2>1. /\ a \in Seq(S) /\ Len(a) = (j - 1) - 1 + 1
        /\ \A k \in 1 .. (j - 1) - 1 + 1 : a[k] = s[1 + k - 1]
    BY ONLY <1>1, PartOf, s \in Seq(S)
  <2>2. /\ z \in Seq(S) /\ Len(z) = Len(s) - j + 1
        /\ \A k \in 1 .. Len(s) - j + 1 : z[k] = s[j + k - 1]
    BY ONLY <1>1, PartOf, s \in Seq(S), j \in 1 .. Len(s) + 1
  <2> HIDE DEF a, z
  <2>3. (j - 1) - 1 + 1 = j - 1
    BY <1>1
  <2>4. \A k \in 1 .. j - 1 : 1 + k - 1 = k
    BY <1>1
  <2> QED BY <2>1, <2>2, <2>3, <2>4
<1> HIDE DEF a, z
<1> DEFINE ae == a \o <<e>>
<1>3. /\ ae \in Seq(S) /\ Len(ae) = j
      /\ \A k \in 1 .. j : ae[k] = IF k < j THEN s[k] ELSE e
  <2>1. <<e>> \in Seq(S) /\ Len(<<e>>) = 1 /\ <<e>>[1] = e
    OBVIOUS
  <2>2. /\ ae \in Seq(S) /\ Len(ae) = Len(a) + 1
        /\ \A k \in 1 .. Len(a) + 1 : ae[k] = IF k <= Len(a) THEN a[k] ELSE <<e>>[k - Len(a)]
    BY <1>2, <2>1, ConcatProperties
  <2> HIDE DEF ae
  <2>3. ASSUME NEW k \in 1 .. j PROVE ae[k] = IF k < j THEN s[k] ELSE e
    <3>1. k \in 1 .. Len(a) + 1 /\ (k <= Len(a) <=> k < j) /\ (k < j => k \in 1 .. j - 1)
      BY <1>1, <1>2
    <3>2. ae[k] = IF k <= Len(a) THEN a[k] ELSE <<e>>[k - Len(a)]
      BY <2>2, <3>1
    <3>3. CASE k < j
      BY <1>2, <3>1, <3>2, <3>3
    <3>4. CASE ~ (k < j)
      <4>1. k - Len(a) = 1
        BY <1>1, <1>2, <3>4
      <4> QED BY <2>1, <3>1, <3>2, <3>4, <4>1
    <3> QED BY <3>3, <3>4
  <2> QED BY <1>1, <1>2, <2>2, <2>3
<1> HIDE DEF ae
<1>4. /\ ae \o z \in Seq(S) /\ Len(ae \o z) = Len(s) + 1
      /\ \A k \in 1 .. Len(s) + 1 : (ae \o z)[k] = IF k <= j THEN ae[k] ELSE z[k - j]
  <2>1. Len(ae) = j /\ Len(ae) + Len(z) = Len(s) + 1
    BY <1>1, <1>2, <1>3
  <2>2. /\ ae \o z \in Seq(S) /\ Len(ae \o z) = Len(ae) + Len(z)
        /\ \A k \in 1 .. Len(ae) + Len(z) :
              (ae \o z)[k] = IF k <= Len(ae) THEN ae[k] ELSE z[k - Len(ae)]
    BY ONLY <1>2, <1>3, ConcatProperties
  <2> QED BY <2>1, <2>2
<1>5. ASSUME NEW k \in 1 .. Len(s) + 1
      PROVE  (ae \o z)[k] = IF k < j THEN s[k] ELSE IF k = j THEN e ELSE s[k - 1]
  <2>1. CASE k <= j
    BY <1>1, <1>3, <1>4, <2>1
  <2>2. CASE k > j
    <3>1. k - j \in 1 .. Len(s) - j + 1 /\ j + (k - j) - 1 = k - 1
      BY <1>1, <2>2
    <3>2. z[k - j] = s[j + (k - j) - 1]
      BY <1>2, <3>1
    <3> QED BY <1>1, <1>4, <2>2, <3>1, <3>2
  <2>3. k \in Int /\ (k <= j \/ k > j)
    BY <1>1
  <2> QED BY ONLY <2>1, <2>2, <2>3
<1>6. L!InsertAt(s, j, e) = ae \o z
  BY DEF L!InsertAt, ae, a, z
<1> QED BY <1>4, <1>5, <1>6

\* RemoveAt closes the gap at j.
LEMMA RemovedAt ==
  ASSUME NEW S, NEW s \in Seq(S), NEW j \in 1 .. Len(s)
  PROVE  /\ L!RemoveAt(s, j) \in Seq(S)
         /\ Len(L!RemoveAt(s, j)) = Len(s) - 1
         /\ \A k \in 1 .. Len(s) - 1 : L!RemoveAt(s, j)[k] = IF k < j THEN s[k] ELSE s[k + 1]
<1>1. j \in Int /\ Len(s) \in Nat /\ 1 \in 1 .. Len(s) + 1 /\ j - 1 \in 1 - 1 .. Len(s)
      /\ j + 1 \in 1 .. Len(s) + 1 /\ Len(s) \in (j + 1) - 1 .. Len(s)
  OBVIOUS
<1> DEFINE a == SubSeq(s, 1, j - 1)
           z == SubSeq(s, j + 1, Len(s))
<1>2. /\ a \in Seq(S) /\ Len(a) = j - 1 /\ \A k \in 1 .. j - 1 : a[k] = s[k]
      /\ z \in Seq(S) /\ Len(z) = Len(s) - j
      /\ \A k \in 1 .. Len(s) - j : z[k] = s[j + k]
  <2>1. /\ a \in Seq(S) /\ Len(a) = (j - 1) - 1 + 1
        /\ \A k \in 1 .. (j - 1) - 1 + 1 : a[k] = s[1 + k - 1]
    BY ONLY <1>1, PartOf, s \in Seq(S)
  <2>2. /\ z \in Seq(S) /\ Len(z) = Len(s) - (j + 1) + 1
        /\ \A k \in 1 .. Len(s) - (j + 1) + 1 : z[k] = s[(j + 1) + k - 1]
    BY ONLY <1>1, PartOf, s \in Seq(S)
  <2> HIDE DEF a, z
  <2>3. (j - 1) - 1 + 1 = j - 1 /\ Len(s) - (j + 1) + 1 = Len(s) - j
    BY <1>1
  <2>4. \A k \in 1 .. j - 1 : 1 + k - 1 = k
    BY <1>1
  <2>5. \A k \in 1 .. Len(s) - j : (j + 1) + k - 1 = j + k
    BY <1>1
  <2> QED BY <2>1, <2>2, <2>3, <2>4, <2>5
<1> HIDE DEF a, z
<1>3. /\ a \o z \in Seq(S) /\ Len(a \o z) = Len(s) - 1
      /\ \A k \in 1 .. Len(s) - 1 : (a \o z)[k] = IF k <= j - 1 THEN a[k] ELSE z[k - (j - 1)]
  <2>1. Len(a) = j - 1 /\ Len(a) + Len(z) = Len(s) - 1
    BY <1>1, <1>2
  <2>2. /\ a \o z \in Seq(S) /\ Len(a \o z) = Len(a) + Len(z)
        /\ \A k \in 1 .. Len(a) + Len(z) :
              (a \o z)[k] = IF k <= Len(a) THEN a[k] ELSE z[k - Len(a)]
    BY ONLY <1>2, ConcatProperties
  <2> QED BY <2>1, <2>2
<1>4. ASSUME NEW k \in 1 .. Len(s) - 1
      PROVE  (a \o z)[k] = IF k < j THEN s[k] ELSE s[k + 1]
  <2>1. CASE k < j
    BY <1>1, <1>2, <1>3, <2>1
  <2>2. CASE k >= j
    <3>1. k - (j - 1) \in 1 .. Len(s) - j /\ j + (k - (j - 1)) = k + 1
      BY <1>1, <2>2
    <3>3. ~ (k <= j - 1) /\ ~ (k < j)
      BY <1>1, <2>2
    <3>2. z[k - (j - 1)] = s[j + (k - (j - 1))]
      BY <1>2, <3>1
    <3> QED BY <1>3, <3>1, <3>2, <3>3
  <2>3. k < j \/ k >= j
    BY <1>1
  <2> QED BY ONLY <2>1, <2>2, <2>3
<1>5. L!RemoveAt(s, j) = a \o z
  BY DEF L!RemoveAt, a, z
<1> QED BY <1>3, <1>4, <1>5

\* Front leaves the last element out.
LEMMA FrontOf ==
  ASSUME NEW S, NEW s \in Seq(S), Len(s) > 0
  PROVE  /\ L!Front(s) \in Seq(S) /\ Len(L!Front(s)) = Len(s) - 1
         /\ \A k \in 1 .. Len(s) - 1 : L!Front(s)[k] = s[k]
<1>1. Len(s) \in Nat /\ 1 \in 1 .. Len(s) + 1 /\ Len(s) - 1 \in 1 - 1 .. Len(s)
  OBVIOUS
<1>2. /\ SubSeq(s, 1, Len(s) - 1) \in Seq(S)
      /\ Len(SubSeq(s, 1, Len(s) - 1)) = (Len(s) - 1) - 1 + 1
      /\ \A k \in 1 .. (Len(s) - 1) - 1 + 1 : SubSeq(s, 1, Len(s) - 1)[k] = s[1 + k - 1]
  BY ONLY <1>1, PartOf, s \in Seq(S)
<1>3. (Len(s) - 1) - 1 + 1 = Len(s) - 1 /\ \A k \in 1 .. Len(s) - 1 : 1 + k - 1 = k
  BY <1>1
<1>4. L!Front(s) = SubSeq(s, 1, Len(s) - 1)
  BY DEF L!Front
<1> QED BY <1>2, <1>3, <1>4

-----------------------------------------------------------------------------
(* Lists: the array and the stack.                                         *)

\* What a cell may hold
Cell == Value \cup {Garbage}

\* Each element that is known is in its cell.
ArraysHold ==
    /\ kind \in {"SqList", "SqStack", "LinkList"}
    /\ length \in Nat /\ block \in Seq(Cell) /\ items \in Seq(Cell)
    /\ kind = "SqList" => length <= Len(block)
    /\ kind # "LinkList" =>
          /\ Len(items) = length
          /\ \A k \in 1 .. length : items[k] # Garbage => k <= Len(block) /\ block[k] = items[k]

\* A block of garbage
LEMMA BlankCells ==
  ASSUME NEW n \in Nat
  PROVE  /\ L!Blank(n) \in Seq(Cell) /\ Len(L!Blank(n)) = n
         /\ \A k \in 1 .. n : L!Blank(n)[k] = Garbage
BY DEF L!Blank, Cell

\* A write that is inside of the block changes one cell.
LEMMA PutCell ==
  ASSUME NEW b \in Seq(Cell), NEW j, NEW e \in Cell
  PROVE  /\ L!Put(b, j, e) \in Seq(Cell) /\ Len(L!Put(b, j, e)) = Len(b)
         /\ \A k \in 1 .. Len(b) : L!Put(b, j, e)[k] = IF k = j THEN e ELSE b[k]
<1>1. DOMAIN b = 1 .. Len(b) /\ Len(b) \in Nat /\ \A k \in 1 .. Len(b) : b[k] \in Cell
  OBVIOUS
<1>2. L!Put(b, j, e) = [k \in 1 .. Len(b) |-> IF k = j THEN e ELSE b[k]]
  BY <1>1 DEF L!Put
<1> QED BY <1>1, <1>2

\* realloc keeps what is in the block, and there is room for one more.
LEMMA GrownBlock ==
  ASSUME length \in Nat, block \in Seq(Cell)
  PROVE  /\ L!Grown \in Seq(Cell) /\ Len(block) <= Len(L!Grown)
         /\ length <= Len(block) => length < Len(L!Grown)
         /\ length < Len(block) => L!Grown = block
         /\ length >= Len(block) => Len(L!Grown) = Len(block) + Increment
         /\ \A k \in 1 .. Len(block) : L!Grown[k] = block[k]
<1>1. Increment \in Nat \ {0} /\ Len(block) \in Nat
  BY ProgramsAssumption
<1>2. CASE length < Len(block)
  <2>1. L!Grown = block
    BY <1>1, <1>2 DEF L!Grown
  <2> QED BY <1>1, <1>2, <2>1
<1>3. CASE length >= Len(block)
  <2>1. L!Grown = block \o L!Blank(Increment)
    BY <1>1, <1>3 DEF L!Grown
  <2>2. L!Blank(Increment) \in Seq(Cell) /\ Len(L!Blank(Increment)) = Increment
    BY <1>1, BlankCells
  <2>3. /\ L!Grown \in Seq(Cell) /\ Len(L!Grown) = Len(block) + Increment
        /\ \A k \in 1 .. Len(block) + Increment : k <= Len(block) => L!Grown[k] = block[k]
    BY <2>1, <2>2, ConcatProperties
  <2> QED BY <1>1, <1>3, <2>3
<1> QED BY <1>1, <1>2, <1>3

\* ListInsert: the cells from i on move up.
LEMMA InsertListStep ==
  ASSUME ArraysHold, NEW e \in Value, NEW j \in 1 .. length + 2, L!InsertList(j, e)
  PROVE  ArraysHold'
<1>1. PICK g : g = L!Grown
  OBVIOUS
<1>2. PICK n : n = length
  OBVIOUS
<1> DEFINE up == [k \in DOMAIN g |-> IF k \in j + 1 .. n + 1 THEN g[k - 1] ELSE g[k]]
<1>3. /\ kind = "SqList" /\ kind' = kind
      /\ block' = L!Put(up, j, e) /\ length' = n + 1
      /\ items' = IF j <= n + 1 THEN L!InsertAt(items, j, e) ELSE Append(items, Garbage)
  BY <1>1, <1>2 DEF L!InsertList, L!InsertAtWith, L!Array
<1>4. /\ n \in Nat /\ j \in 1 .. n + 2 /\ e \in Cell /\ Garbage \in Cell
      /\ block \in Seq(Cell) /\ items \in Seq(Cell) /\ Len(items) = n /\ n <= Len(block)
      /\ \A k \in 1 .. n : items[k] # Garbage => block[k] = items[k]
  BY <1>2, <1>3 DEF ArraysHold, Cell
<1>5. /\ g \in Seq(Cell) /\ n < Len(g) /\ Len(g) \in Nat
      /\ \A k \in 1 .. Len(block) : g[k] = block[k]
  <2>1. length \in Nat
    BY <1>2, <1>4
  <2> QED BY <1>1, <1>2, <1>4, <2>1, GrownBlock
<1>6. /\ up \in Seq(Cell) /\ Len(up) = Len(g)
      /\ \A k \in 1 .. Len(g) : up[k] = IF k \in j + 1 .. n + 1 THEN g[k - 1] ELSE g[k]
  <2>1. DOMAIN g = 1 .. Len(g)
    BY <1>5
  <2>2. ASSUME NEW k \in 1 .. Len(g)
        PROVE  (IF k \in j + 1 .. n + 1 THEN g[k - 1] ELSE g[k]) \in Cell
    <3>1. k \in j + 1 .. n + 1 => k - 1 \in 1 .. Len(g)
      BY <1>4, <1>5
    <3> QED BY <1>5, <3>1
  <2>3. up = [k \in 1 .. Len(g) |-> IF k \in j + 1 .. n + 1 THEN g[k - 1] ELSE g[k]]
    BY <2>1
  <2> HIDE DEF up
  <2> QED BY <1>5, <2>2, <2>3
<1> HIDE DEF up
<1>7. /\ block' \in Seq(Cell) /\ Len(block') = Len(g)
      /\ \A k \in 1 .. Len(g) : block'[k] = IF k = j THEN e ELSE up[k]
  BY <1>3, <1>4, <1>6, PutCell
<1>8. ASSUME j <= n + 1
      PROVE  /\ items' \in Seq(Cell) /\ Len(items') = n + 1
             /\ \A k \in 1 .. n + 1 :
                   items'[k] = IF k < j THEN items[k] ELSE IF k = j THEN e ELSE items[k - 1]
  <2>1. items' = L!InsertAt(items, j, e) /\ j \in 1 .. Len(items) + 1
    BY <1>3, <1>4, <1>8
  <2>2. e \in Cell /\ items \in Seq(Cell) /\ Len(items) = n
    BY <1>4
  <2>3. PICK s : s = items
    OBVIOUS
  <2>4. /\ L!InsertAt(s, j, e) \in Seq(Cell) /\ Len(L!InsertAt(s, j, e)) = Len(s) + 1
        /\ \A k \in 1 .. Len(s) + 1 : L!InsertAt(s, j, e)[k] =
              IF k < j THEN s[k] ELSE IF k = j THEN e ELSE s[k - 1]
    <3>1. s \in Seq(Cell) /\ j \in 1 .. Len(s) + 1 /\ e \in Cell
      BY <2>1, <2>2, <2>3
    <3> QED BY ONLY <3>1, InsertedAt
  <2>5. items' = L!InsertAt(s, j, e) /\ Len(s) = n
    BY <2>1, <2>2, <2>3
  <2> QED BY ONLY <2>3, <2>4, <2>5
<1>9. ASSUME ~ (j <= n + 1)
      PROVE  /\ items' \in Seq(Cell) /\ Len(items') = n + 1 /\ j = n + 2
             /\ \A k \in 1 .. n + 1 : items'[k] = IF k = n + 1 THEN Garbage ELSE items[k]
  <2>1. items' = Append(items, Garbage) /\ j = n + 2
    BY <1>3, <1>4, <1>9
  <2> QED BY <1>4, <2>1, AppendProperties
<1>10. ASSUME NEW k \in 1 .. n + 1, items'[k] # Garbage
       PROVE  k <= Len(block') /\ block'[k] = items'[k]
  <2>1. k \in 1 .. Len(g) /\ k <= Len(block')
    BY <1>4, <1>5, <1>7
  <2>2. CASE j <= n + 1
    <3>1. CASE k < j
      <4>1. items'[k] = items[k] /\ k \in 1 .. n /\ k \in 1 .. Len(block)
        BY <1>4, <1>8, <2>2, <3>1
      <4>2. block'[k] = up[k] /\ up[k] = g[k] /\ g[k] = block[k]
        BY <1>4, <1>5, <1>6, <1>7, <2>1, <3>1, <4>1
      <4> QED BY <1>4, <1>10, <2>1, <4>1, <4>2
    <3>2. CASE k = j
      BY <1>4, <1>7, <1>8, <2>1, <2>2, <3>2
    <3>3. CASE k > j
      <4>1. items'[k] = items[k - 1] /\ k - 1 \in 1 .. n /\ k - 1 \in 1 .. Len(block)
        BY <1>4, <1>8, <2>2, <3>3
      <4>2. k \in j + 1 .. n + 1 /\ k # j
        BY <1>4, <3>3
      <4>3. block'[k] = up[k] /\ up[k] = g[k - 1] /\ g[k - 1] = block[k - 1]
        BY <1>5, <1>6, <1>7, <2>1, <4>1, <4>2
      <4> QED BY <1>4, <1>10, <2>1, <4>1, <4>3
    <3> QED BY <1>4, <3>1, <3>2, <3>3
  <2>3. CASE ~ (j <= n + 1)
    <3>1. k # n + 1 /\ items'[k] = items[k] /\ k \in 1 .. n /\ k \in 1 .. Len(block)
      BY <1>4, <1>9, <1>10, <2>3
    <3>2. k # j /\ ~ (k \in j + 1 .. n + 1)
      BY <1>4, <1>9, <2>3
    <3>3. block'[k] = up[k] /\ up[k] = g[k] /\ g[k] = block[k]
      BY <1>5, <1>6, <1>7, <2>1, <3>1, <3>2
    <3> QED BY <1>4, <1>10, <2>1, <3>1, <3>3
  <2> QED BY <2>2, <2>3
<1>11. items' \in Seq(Cell) /\ Len(items') = n + 1
  BY <1>8, <1>9
<1>12. length' \in Nat /\ length' <= Len(block') /\ length' = n + 1
  BY <1>3, <1>4, <1>5, <1>7
<1> QED BY <1>3, <1>7, <1>10, <1>11, <1>12 DEF ArraysHold

\* push: on the top, or nowhere when the block was full
LEMMA PushStep ==
  ASSUME ArraysHold, NEW e \in Value, L!Push(e)
  PROVE  ArraysHold'
<1>1. PICK g : g = L!Grown
  OBVIOUS
<1>2. PICK n : n = length
  OBVIOUS
<1>3. PICK m : m = Len(block)
  OBVIOUS
<1>4. PICK top : top = IF n >= m THEN Len(g) ELSE n
  OBVIOUS
<1>5. /\ kind = "SqStack" /\ kind' = kind
      /\ block' = L!Put(g, top + 1, e) /\ length' = top + 1
      /\ items' = IF n < m THEN Append(items, e) ELSE SubSeq(items, 1, m) \o L!Blank(top + 1 - m)
  BY <1>1, <1>2, <1>3, <1>4 DEF L!Push, L!Array
<1>6. /\ n \in Nat /\ m \in Nat /\ e \in Cell
      /\ block \in Seq(Cell) /\ items \in Seq(Cell) /\ Len(items) = n
      /\ \A k \in 1 .. n : items[k] # Garbage => k <= m /\ block[k] = items[k]
  BY <1>2, <1>3, <1>5 DEF ArraysHold, Cell
<1>7. /\ g \in Seq(Cell) /\ Len(g) \in Nat /\ m <= Len(g)
      /\ n < m => g = block
      /\ \A k \in 1 .. m : g[k] = block[k]
  <2>1. length \in Nat
    BY <1>2, <1>6
  <2>2. g \in Seq(Cell) /\ Len(block) <= Len(g) /\ (length < Len(block) => g = block)
        /\ \A k \in 1 .. Len(block) : g[k] = block[k]
    BY <1>1, <1>6, <2>1, GrownBlock
  <2> QED BY <1>2, <1>3, <2>2
<1>8. /\ block' \in Seq(Cell) /\ Len(block') = Len(g)
      /\ \A k \in 1 .. Len(g) : block'[k] = IF k = top + 1 THEN e ELSE g[k]
  BY <1>5, <1>6, <1>7, PutCell
<1>9. CASE n < m
  <2>1. top = n /\ n + 1 <= m
    BY <1>4, <1>6, <1>9
  <2>2. /\ items' \in Seq(Cell) /\ Len(items') = n + 1
        /\ \A k \in 1 .. n + 1 : items'[k] = IF k = n + 1 THEN e ELSE items[k]
    BY <1>5, <1>6, <1>9, AppendProperties
  <2>3. ASSUME NEW k \in 1 .. n + 1, items'[k] # Garbage
        PROVE  k <= Len(block') /\ block'[k] = items'[k]
    <3>1. k \in 1 .. m /\ k \in 1 .. Len(g) /\ k <= Len(block')
      BY <1>6, <1>7, <1>8, <2>1
    <3>2. CASE k = n + 1
      BY <1>8, <2>1, <2>2, <3>1, <3>2
    <3>3. CASE k # n + 1
      <4>1. k \in 1 .. n /\ items'[k] = items[k]
        BY <1>6, <2>2, <3>3
      <4>2. block'[k] = g[k] /\ g[k] = block[k]
        BY <1>7, <1>8, <2>1, <3>1, <3>3
      <4> QED BY <1>6, <2>3, <3>1, <4>1, <4>2
    <3> QED BY <3>2, <3>3
  <2>4. length' \in Nat /\ length' = n + 1
    BY <1>5, <1>6, <2>1
  <2> QED BY <1>5, <1>8, <2>2, <2>3, <2>4 DEF ArraysHold
<1>10. CASE n >= m
  <2>1. top = Len(g) /\ top + 1 - m \in Nat /\ top + 1 \in Nat
    BY <1>4, <1>6, <1>7, <1>10
  <2> DEFINE kept == SubSeq(items, 1, m)
             hole == L!Blank(top + 1 - m)
  <2>2. /\ kept \in Seq(Cell) /\ Len(kept) = m
        /\ \A k \in 1 .. m : kept[k] = items[k]
    <3>1. 1 \in 1 .. Len(items) + 1 /\ m \in 1 - 1 .. Len(items)
      BY <1>6, <1>10
    <3>2. /\ kept \in Seq(Cell) /\ Len(kept) = m - 1 + 1
          /\ \A k \in 1 .. m - 1 + 1 : kept[k] = items[1 + k - 1]
      BY ONLY <1>6, <3>1, PartOf
    <3> HIDE DEF kept
    <3>3. m - 1 + 1 = m /\ \A k \in 1 .. m : 1 + k - 1 = k
      BY <1>6
    <3> QED BY <3>2, <3>3
  <2>3. /\ hole \in Seq(Cell) /\ Len(hole) = top + 1 - m
        /\ \A k \in 1 .. top + 1 - m : hole[k] = Garbage
    BY <2>1, BlankCells
  <2>4. items' = kept \o hole
    BY <1>5, <1>6, <1>10
  <2> HIDE DEF kept, hole
  <2>5. Len(kept) + Len(hole) = top + 1
    BY <1>6, <2>1, <2>2, <2>3
  <2>6. /\ items' \in Seq(Cell) /\ Len(items') = top + 1
        /\ \A k \in 1 .. top + 1 : items'[k] = IF k <= m THEN kept[k] ELSE hole[k - m]
    <3>1. /\ items' \in Seq(Cell) /\ Len(items') = Len(kept) + Len(hole)
          /\ \A k \in 1 .. Len(kept) + Len(hole) :
                items'[k] = IF k <= Len(kept) THEN kept[k] ELSE hole[k - Len(kept)]
      BY <2>2, <2>3, <2>4, ConcatProperties
    <3> QED BY <2>2, <2>5, <3>1
  <2>7. ASSUME NEW k \in 1 .. top + 1, items'[k] # Garbage
        PROVE  k <= Len(block') /\ block'[k] = items'[k]
    <3>1. k <= m
      <4>1. SUFFICES ASSUME ~ (k <= m) PROVE FALSE
        OBVIOUS
      <4>2. k - m \in 1 .. top + 1 - m
        BY <1>6, <2>1, <4>1
      <4> QED BY <2>3, <2>6, <2>7, <4>1, <4>2
    <3>2. k \in 1 .. m /\ k \in 1 .. n /\ k \in 1 .. Len(g) /\ k # top + 1
      BY <1>6, <1>7, <1>10, <2>1, <3>1
    <3>3. items'[k] = items[k] /\ block'[k] = g[k] /\ g[k] = block[k]
      BY <1>7, <1>8, <2>2, <2>6, <3>1, <3>2
    <3>4. k <= Len(block')
      BY <1>7, <1>8, <3>2
    <3> QED BY <1>6, <2>7, <3>2, <3>3, <3>4
  <2>8. length' \in Nat /\ length' = top + 1
    BY <1>5, <2>1
  <2> QED BY <1>5, <1>8, <2>6, <2>7, <2>8 DEF ArraysHold
<1> QED BY <1>6, <1>9, <1>10

\* pop
LEMMA PopStep ==
  ASSUME ArraysHold, L!Pop
  PROVE  ArraysHold'
<1>1. PICK n : n = length
  OBVIOUS
<1>2. /\ kind = "SqStack" /\ kind' = kind /\ block' = block
      /\ n > 0 /\ length' = n - 1 /\ items' = L!Front(items)
  BY <1>1 DEF L!Pop, L!Array
<1>3. n \in Nat /\ items \in Seq(Cell) /\ Len(items) = n
  BY <1>1, <1>2 DEF ArraysHold
<1>4. /\ items' \in Seq(Cell) /\ Len(items') = n - 1
      /\ \A k \in 1 .. n - 1 : items'[k] = items[k]
  BY <1>2, <1>3, FrontOf
<1>5. length' \in Nat /\ length' = n - 1 /\ \A k \in 1 .. n - 1 : k \in 1 .. n
  BY <1>2, <1>3
<1> QED BY <1>1, <1>2, <1>4, <1>5 DEF ArraysHold

-----------------------------------------------------------------------------
(* Lists: the walk round the ring.                                         *)

\* A quotient and a rest
LEMMA Divided ==
  ASSUME NEW k \in Nat, NEW m \in Nat \ {0}
  PROVE  /\ k \div m \in Nat /\ k % m \in 0 .. m - 1
         /\ k = (k \div m) * m + (k % m)
         /\ k < m => k % m = k
OBVIOUS

\* The rest is known from such a sum.
LEMMA RestOf ==
  ASSUME NEW q \in Nat, NEW m \in Nat \ {0}, NEW r \in 0 .. m - 1
  PROVE  (q * m + r) % m = r
OBVIOUS

\* One step more goes one place on, or back to the first place.
LEMMA OneMore ==
  ASSUME NEW k \in Nat, NEW m \in Nat \ {0}
  PROVE  (k + 1) % m = IF k % m = m - 1 THEN 0 ELSE (k % m) + 1
<1>1. PICK q \in Nat, r \in 0 .. m - 1 : k = q * m + r /\ k % m = r
  BY Divided
<1>2. CASE r = m - 1
  <2>1. k + 1 = (q + 1) * m + 0
    BY <1>1, <1>2
  <2>2. q + 1 \in Nat /\ 0 \in 0 .. m - 1
    BY <1>1
  <2>3. ((q + 1) * m + 0) % m = 0
    BY ONLY <2>2, RestOf, m \in Nat \ {0}
  <2> QED BY <1>1, <1>2, <2>1, <2>3
<1>3. CASE r # m - 1
  <2>1. k + 1 = q * m + (r + 1) /\ r + 1 \in 0 .. m - 1
    BY <1>1, <1>3
  <2>2. (q * m + (r + 1)) % m = r + 1
    BY ONLY <2>1, RestOf, m \in Nat \ {0}, q \in Nat
  <2> QED BY <1>1, <1>3, <2>1, <2>2
<1> QED BY <1>2, <1>3

\* wi are the nodes of the ring nx, in their order from the header on; the nodes
\* hold the elements of it.
Circle(wi, nx, n) ==
    /\ wi \in [0 .. n -> DOMAIN nx] /\ wi[0] = L!Header
    /\ \A j, k \in 0 .. n : wi[j] = wi[k] => j = k
    /\ \A x \in DOMAIN nx : \E k \in 0 .. n : wi[k] = x
    /\ \A k \in 0 .. n : nx[wi[k]] = IF k = n THEN L!Header ELSE wi[k + 1]

OnRing(wi, nx, da, it) ==
    /\ Circle(wi, nx, Len(it)) /\ DOMAIN da = DOMAIN nx
    /\ \A k \in 1 .. Len(it) : da[wi[k]] = it[k]

\* The walk goes round and round.
LEMMA WalkGoesRound ==
  ASSUME NEW n \in Nat, NEW wi, Circle(wi, next, n)
  PROVE  \A k \in Nat : L!Walk[k] = wi[(k + 1) % (n + 1)]
<1>1. PICK nx : nx = next
  OBVIOUS
<1> DEFINE f == [k \in Nat |-> wi[(k + 1) % (n + 1)]]
<1>2. /\ wi[0] = L!Header /\ n + 1 \in Nat \ {0} /\ (n + 1) - 1 = n
      /\ \A k \in 0 .. n : nx[wi[k]] = IF k = n THEN L!Header ELSE wi[k + 1]
  BY <1>1 DEF Circle
<1>3. \A k \in Nat : (k + 1) % (n + 1) = IF k % (n + 1) = n THEN 0 ELSE (k % (n + 1)) + 1
  BY ONLY <1>2, OneMore
<1>4. ASSUME NEW k \in Nat PROVE nx[wi[k % (n + 1)]] = wi[(k + 1) % (n + 1)]
  <2>1. k % (n + 1) \in 0 .. n
    BY ONLY <1>2, Divided, k \in Nat
  <2>2. PICK r \in 0 .. n : r = k % (n + 1)
    BY <2>1
  <2>3. nx[wi[r]] = IF r = n THEN wi[0] ELSE wi[r + 1]
    BY <1>2, <2>2
  <2>4. (k + 1) % (n + 1) = IF r = n THEN 0 ELSE r + 1
    BY <1>3, <2>2
  <2> QED BY ONLY <2>2, <2>3, <2>4
<1>5. f[0] = nx[L!Header]
  <2>1. 0 % (n + 1) = 0
    BY ONLY <1>2, Divided
  <2>2. nx[wi[0 % (n + 1)]] = wi[(0 + 1) % (n + 1)]
    BY <1>4
  <2> QED BY <1>2, <2>1, <2>2
<1>6. ASSUME NEW k \in Nat \ {0} PROVE f[k] = nx[f[k - 1]]
  <2>1. k \in Nat /\ k - 1 \in Nat /\ (k - 1) + 1 = k
    OBVIOUS
  <2>2. f[k - 1] = wi[k % (n + 1)] /\ f[k] = wi[(k + 1) % (n + 1)]
    BY <2>1
  <2> QED BY <1>4, <2>1, <2>2
<1>7. f = [k \in Nat |-> IF k = 0 THEN nx[L!Header] ELSE nx[f[k - 1]]]
  <2>1. \A k \in Nat : f[k] = IF k = 0 THEN nx[L!Header] ELSE nx[f[k - 1]]
    BY <1>5, <1>6
  <2>2. f = [k \in Nat |-> f[k]]
    OBVIOUS
  <2> HIDE DEF f
  <2> QED BY <2>1, <2>2
<1>8. L!Walk = [k \in Nat |-> IF k = 0 THEN nx[L!Header] ELSE nx[L!Walk[k - 1]]]
  <2> HIDE DEF f
  <2> QED BY <1>1, <1>7 DEF L!Walk
<1>9. PICK g : g = L!Walk
  OBVIOUS
<1>10. \A k \in Nat : g[k] = IF k = 0 THEN nx[L!Header] ELSE nx[g[k - 1]]
  BY <1>8, <1>9
<1> DEFINE P == {k \in Nat : g[k] = f[k]}
<1>11. 0 \in P
  <2>1. g[0] = nx[L!Header]
    BY <1>10
  <2> HIDE DEF f
  <2> QED BY <1>5, <2>1
<1>12. ASSUME NEW k \in P PROVE k + 1 \in P
  <2> HIDE DEF f
  <2>1. k \in Nat /\ k + 1 \in Nat \ {0} /\ (k + 1) - 1 = k /\ g[k] = f[k]
    OBVIOUS
  <2>2. f[k + 1] = nx[f[(k + 1) - 1]]
    BY <1>6, <2>1
  <2>3. g[k + 1] = nx[g[(k + 1) - 1]]
    BY <1>10, <2>1
  <2> QED BY <2>1, <2>2, <2>3
<1>13. P = Nat
  <2>1. P \in SUBSET Nat
    OBVIOUS
  <2> HIDE DEF P
  <2> QED BY <1>11, <1>12, <2>1, Induct
<1>14. \A k \in Nat : g[k] = f[k]
  BY <1>13
<1>15. \A k \in Nat : g[k] = wi[(k + 1) % (n + 1)]
  BY <1>14
<1> QED BY <1>9, <1>15

\* The k-th step of the walk, in the first round
LEMMA FirstRound ==
  ASSUME NEW n \in Nat, NEW wi, Circle(wi, next, n)
  PROVE  /\ \A k \in 1 .. n : L!Walk[k - 1] = wi[k]
         /\ L!Walk[n] = L!Header
         /\ \A k \in 0 .. n - 1 : L!Walk[k] # L!Header
<1>1. n + 1 \in Nat \ {0} /\ \A k \in Nat : L!Walk[k] = wi[(k + 1) % (n + 1)]
  BY WalkGoesRound
<1>2. \A k \in 0 .. n : k % (n + 1) = k
  BY ONLY <1>1, Divided, n \in Nat
<1>3. ASSUME NEW k \in 1 .. n PROVE L!Walk[k - 1] = wi[k]
  <2>1. k - 1 \in Nat /\ (k - 1) + 1 = k /\ k \in 0 .. n
    OBVIOUS
  <2>2. L!Walk[k - 1] = wi[((k - 1) + 1) % (n + 1)]
    BY <1>1, <2>1
  <2> QED BY <1>2, <2>1, <2>2
<1>4. L!Walk[n] = wi[0]
  <2>1. (n + 1) % (n + 1) = IF n % (n + 1) = (n + 1) - 1 THEN 0 ELSE (n % (n + 1)) + 1
    BY ONLY <1>1, OneMore, n \in Nat
  <2>2. n % (n + 1) = n /\ (n + 1) - 1 = n
    BY <1>2
  <2>3. (n + 1) % (n + 1) = 0
    BY <2>1, <2>2
  <2>4. L!Walk[n] = wi[(n + 1) % (n + 1)]
    BY <1>1
  <2> QED BY <2>3, <2>4
<1>5. ASSUME NEW k \in 0 .. n - 1 PROVE L!Walk[k] # wi[0]
  <2>1. k + 1 \in 1 .. n /\ (k + 1) - 1 = k /\ k + 1 # 0 /\ k + 1 \in 0 .. n /\ 0 \in 0 .. n
    OBVIOUS
  <2>2. L!Walk[k] = wi[k + 1]
    BY <1>3, <2>1
  <2>3. wi[k + 1] = wi[0] => k + 1 = 0
    BY <2>1 DEF Circle
  <2> QED BY <2>1, <2>2, <2>3
<1>6. wi[0] = L!Header
  BY DEF Circle
<1> QED BY <1>3, <1>4, <1>5, <1>6

\* What the ring is known to be
RingsHold ==
    kind = "LinkList" /\ L!Header \in DOMAIN next =>
        /\ DOMAIN next \subseteq 0 .. MaxItems /\ Len(items) <= MaxItems
        /\ \E wi : OnRing(wi, next, data, items)

\* The ring reads as the list of its elements.
LEMMA RingReads ==
  ASSUME NEW wi, OnRing(wi, next, data, items), items \in Seq(Cell), Len(items) <= MaxItems
  PROVE  /\ L!Walk[Len(items)] = L!Header
         /\ \A x \in DOMAIN next \ {L!Header} : \E k \in 1 .. Len(items) : L!Walk[k - 1] = x
         /\ L!Transver = items
<1>1. PICK it : it = items
  OBVIOUS
<1>2. PICK n : n = Len(it)
  OBVIOUS
<1>3. PICK da : da = data
  OBVIOUS
<1>4. /\ it \in Seq(Cell) /\ n \in Nat /\ n \in 0 .. MaxItems /\ MaxItems \in Nat
      /\ Circle(wi, next, n) /\ \A k \in 1 .. n : da[wi[k]] = it[k]
  <2>1. it \in Seq(Cell) /\ n \in Nat /\ n <= MaxItems /\ MaxItems \in Nat
    BY <1>1, <1>2, ProgramsAssumption
  <2> QED BY <1>1, <1>2, <1>3, <2>1 DEF OnRing
<1>5. PICK g : g = L!Walk
  OBVIOUS
<1>6. /\ \A k \in 1 .. n : g[k - 1] = wi[k]
      /\ g[n] = L!Header
      /\ \A k \in 0 .. n - 1 : g[k] # L!Header
  BY <1>4, <1>5, FirstRound
<1>7. L!Transver = items
  <2> DEFINE back == {k \in 0 .. MaxItems : g[k] = L!Header}
             m == CHOOSE k \in back : \A j \in back : k <= j
  <2>1. n \in back /\ \A j \in back : n <= j
    <3>1. ASSUME NEW j \in back PROVE n <= j
      <4>1. j \in 0 .. MaxItems /\ g[j] = L!Header
        OBVIOUS
      <4>2. ~ (j \in 0 .. n - 1)
        BY <1>6, <4>1
      <4> QED BY <1>4, <4>1, <4>2
    <3> QED BY <1>4, <1>6, <3>1
  <2>2. m = n
    <3>1. back \subseteq Nat
      BY <1>4
    <3> HIDE DEF back
    <3>2. m \in back /\ \A j \in back : m <= j
      BY <2>1
    <3> HIDE DEF m
    <3>3. m \in Nat /\ n \in Nat /\ m <= n /\ n <= m
      BY <2>1, <3>1, <3>2
    <3> QED BY <3>3
  <2>3. L!Transver = [k \in 1 .. m |-> da[g[k - 1]]]
    BY <1>3, <1>5 DEF L!Transver
  <2> HIDE DEF m
  <2>4. L!Transver = [k \in 1 .. n |-> it[k]]
    BY <1>4, <1>6, <2>2, <2>3
  <2>5. it = [k \in 1 .. n |-> it[k]]
    BY <1>2, <1>4
  <2> QED BY <1>1, <2>4, <2>5
<1>8. ASSUME NEW x \in DOMAIN next \ {L!Header}
      PROVE  \E k \in 1 .. Len(items) : L!Walk[k - 1] = x
  <2>1. PICK k \in 0 .. n : wi[k] = x
    BY <1>4 DEF Circle
  <2>2. k # 0
    BY <1>4, <2>1 DEF Circle
  <2>3. k \in 1 .. n
    BY <1>4, <2>1, <2>2
  <2>4. L!Walk[k - 1] = x
    BY <1>5, <1>6, <2>1, <2>3
  <2> QED BY <1>1, <1>2, <2>3, <2>4
<1>9. L!Walk[Len(items)] = L!Header
  BY <1>1, <1>2, <1>5, <1>6
<1> QED BY <1>7, <1>8, <1>9

\* malloc finds a node.
LEMMA SpareNode ==
  ASSUME NEW wi, NEW n \in Nat, Circle(wi, next, n), n < MaxItems,
         DOMAIN next \subseteq 0 .. MaxItems
  PROVE  L!Spare \in 1 .. MaxItems /\ L!Spare \notin DOMAIN next
<1>1. \E x \in 1 .. MaxItems : x \notin DOMAIN next
  <2> SUFFICES ASSUME 1 .. MaxItems \subseteq DOMAIN next PROVE FALSE
    OBVIOUS
  <2>1. PICK D : D = DOMAIN next
    OBVIOUS
  <2>2. MaxItems \in Nat
    BY ProgramsAssumption
  <2>3. D = 0 .. MaxItems
    <3>1. 0 \in D
      BY <2>1 DEF Circle, L!Header
    <3>2. \A x \in 0 .. MaxItems : x = 0 \/ x \in 1 .. MaxItems
      BY <2>2
    <3>3. 1 .. MaxItems \subseteq D /\ D \subseteq 0 .. MaxItems
      BY <2>1
    <3> QED BY ONLY <3>1, <3>2, <3>3
  <2>4. wi \in [0 .. n -> D] /\ \A x \in D : \E k \in 0 .. n : wi[k] = x
    BY <2>1 DEF Circle
  <2>5. wi \in Surjection(0 .. n, D)
    BY <2>4 DEF Surjection
  <2>6. IsFiniteSet(0 .. n) /\ Cardinality(0 .. n) = n + 1
    BY FS_Interval, 0 \in Int, n \in Int
  <2>7. Cardinality(D) <= n + 1
    BY <2>5, <2>6, FS_Surjection
  <2>8. Cardinality(D) = MaxItems + 1
    BY <2>2, <2>3, FS_Interval, 0 \in Int, MaxItems \in Int
  <2> QED BY <2>2, <2>7, <2>8
<1> QED BY <1>1 DEF L!Spare

-----------------------------------------------------------------------------
(* Lists: a node comes on the ring, a node goes.                           *)

\* The nodes of the ring hold the elements of it; one more, behind the place j; one
\* less, behind the place j.
Same(wi, da, it, n) == \A k \in 1 .. n : da[wi[k]] = it[k]

OneMoreAt(wi, da, it, n, j, e) ==
    \A k \in 1 .. n + 1 :
       da[wi[k]] = IF k <= j THEN it[k] ELSE IF k = j + 1 THEN e ELSE it[k - 1]

OneLessAt(wi, da, it, n, j) ==
    \A k \in 1 .. n - 1 : da[wi[k]] = IF k <= j THEN it[k] ELSE it[k + 1]

\* The node x linked in behind p, and its element; the node x taken out behind p
NextWith(nx, p, x) ==
    [y \in DOMAIN nx \cup {x} |-> IF y = x THEN nx[p] ELSE IF y = p THEN x ELSE nx[y]]

DataWith(da, x, e) == [y \in DOMAIN da \cup {x} |-> IF y = x THEN e ELSE da[y]]

NextWithout(nx, p, x) == [y \in DOMAIN nx \ {x} |-> IF y = p THEN nx[x] ELSE nx[y]]

DataWithout(da, x) == [y \in DOMAIN da \ {x} |-> da[y]]

\* A node linked in behind the place j of the ring
LEMMA LinkedIn ==
  ASSUME NEW n \in Nat, NEW wi, NEW nx, NEW da, NEW it, Circle(wi, nx, n),
         DOMAIN da = DOMAIN nx, Same(wi, da, it, n),
         NEW j \in 0 .. n, NEW x, x \notin DOMAIN nx, NEW e,
         NEW nx2, NEW da2,
         nx2 = NextWith(nx, wi[j], x), da2 = DataWith(da, x, e)
  PROVE  /\ DOMAIN da2 = DOMAIN nx2
         /\ \E w2 : Circle(w2, nx2, n + 1) /\ OneMoreAt(w2, da2, it, n, j, e)
<1> USE DEF NextWith, DataWith, Same
<1> DEFINE w2 == [k \in 0 .. n + 1 |->
                     IF k <= j THEN wi[k] ELSE IF k = j + 1 THEN x ELSE wi[k - 1]]
<1>1. /\ wi \in [0 .. n -> DOMAIN nx] /\ wi[0] = L!Header
      /\ \A a, b \in 0 .. n : wi[a] = wi[b] => a = b
      /\ \A y \in DOMAIN nx : \E k \in 0 .. n : wi[k] = y
      /\ \A k \in 0 .. n : nx[wi[k]] = IF k = n THEN L!Header ELSE wi[k + 1]
  BY DEF Circle
<1>2. DOMAIN nx2 = DOMAIN nx \cup {x} /\ DOMAIN da2 = DOMAIN nx2 /\ j \in Nat /\ j <= n
  OBVIOUS
<1>3. ASSUME NEW k \in 0 .. n, k <= j PROVE w2[k] = wi[k] /\ w2[k] \in DOMAIN nx
  BY <1>1, <1>3
<1>4. w2[j + 1] = x
  BY <1>2
<1>5. ASSUME NEW k \in j + 2 .. n + 1
      PROVE  w2[k] = wi[k - 1] /\ w2[k] \in DOMAIN nx /\ k - 1 \in 0 .. n
  <2>1. k \in 0 .. n + 1 /\ ~ (k <= j) /\ k # j + 1 /\ k - 1 \in 0 .. n
    BY <1>2
  <2> QED BY <1>1, <2>1
<1>6. \A k \in 0 .. n + 1 : (k \in 0 .. n /\ k <= j) \/ k = j + 1 \/ k \in j + 2 .. n + 1
  BY <1>2
<1>7. w2 \in [0 .. n + 1 -> DOMAIN nx2] /\ w2[0] = L!Header
  <2>1. \A k \in 0 .. n + 1 : w2[k] \in DOMAIN nx \cup {x}
    <3> SUFFICES ASSUME NEW k \in 0 .. n + 1 PROVE w2[k] \in DOMAIN nx \cup {x}
      OBVIOUS
    <3> HIDE DEF w2
    <3> QED BY <1>3, <1>4, <1>5, <1>6
  <2>2. w2[0] = wi[0]
    BY <1>2, <1>3
  <2>3. w2 = [k \in 0 .. n + 1 |-> w2[k]]
    OBVIOUS
  <2> HIDE DEF w2
  <2> QED BY <1>1, <1>2, <2>1, <2>2, <2>3
<1> HIDE DEF w2
<1> DEFINE was(k) == IF k <= j THEN k ELSE k - 1
<1>8. ASSUME NEW k \in 0 .. n + 1, k # j + 1
      PROVE  was(k) \in 0 .. n /\ w2[k] = wi[was(k)] /\ w2[k] \in DOMAIN nx /\ w2[k] # x
  <2>1. CASE k \in 0 .. n /\ k <= j
    BY <1>3, <2>1
  <2>2. CASE k \in j + 2 .. n + 1
    <3>1. ~ (k <= j)
      BY <1>2, <2>2
    <3> QED BY <1>5, <2>2, <3>1
  <2> QED BY <1>6, <1>8, <2>1, <2>2
<1>9. ASSUME NEW a \in 0 .. n + 1, NEW b \in 0 .. n + 1, w2[a] = w2[b] PROVE a = b
  <2>1. CASE a = j + 1 \/ b = j + 1
    BY <1>4, <1>8, <1>9, <2>1
  <2>2. CASE a # j + 1 /\ b # j + 1
    <3>1. was(a) = was(b)
      <4> HIDE DEF was
      <4> QED BY <1>1, <1>8, <1>9, <2>2
    <3> QED BY <1>2, <2>2, <3>1
  <2> QED BY <2>1, <2>2
<1>10. ASSUME NEW y \in DOMAIN nx2 PROVE \E k \in 0 .. n + 1 : w2[k] = y
  <2>1. CASE y = x
    BY <1>2, <1>4, <2>1
  <2>2. CASE y \in DOMAIN nx
    <3>1. PICK k \in 0 .. n : wi[k] = y
      BY <1>1, <2>2
    <3>2. CASE k <= j
      <4>1. w2[k] = wi[k] /\ k \in 0 .. n + 1
        BY <1>3, <3>2
      <4> QED BY <3>1, <4>1
    <3>3. CASE k > j
      <4>1. k + 1 \in j + 2 .. n + 1 /\ (k + 1) - 1 = k /\ k + 1 \in 0 .. n + 1
        BY <1>2, <3>3
      <4>2. w2[k + 1] = wi[(k + 1) - 1]
        BY <1>5, <4>1
      <4> QED BY <3>1, <4>1, <4>2
    <3> QED BY <1>2, <3>2, <3>3
  <2> QED BY <1>2, <2>1, <2>2
<1>11. /\ nx2[x] = nx[wi[j]] /\ nx2[wi[j]] = x
       /\ \A y \in DOMAIN nx \ {wi[j]} : nx2[y] = nx[y]
  BY <1>1, <1>2
<1>12. ASSUME NEW k \in 0 .. n + 1
       PROVE  nx2[w2[k]] = IF k = n + 1 THEN L!Header ELSE w2[k + 1]
  <2>1. CASE k < j
    <3>1. k \in 0 .. n /\ k + 1 \in 0 .. n /\ k <= j /\ k + 1 <= j /\ k # n /\ k # n + 1 /\ k # j
      BY <1>2, <2>1
    <3>2. w2[k] = wi[k] /\ w2[k + 1] = wi[k + 1] /\ w2[k] \in DOMAIN nx
      BY <1>3, <3>1
    <3>3. wi[k] # wi[j]
      BY <1>1, <3>1
    <3>4. nx2[w2[k]] = nx[wi[k]] /\ nx[wi[k]] = wi[k + 1]
      BY <1>1, <1>11, <3>1, <3>2, <3>3
    <3> QED BY <3>1, <3>2, <3>4
  <2>2. CASE k = j
    <3>1. k \in 0 .. n /\ k <= j /\ k # n + 1
      BY <1>2, <2>2
    <3>2. w2[k] = wi[j]
      BY <1>3, <2>2, <3>1
    <3> QED BY <1>4, <1>11, <2>2, <3>1, <3>2
  <2>3. CASE k = j + 1
    <3>1. nx2[w2[k]] = nx[wi[j]]
      BY <1>4, <1>11, <2>3
    <3>2. nx[wi[j]] = IF j = n THEN L!Header ELSE wi[j + 1]
      BY <1>1
    <3>3. CASE j = n
      BY <2>3, <3>1, <3>2, <3>3
    <3>4. CASE j # n
      <4>1. k + 1 \in j + 2 .. n + 1 /\ (k + 1) - 1 = j + 1 /\ k # n + 1
        BY <1>2, <2>3, <3>4
      <4>2. w2[k + 1] = wi[(k + 1) - 1]
        BY <1>5, <4>1
      <4> QED BY <3>1, <3>2, <3>4, <4>1, <4>2
    <3> QED BY <3>3, <3>4
  <2>4. CASE k > j + 1
    <3>1. k \in j + 2 .. n + 1 /\ k - 1 \in 0 .. n /\ (k - 1) + 1 = k /\ k - 1 # j
      BY <1>2, <2>4
    <3>2. w2[k] = wi[k - 1] /\ w2[k] \in DOMAIN nx /\ wi[k - 1] # wi[j]
      BY <1>1, <1>5, <3>1
    <3>3. nx2[w2[k]] = nx[wi[k - 1]]
      BY <1>11, <3>2
    <3>4. nx[wi[k - 1]] = IF k - 1 = n THEN L!Header ELSE wi[(k - 1) + 1]
      BY <1>1, <3>1
    <3>5. CASE k = n + 1
      <4>1. k - 1 = n
        BY <1>2, <3>5
      <4> QED BY <3>3, <3>4, <3>5, <4>1
    <3>6. CASE k # n + 1
      <4>1. k - 1 # n /\ k + 1 \in j + 2 .. n + 1 /\ (k + 1) - 1 = k
        BY <1>2, <2>4, <3>6
      <4>2. w2[k + 1] = wi[(k + 1) - 1]
        BY <1>5, <4>1
      <4> QED BY <3>1, <3>3, <3>4, <3>6, <4>1, <4>2
    <3> QED BY <3>5, <3>6
  <2>5. k < j \/ k = j \/ k = j + 1 \/ k > j + 1
    BY <1>2
  <2> QED BY <2>1, <2>2, <2>3, <2>4, <2>5
<1>13. ASSUME NEW k \in 1 .. n + 1
       PROVE  da2[w2[k]] = IF k <= j THEN it[k] ELSE IF k = j + 1 THEN e ELSE it[k - 1]
  <2>1. da2[x] = e /\ \A y \in DOMAIN nx : da2[y] = da[y]
    OBVIOUS
  <2>2. CASE k <= j
    <3>1. k \in 0 .. n /\ k \in 1 .. n
      BY <1>2, <2>2
    <3> QED BY <1>3, <2>1, <2>2, <3>1
  <2>3. CASE k = j + 1
    <3>1. ~ (k <= j)
      BY <1>2, <2>3
    <3> QED BY <1>4, <2>1, <2>3, <3>1
  <2>4. CASE k > j + 1
    <3>1. k \in j + 2 .. n + 1 /\ k - 1 \in 1 .. n /\ ~ (k <= j) /\ k # j + 1
      BY <1>2, <2>4
    <3>2. w2[k] = wi[k - 1] /\ w2[k] \in DOMAIN nx
      BY <1>5, <3>1
    <3>3. da2[w2[k]] = it[k - 1]
      BY <2>1, <3>1, <3>2
    <3> QED BY <3>1, <3>3
  <2>5. k <= j \/ k = j + 1 \/ k > j + 1
    BY <1>2
  <2> QED BY <2>2, <2>3, <2>4, <2>5
<1>14. Circle(w2, nx2, n + 1)
  <2>1. \A a, b \in 0 .. n + 1 : w2[a] = w2[b] => a = b
    BY <1>9
  <2> QED BY <1>7, <1>10, <1>12, <2>1 DEF Circle
<1> QED BY <1>2, <1>13, <1>14 DEF OneMoreAt

\* A node that is not the header taken out behind the place j of the ring
LEMMA TakenOut ==
  ASSUME NEW n \in Nat, NEW wi, NEW nx, NEW da, NEW it, Circle(wi, nx, n),
         DOMAIN da = DOMAIN nx, Same(wi, da, it, n),
         NEW j \in 0 .. n - 1, NEW x, x = wi[j + 1],
         NEW nx2, NEW da2,
         nx2 = NextWithout(nx, wi[j], x), da2 = DataWithout(da, x)
  PROVE  /\ DOMAIN da2 = DOMAIN nx2
         /\ \E w2 : Circle(w2, nx2, n - 1) /\ OneLessAt(w2, da2, it, n, j)
<1> USE DEF NextWithout, DataWithout, Same
<1> DEFINE w2 == [k \in 0 .. n - 1 |-> IF k <= j THEN wi[k] ELSE wi[k + 1]]
<1>1. /\ wi \in [0 .. n -> DOMAIN nx] /\ wi[0] = L!Header
      /\ \A a, b \in 0 .. n : wi[a] = wi[b] => a = b
      /\ \A y \in DOMAIN nx : \E k \in 0 .. n : wi[k] = y
      /\ \A k \in 0 .. n : nx[wi[k]] = IF k = n THEN L!Header ELSE wi[k + 1]
  BY DEF Circle
<1>2. /\ DOMAIN nx2 = DOMAIN nx \ {x} /\ DOMAIN da2 = DOMAIN nx2
      /\ j \in Nat /\ j < n /\ j + 1 \in 0 .. n /\ j \in 0 .. n /\ n - 1 \in Nat
      /\ \A y \in DOMAIN nx2 : nx2[y] = IF y = wi[j] THEN nx[x] ELSE nx[y]
  OBVIOUS
<1> DEFINE was(k) == IF k <= j THEN k ELSE k + 1
<1>3. ASSUME NEW k \in 0 .. n - 1
      PROVE  was(k) \in 0 .. n /\ was(k) # j + 1 /\ w2[k] = wi[was(k)] /\ w2[k] \in DOMAIN nx2
  <2>1. was(k) \in 0 .. n /\ was(k) # j + 1
    BY <1>2
  <2>2. w2[k] = wi[was(k)]
    OBVIOUS
  <2> HIDE DEF w2, was
  <2>3. wi[was(k)] \in DOMAIN nx /\ wi[was(k)] # wi[j + 1]
    BY <1>1, <1>2, <2>1
  <2> QED BY <1>2, <2>1, <2>2, <2>3
<1>4. w2 \in [0 .. n - 1 -> DOMAIN nx2]
  <2>1. w2 = [k \in 0 .. n - 1 |-> w2[k]]
    OBVIOUS
  <2>2. \A k \in 0 .. n - 1 : w2[k] \in DOMAIN nx2
    BY <1>3
  <2> HIDE DEF w2
  <2> QED BY <2>1, <2>2
<1> HIDE DEF w2
<1>5. w2[0] = L!Header
  <2>1. 0 \in 0 .. n - 1 /\ was(0) = 0
    BY <1>2
  <2> QED BY <1>1, <1>3, <2>1
<1>6. ASSUME NEW a \in 0 .. n - 1, NEW b \in 0 .. n - 1, w2[a] = w2[b] PROVE a = b
  <2>1. was(a) = was(b)
    <3> HIDE DEF was
    <3> QED BY <1>1, <1>3, <1>6
  <2> QED BY <1>2, <2>1
<1>7. ASSUME NEW y \in DOMAIN nx2 PROVE \E k \in 0 .. n - 1 : w2[k] = y
  <2>1. PICK a \in 0 .. n : wi[a] = y
    BY <1>1, <1>2
  <2>2. a # j + 1
    BY <1>2, <2>1
  <2>3. CASE a <= j
    <3>1. a \in 0 .. n - 1 /\ was(a) = a
      BY <1>2, <2>3
    <3> QED BY <1>3, <2>1, <3>1
  <2>4. CASE a > j
    <3>1. a - 1 \in 0 .. n - 1 /\ was(a - 1) = a
      BY <1>2, <2>2, <2>4
    <3> QED BY <1>3, <2>1, <3>1
  <2> QED BY <1>2, <2>3, <2>4
<1>8. nx[x] = IF j + 1 = n THEN L!Header ELSE wi[(j + 1) + 1]
  BY <1>1, <1>2
<1>9. ASSUME NEW k \in 0 .. n - 1
      PROVE  nx2[w2[k]] = IF k = n - 1 THEN L!Header ELSE w2[k + 1]
  <2>1. CASE k < j
    <3>1. /\ was(k) = k /\ was(k + 1) = k + 1 /\ k + 1 \in 0 .. n - 1
          /\ k # n - 1 /\ k # n /\ k # j /\ k \in 0 .. n
      BY <1>2, <2>1
    <3>2. w2[k] = wi[k] /\ w2[k + 1] = wi[k + 1] /\ w2[k] \in DOMAIN nx2
      BY <1>3, <3>1
    <3>3. wi[k] # wi[j] /\ nx[wi[k]] = wi[k + 1]
      BY <1>1, <1>2, <3>1
    <3> QED BY <1>2, <3>1, <3>2, <3>3
  <2>2. CASE k = j
    <3>1. was(k) = j
      BY <1>2, <2>2
    <3>2. w2[k] = wi[j] /\ nx2[w2[k]] = nx[x]
      BY <1>2, <1>3, <3>1
    <3>3. CASE j + 1 = n
      <4>1. k = n - 1
        BY <1>2, <2>2, <3>3
      <4> QED BY <1>8, <3>2, <3>3, <4>1
    <3>4. CASE j + 1 # n
      <4>1. k # n - 1 /\ k + 1 \in 0 .. n - 1 /\ was(k + 1) = (j + 1) + 1
        BY <1>2, <2>2, <3>4
      <4>2. w2[k + 1] = wi[(j + 1) + 1]
        BY <1>3, <4>1
      <4> QED BY <1>8, <3>2, <3>4, <4>1, <4>2
    <3> QED BY <3>3, <3>4
  <2>3. CASE k > j
    <3>1. was(k) = k + 1 /\ k + 1 \in 0 .. n /\ k + 1 # j
      BY <1>2, <2>3
    <3>2. w2[k] = wi[k + 1] /\ w2[k] \in DOMAIN nx2 /\ wi[k + 1] # wi[j]
      BY <1>1, <1>2, <1>3, <3>1
    <3>3. nx2[w2[k]] = nx[wi[k + 1]]
      BY <1>2, <3>2
    <3>4. nx[wi[k + 1]] = IF k + 1 = n THEN L!Header ELSE wi[(k + 1) + 1]
      BY <1>1, <3>1
    <3>5. CASE k = n - 1
      <4>1. k + 1 = n
        BY <1>2, <3>5
      <4> QED BY <3>3, <3>4, <3>5, <4>1
    <3>6. CASE k # n - 1
      <4>1. k + 1 # n /\ k + 1 \in 0 .. n - 1 /\ was(k + 1) = (k + 1) + 1
        BY <1>2, <2>3, <3>6
      <4>2. w2[k + 1] = wi[(k + 1) + 1]
        BY <1>3, <4>1
      <4> QED BY <3>3, <3>4, <3>6, <4>1, <4>2
    <3> QED BY <3>5, <3>6
  <2>4. k < j \/ k = j \/ k > j
    BY <1>2
  <2> QED BY <2>1, <2>2, <2>3, <2>4
<1>10. ASSUME NEW k \in 1 .. n - 1
       PROVE  da2[w2[k]] = IF k <= j THEN it[k] ELSE it[k + 1]
  <2>1. \A y \in DOMAIN nx2 : da2[y] = da[y]
    OBVIOUS
  <2>2. k \in 0 .. n - 1 /\ was(k) \in 1 .. n
    BY <1>2
  <2>3. w2[k] = wi[was(k)] /\ w2[k] \in DOMAIN nx2
    BY <1>3, <2>2
  <2>4. da2[w2[k]] = it[was(k)]
    <3> HIDE DEF was
    <3> QED BY <2>1, <2>2, <2>3
  <2> QED BY <2>4
<1>11. Circle(w2, nx2, n - 1)
  <2>1. \A a, b \in 0 .. n - 1 : w2[a] = w2[b] => a = b
    BY <1>6
  <2> QED BY <1>4, <1>5, <1>7, <1>9, <2>1 DEF Circle
<1> QED BY <1>2, <1>10, <1>11 DEF OneLessAt

-----------------------------------------------------------------------------
(* Lists: the operations of the circular list.                             *)

ListInv == ArraysHold /\ RingsHold

\* The walk of a call stands at a node of the ring.
LEMMA NodeOf ==
  ASSUME NEW n \in Nat, NEW wi, Circle(wi, next, n), NEW k \in 0 .. MaxItems
  PROVE  \E j \in 0 .. n : L!Node(k) = wi[j]
<1>1. PICK m \in Nat : m = IF k < 1 THEN 0 ELSE k - 1
  <2>1. MaxItems \in Nat
    BY ProgramsAssumption
  <2> QED BY <2>1
<1>2. L!Node(k) = L!Walk[m]
  BY <1>1 DEF L!Node
<1>3. L!Walk[m] = wi[(m + 1) % (n + 1)]
  BY WalkGoesRound
<1>4. n + 1 \in Nat \ {0} /\ (n + 1) - 1 = n /\ m + 1 \in Nat
  OBVIOUS
<1>5. (m + 1) % (n + 1) \in 0 .. n
  BY ONLY <1>4, Divided
<1> QED BY <1>2, <1>3, <1>5

\* The j-th node of the ring has the place j.
LEMMA PosOf ==
  ASSUME NEW n \in Nat, NEW wi, Circle(wi, next, n), n = Len(items), NEW j \in 0 .. n
  PROVE  L!Pos(wi[j]) = j
<1>1. PICK g : g = L!Walk
  OBVIOUS
<1>2. \A k \in 1 .. n : g[k - 1] = wi[k]
  BY <1>1, FirstRound
<1>3. /\ wi[0] = L!Header /\ 0 \in 0 .. n
      /\ \A a, b \in 0 .. n : wi[a] = wi[b] => a = b
  BY DEF Circle
<1>4. L!Pos(wi[j]) = IF wi[j] = L!Header THEN 0 ELSE CHOOSE k \in 1 .. n : g[k - 1] = wi[j]
  BY <1>1 DEF L!Pos
<1>5. CASE j = 0
  BY <1>3, <1>4, <1>5
<1>6. CASE j # 0
  <2>1. wi[j] # L!Header
    BY <1>3, <1>6
  <2>2. j \in 1 .. n /\ g[j - 1] = wi[j]
    BY <1>2, <1>6
  <2>3. ASSUME NEW k \in 1 .. n, g[k - 1] = wi[j] PROVE k = j
    <3>1. wi[k] = wi[j] /\ k \in 0 .. n
      BY <1>2, <2>3
    <3> QED BY <1>3, <3>1
  <2>4. (CHOOSE k \in 1 .. n : g[k - 1] = wi[j]) = j
    BY <2>2, <2>3
  <2> QED BY <1>4, <2>1, <2>4
<1> QED BY <1>5, <1>6

\* A node linked in behind the place j, and its element in the list there
LEMMA InsertAfterStep ==
  ASSUME ListInv, NEW n \in Nat, n = Len(items), NEW wi, Circle(wi, next, n),
         \A k \in 1 .. n : data[wi[k]] = items[k],
         NEW j \in 0 .. n, NEW e \in Value, L!InsertAfter(wi[j], e)
  PROVE  ListInv'
<1>1. PICK x : x = L!Spare
  OBVIOUS
<1>2. PICK nx : nx = next
  OBVIOUS
<1>3. PICK da : da = data
  OBVIOUS
<1>4. PICK it : it = items
  OBVIOUS
<1>5. PICK p : p = wi[j]
  OBVIOUS
<1>6. /\ kind = "LinkList" /\ kind' = kind /\ block' = block /\ length' = length
      /\ L!Header \in DOMAIN next /\ n < MaxItems
      /\ next' = NextWith(nx, p, x) /\ data' = DataWith(da, x, e)
  BY <1>1, <1>2, <1>3, <1>5 DEF L!InsertAfter, L!InsertAfterWith, L!Ring, NextWith, DataWith
<1>7. /\ DOMAIN next \subseteq 0 .. MaxItems /\ MaxItems \in Nat
      /\ DOMAIN data = DOMAIN next
  BY <1>6, ProgramsAssumption DEF ListInv, RingsHold, OnRing
<1>8. x \in 1 .. MaxItems /\ x \notin DOMAIN nx
  BY <1>1, <1>2, <1>6, <1>7, SpareNode
<1>9. PICK nx2 : nx2 = next'
  OBVIOUS
<1>10. PICK da2 : da2 = data'
  OBVIOUS
<1>11. PICK it2 : it2 = items'
  OBVIOUS
<1>12. /\ DOMAIN da2 = DOMAIN nx2
       /\ \E w2 : Circle(w2, nx2, n + 1) /\ OneMoreAt(w2, da2, it, n, j, e)
  <2>1. Circle(wi, nx, n) /\ DOMAIN da = DOMAIN nx /\ Same(wi, da, it, n)
    BY <1>2, <1>3, <1>4, <1>7 DEF Same
  <2>2. nx2 = NextWith(nx, wi[j], x)
    BY <1>5, <1>6, <1>9
  <2>3. da2 = DataWith(da, x, e)
    BY <1>6, <1>10
  <2> QED BY ONLY <1>8, <2>1, <2>2, <2>3, LinkedIn, n \in Nat, j \in 0 .. n
<1>13. PICK w2 : Circle(w2, nx2, n + 1) /\ OneMoreAt(w2, da2, it, n, j, e)
  BY <1>12
<1>14. /\ it2 \in Seq(Cell) /\ Len(it2) = n + 1
       /\ \A k \in 1 .. n + 1 : da2[w2[k]] = it2[k]
  <2>0. Len(it) = n
    BY <1>4
  <2>1. it \in Seq(Cell) /\ e \in Cell
    BY <1>4 DEF ListInv, ArraysHold, Cell
  <2>2. PICK m : m = j + 1
    OBVIOUS
  <2>3. m \in 1 .. Len(it) + 1
    BY <2>0, <2>2
  <2>4. it2 = L!InsertAt(it, m, e)
    <3>1. L!Pos(wi[j]) = j
      BY PosOf
    <3>2. items' = L!InsertAt(items, L!Pos(wi[j]) + 1, e)
      BY DEF L!InsertAfter, L!InsertAfterWith
    <3> QED BY <1>4, <1>11, <2>2, <3>1, <3>2
  <2>5. /\ L!InsertAt(it, m, e) \in Seq(Cell) /\ Len(L!InsertAt(it, m, e)) = Len(it) + 1
        /\ \A l \in 1 .. Len(it) + 1 : L!InsertAt(it, m, e)[l] =
              IF l < m THEN it[l] ELSE IF l = m THEN e ELSE it[l - 1]
    <3>1. it \in Seq(Cell)
      BY <2>1
    <3>2. e \in Cell
      BY <2>1
    <3> QED BY ONLY <2>3, <3>1, <3>2, InsertedAt
  <2>6. \A l \in 1 .. n + 1 : l < m <=> l <= j
    BY <2>2
  <2> QED BY <1>13, <2>0, <2>2, <2>4, <2>5, <2>6 DEF OneMoreAt
<1>15. OnRing(w2, nx2, da2, it2)
  BY <1>12, <1>13, <1>14 DEF OnRing
<1>16. DOMAIN nx2 \subseteq 0 .. MaxItems /\ Len(it2) <= MaxItems
  <2>1. DOMAIN nx2 = DOMAIN nx \cup {x}
    BY <1>6, <1>9 DEF NextWith
  <2>2. n + 1 <= MaxItems /\ x \in 0 .. MaxItems
    BY <1>6, <1>7, <1>8
  <2> QED BY <1>2, <1>7, <1>14, <2>1, <2>2
<1>17. RingsHold'
  <2>1. OnRing(w2, next', data', items')
    BY <1>9, <1>10, <1>11, <1>15
  <2>2. \E w3 : OnRing(w3, next', data', items')
    BY <2>1
  <2> QED BY <1>9, <1>11, <1>16, <2>2 DEF RingsHold, OnRing, Circle
<1>18. ArraysHold'
  BY <1>6, <1>11, <1>14 DEF ListInv, ArraysHold
<1> QED BY <1>17, <1>18 DEF ListInv

\* ListInsert_Header: behind the header
LEMMA ListInsert_HeaderStep ==
  ASSUME ListInv, NEW e \in Value, L!ListInsert_Header(e)
  PROVE  ListInv'
<1>1. L!InsertAfter(L!Header, e) /\ kind = "LinkList" /\ L!Header \in DOMAIN next
  BY DEF L!ListInsert_Header, L!InsertAfter, L!InsertAfterWith, L!Ring
<1>2. PICK n \in Nat : n = Len(items)
  BY DEF ListInv, ArraysHold
<1>3. PICK wi : Circle(wi, next, n) /\ \A k \in 1 .. n : data[wi[k]] = items[k]
  BY <1>1, <1>2 DEF ListInv, RingsHold, OnRing
<1>4. 0 \in 0 .. n /\ L!InsertAfter(wi[0], e)
  BY <1>1, <1>3 DEF Circle
<1> QED BY <1>2, <1>3, <1>4, InsertAfterStep

\* ListInsert_L: behind the node at which the walk ends
LEMMA ListInsert_LStep ==
  ASSUME ListInv, NEW e \in Value, NEW k \in 0 .. MaxItems, L!ListInsert_L(k, e)
  PROVE  ListInv'
<1>1. L!InsertAfter(L!Node(k), e) /\ kind = "LinkList" /\ L!Header \in DOMAIN next
  BY DEF L!ListInsert_L, L!InsertAfter, L!InsertAfterWith, L!Ring
<1>2. PICK n \in Nat : n = Len(items)
  BY DEF ListInv, ArraysHold
<1>3. PICK wi : Circle(wi, next, n) /\ \A l \in 1 .. n : data[wi[l]] = items[l]
  BY <1>1, <1>2 DEF ListInv, RingsHold, OnRing
<1>4. PICK j \in 0 .. n : L!Node(k) = wi[j]
  BY <1>3, NodeOf
<1>5. L!InsertAfter(wi[j], e)
  BY <1>1, <1>4
<1> QED BY <1>2, <1>3, <1>5, InsertAfterStep

\* ListDelete_L: the node behind the one at which the walk ends; after the header
\* has gone there is no ring.
LEMMA ListDelete_LStep ==
  ASSUME ListInv, NEW k \in 0 .. MaxItems, L!ListDelete_L(k)
  PROVE  ListInv'
<1>1. PICK it : it = items
  OBVIOUS
<1>2. PICK it2 : it2 = items'
  OBVIOUS
<1>3. PICK p : p = L!Node(k)
  OBVIOUS
<1>4. PICK nx : nx = next
  OBVIOUS
<1>5. PICK da : da = data
  OBVIOUS
<1>6. PICK x : x = nx[p]
  OBVIOUS
<1>7. /\ kind = "LinkList" /\ kind' = kind /\ block' = block /\ length' = length
      /\ L!Header \in DOMAIN next
      /\ next' = NextWithout(nx, p, x) /\ data' = DataWithout(da, x)
      /\ items' = IF x = L!Header THEN items ELSE L!RemoveAt(items, L!Pos(x))
  BY <1>1, <1>3, <1>4, <1>5, <1>6 DEF L!ListDelete_L, L!Ring, NextWithout, DataWithout
<1>8. it \in Seq(Cell)
  BY <1>1 DEF ListInv, ArraysHold
<1>9. PICK n \in Nat : n = Len(it)
  BY <1>8
<1>10. n = Len(items)
  BY <1>1, <1>9
<1>11. PICK wi : Circle(wi, next, n) /\ \A l \in 1 .. n : data[wi[l]] = items[l]
  BY <1>7, <1>10 DEF ListInv, RingsHold, OnRing
<1>12. PICK j \in 0 .. n : p = wi[j]
  BY <1>3, <1>11, NodeOf
<1>13. x = IF j = n THEN L!Header ELSE wi[j + 1]
  BY <1>4, <1>6, <1>11, <1>12 DEF Circle
<1>14. /\ DOMAIN next \subseteq 0 .. MaxItems /\ n <= MaxItems /\ MaxItems \in Nat
       /\ DOMAIN data = DOMAIN next
  BY <1>7, <1>10, ProgramsAssumption DEF ListInv, RingsHold, OnRing
<1>15. CASE j = n
  <2>2. items' = items
    BY <1>7, <1>13, <1>15
  <2>3. L!Header \notin DOMAIN next'
    BY <1>7, <1>13, <1>15 DEF NextWithout
  <2>4. ArraysHold'
    BY <1>7, <2>2 DEF ListInv, ArraysHold
  <2> QED BY <2>3, <2>4 DEF ListInv, RingsHold
<1>16. CASE j # n
  <2>1. j \in 0 .. n - 1 /\ x = wi[j + 1]
    BY <1>13, <1>16
  <2>2. PICK m : m = j + 1
    OBVIOUS
  <2>3. m \in 1 .. n /\ m \in 0 .. n /\ x = wi[m]
    BY <2>1, <2>2
  <2>4. items' = L!RemoveAt(it, m)
    <3>1. wi[0] = L!Header /\ 0 \in 0 .. n /\ m # 0
      BY <1>11, <2>3 DEF Circle
    <3>2. x # L!Header
      BY <1>11, <2>3, <3>1 DEF Circle
    <3>3. L!Pos(wi[m]) = m
      BY <1>10, <1>11, <2>3, PosOf
    <3> QED BY <1>1, <1>7, <2>3, <3>2, <3>3
  <2>5. /\ L!RemoveAt(it, m) \in Seq(Cell) /\ Len(L!RemoveAt(it, m)) = Len(it) - 1
        /\ \A l \in 1 .. Len(it) - 1 :
              L!RemoveAt(it, m)[l] = IF l < m THEN it[l] ELSE it[l + 1]
    <3>1. m \in 1 .. Len(it)
      BY <1>9, <2>3
    <3> QED BY ONLY <1>8, <3>1, RemovedAt
  <2>6. /\ items' \in Seq(Cell) /\ Len(items') = n - 1
        /\ \A l \in 1 .. n - 1 : items'[l] = IF l <= j THEN it[l] ELSE it[l + 1]
    <3>1. \A l \in 1 .. n - 1 : l < m <=> l <= j
      BY <2>2
    <3> QED BY <1>9, <2>4, <2>5, <3>1
  <2>7. PICK nx2 : nx2 = next'
    OBVIOUS
  <2>8. PICK da2 : da2 = data'
    OBVIOUS
  <2>10. /\ DOMAIN da2 = DOMAIN nx2
         /\ \E w2 : Circle(w2, nx2, n - 1) /\ OneLessAt(w2, da2, it, n, j)
    <3>1. Circle(wi, nx, n) /\ DOMAIN da = DOMAIN nx /\ Same(wi, da, it, n)
      BY <1>1, <1>4, <1>5, <1>11, <1>14 DEF Same
    <3>2. nx2 = NextWithout(nx, wi[j], x)
      BY <1>7, <1>12, <2>7
    <3>3. da2 = DataWithout(da, x)
      BY <1>7, <2>8
    <3> QED BY ONLY <2>1, <3>1, <3>2, <3>3, TakenOut, n \in Nat
  <2>11. PICK w2 : Circle(w2, nx2, n - 1) /\ OneLessAt(w2, da2, it, n, j)
    BY <2>10
  <2>12. OnRing(w2, nx2, da2, it2)
    BY <1>1, <1>2, <2>6, <2>10, <2>11 DEF OnRing, OneLessAt
  <2>13. DOMAIN nx2 \subseteq 0 .. MaxItems /\ Len(it2) <= MaxItems
    <3>1. DOMAIN nx2 \subseteq DOMAIN nx
      BY <1>7, <2>7 DEF NextWithout
    <3>2. n - 1 <= MaxItems
      BY <1>14
    <3> QED BY <1>2, <1>4, <1>14, <2>6, <3>1, <3>2
  <2>14. RingsHold'
    <3>1. OnRing(w2, next', data', items')
      BY <1>2, <2>7, <2>8, <2>12
    <3>2. \E w3 : OnRing(w3, next', data', items')
      BY <3>1
    <3> QED BY <1>2, <2>7, <2>13, <3>2 DEF RingsHold, OnRing, Circle
  <2>15. ArraysHold'
    BY <1>7, <2>6 DEF ListInv, ArraysHold
  <2> QED BY <2>14, <2>15 DEF ListInv
<1> QED BY <1>15, <1>16

\* The array keeps every element through insertions that move the others and
\* reallocations that move them all, the stack all that was not pushed on a full
\* block.  Until a call frees its header the circular list is one ring of all its
\* nodes, and reads, once round, as the list of what was inserted behind the nodes
\* walked to and not handed back.
THEOREM ListsHoldHolds == L!Spec => []ListsHold
<1>1. L!Init => ListInv
  <2> SUFFICES ASSUME L!Init PROVE ListInv
    OBVIOUS
  <2>1. /\ kind \in {"SqList", "SqStack", "LinkList"}
        /\ block = [k \in 1 .. InitSize |-> Garbage] /\ length = 0 /\ items = <<>>
        /\ next = [y \in {L!Header} |-> L!Header] /\ data = [y \in {L!Header} |-> Garbage]
        /\ InitSize \in Nat /\ MaxItems \in Nat
    BY ProgramsAssumption DEF L!Init
  <2>2. block \in Seq(Cell) /\ Len(block) = InitSize
    BY <2>1, BlankCells DEF L!Blank
  <2>3. ArraysHold
    BY <2>1, <2>2 DEF ArraysHold
  <2>4. RingsHold
    <3> DEFINE w2 == [k \in 0 .. 0 |-> L!Header]
    <3>1. Circle(w2, next, 0)
      BY <2>1 DEF Circle, L!Header
    <3> HIDE DEF w2
    <3>2. OnRing(w2, next, data, items)
      BY <2>1, <3>1 DEF OnRing
    <3>3. DOMAIN next \subseteq 0 .. MaxItems /\ Len(items) <= MaxItems
      BY <2>1 DEF L!Header
    <3> QED BY <3>2, <3>3 DEF RingsHold
  <2> QED BY <2>3, <2>4 DEF ListInv
<1>2. ListInv /\ [L!Next]_(L!vars) => ListInv'
  <2> SUFFICES ASSUME ListInv, [L!Next]_(L!vars) PROVE ListInv'
    OBVIOUS
  <2>1. ASSUME kind' # "LinkList", ArraysHold' PROVE ListInv'
    BY <2>1 DEF ListInv, RingsHold
  <2>2. ASSUME NEW e \in Value, NEW j \in 1 .. length + 2, L!InsertList(j, e) PROVE ListInv'
    <3>1. kind' # "LinkList"
      BY <2>2 DEF L!InsertList, L!InsertAtWith, L!Array
    <3> QED BY <2>1, <2>2, <3>1, InsertListStep DEF ListInv
  <2>3. ASSUME NEW e \in Value, L!Push(e) PROVE ListInv'
    <3>1. kind' # "LinkList"
      BY <2>3 DEF L!Push, L!Array
    <3> QED BY <2>1, <2>3, <3>1, PushStep DEF ListInv
  <2>4. CASE L!Pop
    <3>1. kind' # "LinkList"
      BY <2>4 DEF L!Pop, L!Array
    <3> QED BY <2>1, <2>4, <3>1, PopStep DEF ListInv
  <2>5. CASE UNCHANGED L!vars
    <3>1. /\ kind' = kind /\ block' = block /\ length' = length
          /\ next' = next /\ data' = data /\ items' = items
      BY <2>5 DEF L!vars
    <3>2. ArraysHold'
      BY <3>1 DEF ListInv, ArraysHold
    <3>3. RingsHold'
      <4> SUFFICES ASSUME kind = "LinkList", L!Header \in DOMAIN next
                   PROVE  /\ DOMAIN next \subseteq 0 .. MaxItems /\ Len(items) <= MaxItems
                          /\ \E wi : OnRing(wi, next', data', items')
        BY <3>1 DEF RingsHold
      <4>1. PICK wi : OnRing(wi, next, data, items)
        BY DEF ListInv, RingsHold
      <4>2. OnRing(wi, next', data', items')
        BY <3>1, <4>1
      <4> QED BY <4>2 DEF ListInv, RingsHold
    <3> QED BY <3>2, <3>3 DEF ListInv
  <2> QED BY <2>2, <2>3, <2>4, <2>5, ListInsert_HeaderStep, ListInsert_LStep, ListDelete_LStep
          DEF L!Next
<1>3. ListInv => ListsHold
  <2> SUFFICES ASSUME ListInv PROVE ListsHold
    OBVIOUS
  <2>1. CASE kind # "LinkList"
    <3>1. DOMAIN items = 1 .. Len(items)
      BY DEF ListInv, ArraysHold
    <3> QED BY <2>1, <3>1 DEF ListInv, ArraysHold, ListsHold, L!ListsHold
  <2>2. CASE kind = "LinkList"
    <3>1. ASSUME L!Header \in DOMAIN next
          PROVE  /\ L!Walk[Len(items)] = L!Header
                 /\ \A x \in DOMAIN next \ {L!Header} : \E k \in 1 .. Len(items) : L!Walk[k - 1] = x
                 /\ L!Transver = items
      <4>1. PICK wi : OnRing(wi, next, data, items)
        BY <2>2, <3>1 DEF ListInv, RingsHold
      <4>2. items \in Seq(Cell) /\ Len(items) <= MaxItems
        BY <2>2, <3>1 DEF ListInv, ArraysHold, RingsHold
      <4> QED BY <4>1, <4>2, RingReads
    <3> QED BY <2>2, <3>1 DEF ListsHold, L!ListsHold
  <2> QED BY <2>1, <2>2
<1> QED BY <1>1, <1>2, <1>3, PTL DEF L!Spec


-----------------------------------------------------------------------------
(* The knapsacks of jichu8.cpp and leetcode/ZerorOnePack.cpp, and the      *)
(* houses of leetcode/Stolen.cpp: the best choice, for every input.        *)

K == INSTANCE Packs

\* The larger one of two numbers
LEMMA LargerOf ==
  ASSUME NEW x \in Nat, NEW y \in Nat
  PROVE  /\ K!Larger(x, y) \in Nat /\ K!Larger(x, y) = K!Larger(y, x)
         /\ x <= K!Larger(x, y) /\ y <= K!Larger(x, y)
         /\ K!Larger(x, y) = x \/ K!Larger(x, y) = y
BY DEF K!Larger

\* Two numbers add up to a number.
LEMMA AddNat ==
  ASSUME NEW x \in Nat, NEW y \in Nat
  PROVE  x + y \in Nat
OBVIOUS

\* A column to the left
LEMMA ColumnOf ==
  ASSUME NEW W \in Nat, NEW j \in 0 .. W, NEW x \in Nat, j >= x
  PROVE  j - x \in 0 .. W
OBVIOUS

\* A sum of numbers that are not negative
LEMMA SumOfNats ==
  ASSUME NEW n \in Nat, NEW f \in [1 .. n -> Nat]
  PROVE  SumOf(f, n) \in Nat
<1>1. f \in [1 .. n -> Int]
  OBVIOUS
<1>2. PICK u \in [0 .. n -> Int] :
         u[0] = 0 /\ (\A k \in 1 .. n : u[k] = u[k - 1] + f[k]) /\ SumOf(f, n) = u[n]
  BY <1>1, SumSteps
<1> DEFINE P == {k \in Nat : k <= n => u[k] \in Nat}
<1>3. 0 \in P
  BY <1>2
<1>4. ASSUME NEW k \in P PROVE k + 1 \in P
  <2>1. CASE k + 1 <= n
    <3>1. k + 1 \in 1 .. n /\ (k + 1) - 1 = k /\ u[k] \in Nat
      BY <2>1
    <3>2. u[k + 1] = u[k] + f[k + 1] /\ f[k + 1] \in Nat
      BY <1>2, <3>1
    <3> QED BY <3>1, <3>2
  <2>2. CASE ~ (k + 1 <= n)
    BY <2>2
  <2> QED BY <2>1, <2>2
<1>5. P = Nat
  <2>1. P \in SUBSET Nat
    OBVIOUS
  <2> HIDE DEF P
  <2> QED BY <1>3, <1>4, <2>1, Induct
<1>6. n \in P
  BY <1>5
<1> QED BY <1>2, <1>6

\* What the chosen ones add up to
Chosen(s, t) == [k \in 1 .. Len(s) |-> IF k \in t THEN s[k] ELSE 0]

\* A total is the sum of the chosen ones.
LEMMA TotalIsSum ==
  ASSUME NEW s \in Seq(Nat), NEW t
  PROVE  K!TotalOf(s, t) = SumOf(Chosen(s, t), Len(s)) /\ Chosen(s, t) \in [1 .. Len(s) -> Nat]
<1>1. DOMAIN s = 1 .. Len(s) /\ \A k \in 1 .. Len(s) : s[k] \in Nat
  OBVIOUS
<1>2. K!TotalOf(s, t) = SumOf(Chosen(s, t), Len(s))
  BY <1>1 DEF K!TotalOf, K!SumOf, SumOf, Chosen
<1> QED BY <1>1, <1>2 DEF Chosen

\* A total is a number.
LEMMA TotalIsNat ==
  ASSUME NEW s \in Seq(Nat), NEW t
  PROVE  K!TotalOf(s, t) \in Nat
<1>1. K!TotalOf(s, t) = SumOf(Chosen(s, t), Len(s)) /\ Chosen(s, t) \in [1 .. Len(s) -> Nat]
  BY TotalIsSum
<1>2. Len(s) \in Nat
  OBVIOUS
<1>3. SumOf(Chosen(s, t), Len(s)) \in Nat
  BY ONLY <1>1, <1>2, SumOfNats
<1> QED BY <1>1, <1>3

\* The total of nothing
LEMMA TotalOfNone ==
  ASSUME NEW s \in Seq(Nat)
  PROVE  K!TotalOf(s, {}) = 0
<1>1. Chosen(s, {}) \in [1 .. Len(s) -> Int] /\ Len(s) \in Nat
  BY TotalIsSum
<1>2. \A k \in 1 .. Len(s) : Chosen(s, {})[k] = 0
  BY DEF Chosen
<1> QED BY <1>1, <1>2, TotalIsSum, SumOfZeroes

\* One more is chosen.
LEMMA TotalGrows ==
  ASSUME NEW s \in Seq(Nat), NEW t, NEW k \in 1 .. Len(s), k \notin t
  PROVE  K!TotalOf(s, t \cup {k}) = K!TotalOf(s, t) + s[k]
<1> DEFINE f == Chosen(s, t)
           g == Chosen(s, t \cup {k})
<1>1. f \in [1 .. Len(s) -> Int] /\ g \in [1 .. Len(s) -> Int] /\ Len(s) \in Nat /\ s[k] \in Int
  BY TotalIsSum
<1>2. g[k] = f[k] + s[k] /\ \A j \in 1 .. Len(s) : j # k => g[j] = f[j]
  BY <1>1 DEF Chosen
<1>3. K!TotalOf(s, t) = SumOf(f, Len(s)) /\ K!TotalOf(s, t \cup {k}) = SumOf(g, Len(s))
  BY TotalIsSum
<1> HIDE DEF f, g
<1>4. SumOf(g, Len(s)) = SumOf(f, Len(s)) + s[k]
  BY <1>1, <1>2, SumGrows
<1> QED BY <1>3, <1>4

\* b is the most that items of I are worth that together weigh c at most.
IsBest(b, w, v, I, c) ==
    /\ \E t \in SUBSET I : K!TotalOf(w, t) <= c /\ K!TotalOf(v, t) = b
    /\ \A t \in SUBSET I : K!TotalOf(w, t) <= c => K!TotalOf(v, t) <= b

\* A row of a table has it for each c.
BestRow(row, w, v, I, W) == \A j \in 0 .. W : IsBest(row[j], w, v, I, j)

\* The next row: item k is left, or taken where it fits.
OneMoreItem(row2, row, w, v, k, W) ==
    \A j \in 0 .. W : row2[j] = IF j < w[k] THEN row[j]
                                ELSE K!Larger(row[j], row[j - w[k]] + v[k])

\* The best of no items
LEMMA PackNone ==
  ASSUME NEW w \in Seq(Nat), NEW v \in Seq(Nat), NEW W \in Nat, NEW row,
         \A j \in 0 .. W : row[j] = 0
  PROVE  BestRow(row, w, v, {}, W)
<1> SUFFICES ASSUME NEW j \in 0 .. W PROVE IsBest(row[j], w, v, {}, j)
  BY DEF BestRow
<1>1. K!TotalOf(w, {}) = 0 /\ K!TotalOf(v, {}) = 0 /\ row[j] = 0
  BY TotalOfNone
<1>2. \A t \in SUBSET {} : t = {}
  OBVIOUS
<1>3. {} \in SUBSET {} /\ 0 <= j
  OBVIOUS
<1>4. \E t \in SUBSET {} : K!TotalOf(w, t) <= j /\ K!TotalOf(v, t) = row[j]
  BY <1>1, <1>3
<1>5. ASSUME NEW t \in SUBSET {} PROVE K!TotalOf(v, t) <= row[j]
  <2>1. t = {} /\ row[j] = 0 /\ K!TotalOf(v, {}) = 0
    BY <1>1, <1>2
  <2> QED BY <2>1
<1> QED BY <1>4, <1>5 DEF IsBest

\* With item k left or taken, the row is the best of the items with k.
LEMMA PackStep ==
  ASSUME NEW w \in Seq(Nat), NEW v \in Seq(Nat), Len(v) = Len(w), NEW W \in Nat,
         NEW I, NEW k \in 1 .. Len(w), k \notin I,
         NEW row, BestRow(row, w, v, I, W),
         NEW row2, OneMoreItem(row2, row, w, v, k, W)
  PROVE  BestRow(row2, w, v, I \cup {k}, W)
<1> SUFFICES ASSUME NEW j \in 0 .. W PROVE IsBest(row2[j], w, v, I \cup {k}, j)
  BY DEF BestRow
<1>1. w[k] \in Nat /\ v[k] \in Nat /\ k \in 1 .. Len(v)
  OBVIOUS
<1>2. PICK t0 \in SUBSET I : K!TotalOf(w, t0) <= j /\ K!TotalOf(v, t0) = row[j]
  BY DEF BestRow, IsBest
<1>3. \A t \in SUBSET I : K!TotalOf(w, t) <= j => K!TotalOf(v, t) <= row[j]
  BY DEF BestRow, IsBest
<1>4. \A t : K!TotalOf(w, t) \in Nat /\ K!TotalOf(v, t) \in Nat
  BY TotalIsNat
<1>5. row[j] \in Nat
  BY <1>2, <1>4
\* A choice with k is one without it, and k.
<1>6. ASSUME NEW t \in SUBSET (I \cup {k}), k \in t
      PROVE  /\ t \ {k} \in SUBSET I
             /\ K!TotalOf(w, t) = K!TotalOf(w, t \ {k}) + w[k]
             /\ K!TotalOf(v, t) = K!TotalOf(v, t \ {k}) + v[k]
  <2>1. (t \ {k}) \cup {k} = t /\ k \notin t \ {k}
    BY <1>6
  <2>2. K!TotalOf(w, (t \ {k}) \cup {k}) = K!TotalOf(w, t \ {k}) + w[k]
    BY <2>1, TotalGrows
  <2>3. K!TotalOf(v, (t \ {k}) \cup {k}) = K!TotalOf(v, t \ {k}) + v[k]
    BY <1>1, <2>1, TotalGrows
  <2> QED BY <2>1, <2>2, <2>3
<1>7. CASE j < w[k]
  <2>1. row2[j] = row[j]
    BY <1>7 DEF OneMoreItem
  <2>2. t0 \in SUBSET (I \cup {k})
    OBVIOUS
  <2>3. ASSUME NEW t \in SUBSET (I \cup {k}), K!TotalOf(w, t) <= j
        PROVE  K!TotalOf(v, t) <= row[j]
    <3>1. k \notin t
      <4> SUFFICES ASSUME k \in t PROVE FALSE
        OBVIOUS
      <4>1. K!TotalOf(w, t) = K!TotalOf(w, t \ {k}) + w[k]
        BY <1>6
      <4>2. K!TotalOf(w, t \ {k}) \in Nat
        BY <1>4
      <4> QED BY <1>1, <1>7, <2>3, <4>1, <4>2
    <3>2. t \in SUBSET I
      BY <3>1
    <3> QED BY <1>3, <2>3, <3>2
  <2> QED BY <1>2, <2>1, <2>2, <2>3 DEF IsBest
<1>8. CASE ~ (j < w[k])
  <2> DEFINE c == j - w[k]
  <2>1. c \in 0 .. W /\ c + w[k] = j /\ c \in Nat
    BY <1>1, <1>8
  <2>2. row2[j] = K!Larger(row[j], row[c] + v[k])
    BY <1>8 DEF OneMoreItem
  <2> HIDE DEF c
  <2>3. PICK t1 \in SUBSET I : K!TotalOf(w, t1) <= c /\ K!TotalOf(v, t1) = row[c]
    BY <2>1 DEF BestRow, IsBest
  <2>4. \A t \in SUBSET I : K!TotalOf(w, t) <= c => K!TotalOf(v, t) <= row[c]
    BY <2>1 DEF BestRow, IsBest
  <2>5. row[c] \in Nat
    BY <1>4, <2>3
  <2>6. /\ row2[j] \in Nat /\ row[j] <= row2[j] /\ row[c] + v[k] <= row2[j]
        /\ row2[j] = row[j] \/ row2[j] = row[c] + v[k]
    BY <1>1, <1>5, <2>2, <2>5 DEF K!Larger
  <2>7. \E t \in SUBSET (I \cup {k}) : K!TotalOf(w, t) <= j /\ K!TotalOf(v, t) = row2[j]
    <3>1. CASE row2[j] = row[j]
      <4>1. t0 \in SUBSET (I \cup {k})
        OBVIOUS
      <4> QED BY <1>2, <3>1, <4>1
    <3>2. CASE row2[j] = row[c] + v[k]
      <4>1. t1 \cup {k} \in SUBSET (I \cup {k}) /\ k \in t1 \cup {k} /\ (t1 \cup {k}) \ {k} = t1
        OBVIOUS
      <4>2. /\ K!TotalOf(w, t1 \cup {k}) = K!TotalOf(w, t1) + w[k]
            /\ K!TotalOf(v, t1 \cup {k}) = K!TotalOf(v, t1) + v[k]
        BY <1>1, TotalGrows
      <4>3. K!TotalOf(w, t1 \cup {k}) <= j /\ K!TotalOf(v, t1 \cup {k}) = row2[j]
        <5>1. K!TotalOf(w, t1) \in Nat
          BY <1>4
        <5> QED BY <1>1, <2>1, <2>3, <3>2, <4>2, <5>1
      <4> QED BY <4>1, <4>3
    <3> QED BY <2>6, <3>1, <3>2
  <2>8. ASSUME NEW t \in SUBSET (I \cup {k}), K!TotalOf(w, t) <= j
        PROVE  K!TotalOf(v, t) <= row2[j]
    <3>1. CASE k \in t
      <4>1. /\ t \ {k} \in SUBSET I
            /\ K!TotalOf(w, t) = K!TotalOf(w, t \ {k}) + w[k]
            /\ K!TotalOf(v, t) = K!TotalOf(v, t \ {k}) + v[k]
        BY <1>6, <3>1
      <4>2. K!TotalOf(w, t \ {k}) \in Nat /\ K!TotalOf(v, t \ {k}) \in Nat
        BY <1>4
      <4>3. K!TotalOf(w, t \ {k}) <= c
        BY <1>1, <2>1, <2>8, <4>1, <4>2
      <4>4. K!TotalOf(v, t \ {k}) <= row[c]
        BY <2>4, <4>1, <4>3
      <4>5. K!TotalOf(v, t) <= row[c] + v[k]
        <5>1. K!TotalOf(v, t) = K!TotalOf(v, t \ {k}) + v[k] /\ v[k] \in Nat
          BY <1>1, <4>1
        <5> QED BY <2>5, <4>2, <4>4, <5>1
      <4>6. K!TotalOf(v, t) \in Nat /\ row[c] + v[k] \in Nat
        BY <1>1, <1>4, <2>5
      <4> QED BY <2>6, <4>5, <4>6
    <3>2. CASE k \notin t
      <4>1. t \in SUBSET I
        BY <3>2
      <4>2. K!TotalOf(v, t) <= row[j]
        BY <1>3, <2>8, <4>1
      <4>3. K!TotalOf(v, t) \in Nat
        BY <1>4
      <4> QED BY <1>5, <2>6, <4>2, <4>3
    <3> QED BY <3>1, <3>2
  <2> QED BY <2>7, <2>8 DEF IsBest
<1> QED BY <1>7, <1>8

\* The largest of a set of numbers
LEMMA LargestIs ==
  ASSUME NEW T \in SUBSET Int, NEW b \in T, \A x \in T : x <= b
  PROVE  K!Max(T) = b
<1>1. \E x \in T : \A y \in T : x >= y
  OBVIOUS
<1>2. K!Max(T) \in T /\ \A y \in T : K!Max(T) >= y
  BY <1>1 DEF K!Max
<1>3. K!Max(T) \in Int /\ b \in Int /\ K!Max(T) >= b /\ K!Max(T) <= b
  BY <1>2
<1> QED BY <1>3

\* The best of all items is what the reference computes.
LEMMA BestIsBestPack ==
  ASSUME NEW w \in Seq(Nat), NEW v \in Seq(Nat), NEW W \in Nat, NEW b,
         IsBest(b, w, v, 1 .. Len(w), W)
  PROVE  b = K!BestPack(w, v, W)
<1> DEFINE T == {K!TotalOf(v, t) : t \in {u \in SUBSET DOMAIN w : K!TotalOf(w, u) <= W}}
<1>1. DOMAIN w = 1 .. Len(w)
  OBVIOUS
<1>2. b \in T
  BY <1>1 DEF IsBest
<1>3. \A x \in T : x <= b
  BY <1>1 DEF IsBest
<1>4. T \in SUBSET Int
  BY TotalIsNat
<1>5. K!BestPack(w, v, W) = K!Max(T)
  BY DEF K!BestPack
<1> HIDE DEF T
<1> QED BY <1>2, <1>3, <1>4, <1>5, LargestIs

-----------------------------------------------------------------------------
(* leetcode/ZerorOnePack.cpp                                               *)

\* The cell j of the row behind the row p, with item k
FilledCell(w, v, p, k, j) ==
    IF j >= w[k] THEN K!Larger(p[j - w[k]] + v[k], p[j]) ELSE p[j]

\* The rows of the table
FilledRows(dp, w, v, W) ==
    dp = [m \in 0 .. Len(w) |->
            [j \in 0 .. W |-> IF m = 0 THEN 0 ELSE FilledCell(w, v, dp[m - 1], m, j)]]

\* There are such rows, so the definition means them.
LEMMA FilledIs ==
  ASSUME NEW w \in Seq(Nat), NEW v \in Seq(Nat), Len(v) = Len(w), NEW W \in Nat
  PROVE  FilledRows(K!Filled(w, v, W), w, v, W)
<1> DEFINE n == Len(w)
           V == [0 .. W -> Nat]
           b == [j \in 0 .. W |-> 0]
           g == [x \in V \X Nat |->
                    IF x[2] \in 1 .. n THEN [j \in 0 .. W |-> FilledCell(w, v, x[1], x[2], j)]
                    ELSE x[1]]
<1>1. n \in Nat /\ \A k \in 1 .. n : w[k] \in Nat /\ v[k] \in Nat
  OBVIOUS
<1>2. ASSUME NEW p \in V, NEW k \in 1 .. n, NEW j \in 0 .. W
      PROVE  FilledCell(w, v, p, k, j) \in Nat
  <2>1. CASE j >= w[k]
    <3>0. w[k] \in Nat /\ v[k] \in Nat
      BY <1>1
    <3>1. j - w[k] \in 0 .. W /\ v[k] \in Nat
      BY ONLY <2>1, <3>0, ColumnOf
    <3>2. p[j - w[k]] \in Nat /\ p[j] \in Nat
      BY <3>1
    <3>3. p[j - w[k]] + v[k] \in Nat
      BY ONLY <3>1, <3>2, AddNat
    <3>4. FilledCell(w, v, p, k, j) = K!Larger(p[j - w[k]] + v[k], p[j])
      BY <2>1 DEF FilledCell
    <3>5. K!Larger(p[j - w[k]] + v[k], p[j]) \in Nat
      BY <3>2, <3>3, LargerOf
    <3> QED BY <3>4, <3>5
  <2>2. CASE ~ (j >= w[k])
    BY <2>2 DEF FilledCell
  <2> QED BY <2>1, <2>2
<1>3. b \in V
  OBVIOUS
<1>4. g \in [V \X Nat -> V]
  <2> SUFFICES ASSUME NEW x \in V \X Nat
               PROVE  (IF x[2] \in 1 .. n
                       THEN [j \in 0 .. W |-> FilledCell(w, v, x[1], x[2], j)]
                       ELSE x[1]) \in V
    OBVIOUS
  <2>1. x[1] \in V
    OBVIOUS
  <2>2. CASE x[2] \in 1 .. n
    <3>1. \A j \in 0 .. W : FilledCell(w, v, x[1], x[2], j) \in Nat
      BY <1>2, <2>1, <2>2
    <3> QED BY <2>2, <3>1
  <2> QED BY <2>1, <2>2
<1>5. ASSUME NEW p \in V, NEW k \in 1 .. n
      PROVE  g[<<p, k>>] = [j \in 0 .. W |-> FilledCell(w, v, p, k, j)]
  <2>1. <<p, k>> \in V \X Nat /\ <<p, k>>[1] = p /\ <<p, k>>[2] = k
    BY <1>1
  <2> QED BY <2>1
<1> HIDE DEF g, b, V
<1>6. PICK h \in [0 .. n -> V] : GoesOn(h, b, g, n)
  BY ONLY <1>1, <1>3, <1>4, RecursionUpTo
<1>7. ASSUME NEW m \in 0 .. n
      PROVE  h[m] = [j \in 0 .. W |-> IF m = 0 THEN 0 ELSE FilledCell(w, v, h[m - 1], m, j)]
  <2>1. CASE m = 0
    BY <1>6, <2>1 DEF GoesOn, b
  <2>2. CASE m # 0
    <3>1. m \in 1 .. n /\ m - 1 \in 0 .. n
      BY <1>1, <2>2
    <3>2. h[m - 1] \in V /\ h[m] = g[<<h[m - 1], m>>]
      BY <1>6, <3>1 DEF GoesOn
    <3> QED BY <1>5, <2>2, <3>1, <3>2
  <2> QED BY <2>1, <2>2
<1>8. FilledRows(h, w, v, W)
  <2>1. h = [m \in 0 .. n |-> h[m]]
    BY <1>6
  <2> QED BY <1>7, <2>1 DEF FilledRows
<1>9. K!Filled(w, v, W) = CHOOSE dp : FilledRows(dp, w, v, W)
  BY DEF K!Filled, FilledRows, FilledCell
<1> QED BY <1>8, <1>9

\* leetcode/ZerorOnePack.cpp computes the most that items of total weight t at most are
\* worth, for any items and any t.
THEOREM ZeroOnePackIsBest ==
  \A w, v \in Seq(Nat) : \A t \in Nat :
      Len(v) = Len(w) => K!ZeroOnePack(w, v, t) = K!BestPack(w, v, t)
<1> SUFFICES ASSUME NEW w \in Seq(Nat), NEW v \in Seq(Nat), NEW W \in Nat, Len(v) = Len(w)
             PROVE  K!ZeroOnePack(w, v, W) = K!BestPack(w, v, W)
  OBVIOUS
<1>1. PICK dp : dp = K!Filled(w, v, W)
  OBVIOUS
<1>2. PICK n \in Nat : n = Len(w)
  OBVIOUS
<1>3. ASSUME NEW m \in 0 .. n, NEW j \in 0 .. W
      PROVE  dp[m][j] = IF m = 0 THEN 0 ELSE FilledCell(w, v, dp[m - 1], m, j)
  <2>1. FilledRows(dp, w, v, W)
    BY <1>1, FilledIs
  <2>2. dp[m] = [l \in 0 .. W |-> IF m = 0 THEN 0 ELSE FilledCell(w, v, dp[m - 1], m, l)]
    BY <1>2, <2>1 DEF FilledRows
  <2> QED BY <2>2
<1> DEFINE P == {m \in Nat : m <= n => BestRow(dp[m], w, v, 1 .. m, W)}
<1>4. 0 \in P
  <2>1. \A j \in 0 .. W : dp[0][j] = 0
    BY <1>3
  <2>2. BestRow(dp[0], w, v, {}, W)
    BY <2>1, PackNone
  <2>3. 1 .. 0 = {}
    OBVIOUS
  <2> QED BY <2>2, <2>3
<1>5. ASSUME NEW m \in P PROVE m + 1 \in P
  <2> SUFFICES ASSUME m + 1 <= n PROVE BestRow(dp[m + 1], w, v, 1 .. m + 1, W)
    OBVIOUS
  <2>1. m + 1 \in 1 .. Len(w) /\ m + 1 \in 0 .. n /\ m + 1 # 0 /\ (m + 1) - 1 = m /\ m <= n
    BY <1>2
  <2>2. BestRow(dp[m], w, v, 1 .. m, W)
    BY <2>1
  <2>3. 1 .. m + 1 = (1 .. m) \cup {m + 1} /\ m + 1 \notin 1 .. m
    BY <2>1
  <2>4. OneMoreItem(dp[m + 1], dp[m], w, v, m + 1, W)
    <3> SUFFICES ASSUME NEW j \in 0 .. W
                 PROVE  dp[m + 1][j] = IF j < w[m + 1] THEN dp[m][j]
                                       ELSE K!Larger(dp[m][j], dp[m][j - w[m + 1]] + v[m + 1])
      BY DEF OneMoreItem
    <3>1. dp[m + 1][j] = FilledCell(w, v, dp[m], m + 1, j)
      BY <1>3, <2>1
    <3>2. w[m + 1] \in Nat /\ v[m + 1] \in Nat /\ j \in Int
      BY <2>1
    <3>3. CASE j < w[m + 1]
      BY <3>1, <3>2, <3>3 DEF FilledCell
    <3>4. CASE ~ (j < w[m + 1])
      <4>1. j - w[m + 1] \in 0 .. W /\ j >= w[m + 1]
        BY <3>2, <3>4
      <4>2. dp[m][j] \in Nat /\ dp[m][j - w[m + 1]] \in Nat
        BY <2>2, <4>1, TotalIsNat DEF BestRow, IsBest
      <4>3. dp[m + 1][j] = K!Larger(dp[m][j - w[m + 1]] + v[m + 1], dp[m][j])
        BY <3>1, <4>1 DEF FilledCell
      <4>4. dp[m][j - w[m + 1]] + v[m + 1] \in Nat
        BY ONLY <3>2, <4>2, AddNat
      <4>5. dp[m + 1][j] = K!Larger(dp[m][j], dp[m][j - w[m + 1]] + v[m + 1])
        BY <4>2, <4>3, <4>4, LargerOf
      <4> QED BY <3>4, <4>5
    <3> QED BY <3>3, <3>4
  <2> HIDE DEF P
  <2>5. BestRow(dp[m + 1], w, v, (1 .. m) \cup {m + 1}, W)
    BY <2>1, <2>2, <2>3, <2>4, PackStep
  <2> QED BY <2>3, <2>5
<1>6. P = Nat
  <2>1. P \in SUBSET Nat
    OBVIOUS
  <2> HIDE DEF P
  <2> QED BY <1>4, <1>5, <2>1, Induct
<1>7. IsBest(dp[n][W], w, v, 1 .. Len(w), W)
  <2>1. n \in P
    BY <1>6
  <2> QED BY <1>2, <2>1 DEF BestRow
<1>8. dp[n][W] = K!BestPack(w, v, W)
  BY <1>7, BestIsBestPack
<1>9. K!ZeroOnePack(w, v, W) = dp[n][W]
  BY <1>1, <1>2 DEF K!ZeroOnePack
<1> QED BY <1>8, <1>9

-----------------------------------------------------------------------------
(* jichu8.cpp                                                              *)

\* The cell j of the row before the row p, with item k of n
RowsCell(w, v, n, p, k, j) ==
    IF k = n + 1 \/ (j = 0 /\ w[k] > 0) THEN 0
    ELSE IF k = n THEN IF j < w[n] THEN 0 ELSE v[n]
    ELSE IF j < w[k] THEN p[j]
    ELSE K!Larger(p[j], p[j - w[k]] + v[k])

\* The rows of the table
AllRows(V, w, v, W) ==
    V = [k \in 1 .. Len(w) + 1 |-> [j \in 0 .. W |-> RowsCell(w, v, Len(w), V[k + 1], k, j)]]

\* There are such rows, so the definition means them.
LEMMA RowsAre ==
  ASSUME NEW w \in Seq(Nat), NEW v \in Seq(Nat), Len(v) = Len(w), NEW W \in Nat
  PROVE  AllRows(K!Rows(w, v, W), w, v, W) /\ K!Rows(w, v, W) \in [1 .. Len(w) + 1 -> [0 .. W -> Nat]]
<1>0. PICK n \in Nat : n = Len(w)
  OBVIOUS
<1> DEFINE Row == [0 .. W -> Nat]
           b == [j \in 0 .. W |-> 0]
           g == [x \in Row \X Nat |->
                    IF x[2] \in 1 .. n
                    THEN [j \in 0 .. W |-> RowsCell(w, v, n, x[1], n + 1 - x[2], j)]
                    ELSE x[1]]
<1>1. \A k \in 1 .. n : w[k] \in Nat /\ v[k] \in Nat
  BY <1>0
<1>2. ASSUME NEW p \in Row, NEW k \in 1 .. n, NEW j \in 0 .. W
      PROVE  RowsCell(w, v, n, p, k, j) \in Nat
  <2>0. w[k] \in Nat /\ v[k] \in Nat /\ v[n] \in Nat /\ p[j] \in Nat
    <3>1. n \in 1 .. n
      OBVIOUS
    <3>2. w[k] \in Nat /\ v[k] \in Nat /\ v[n] \in Nat
      BY <1>1, <3>1
    <3> QED BY <3>2
  <2>1. CASE j >= w[k]
    <3>1. j - w[k] \in 0 .. W
      BY ONLY <2>0, <2>1, ColumnOf
    <3>2. p[j - w[k]] \in Nat
      BY <3>1
    <3>3. p[j - w[k]] + v[k] \in Nat
      BY ONLY <2>0, <3>2, AddNat
    <3>4. K!Larger(p[j], p[j - w[k]] + v[k]) \in Nat
      BY <2>0, <3>3, LargerOf
    <3> HIDE DEF Row
    <3> QED BY ONLY <2>0, <3>4 DEF RowsCell
  <2>2. CASE ~ (j >= w[k])
    <3>1. w[k] \in Int /\ j \in Int
      BY ONLY <2>0, j \in 0 .. W
    <3>2. j < w[k]
      BY ONLY <2>2, <3>1
    <3> QED BY ONLY <2>0, <3>2 DEF RowsCell
  <2> QED BY <2>1, <2>2
<1>3. b \in Row
  OBVIOUS
<1>4. g \in [Row \X Nat -> Row]
  <2> SUFFICES ASSUME NEW x \in Row \X Nat
               PROVE  (IF x[2] \in 1 .. n
                       THEN [j \in 0 .. W |-> RowsCell(w, v, n, x[1], n + 1 - x[2], j)]
                       ELSE x[1]) \in Row
    OBVIOUS
  <2>1. x[1] \in Row
    OBVIOUS
  <2>2. CASE x[2] \in 1 .. n
    <3>1. n + 1 - x[2] \in 1 .. n
      BY <2>2
    <3>2. \A j \in 0 .. W : RowsCell(w, v, n, x[1], n + 1 - x[2], j) \in Nat
      BY <1>2, <2>1, <3>1
    <3> QED BY <2>2, <3>2
  <2> QED BY <2>1, <2>2
<1>5. ASSUME NEW p \in Row, NEW m \in 1 .. n
      PROVE  g[<<p, m>>] = [j \in 0 .. W |-> RowsCell(w, v, n, p, n + 1 - m, j)]
  <2>1. <<p, m>> \in Row \X Nat /\ <<p, m>>[1] = p /\ <<p, m>>[2] = m
    OBVIOUS
  <2> QED BY <2>1
<1> HIDE DEF g, b, Row
<1>6. PICK h \in [0 .. n -> Row] : GoesOn(h, b, g, n)
  BY ONLY <1>0, <1>3, <1>4, RecursionUpTo
<1> DEFINE V == [k \in 1 .. n + 1 |-> h[n + 1 - k]]
<1>7. V \in [1 .. n + 1 -> Row]
  <2>1. \A k \in 1 .. n + 1 : n + 1 - k \in 0 .. n
    OBVIOUS
  <2> QED BY <1>6, <2>1
<1>8. ASSUME NEW k \in 1 .. n + 1
      PROVE  V[k] = [j \in 0 .. W |-> RowsCell(w, v, n, V[k + 1], k, j)]
  <2>1. CASE k = n + 1
    <3>1. n + 1 - k = 0 /\ V[k] = h[n + 1 - k]
      BY <2>1
    <3>2. V[k] = b
      BY <1>6, <3>1 DEF GoesOn
    <3>3. \A j \in 0 .. W : RowsCell(w, v, n, V[k + 1], k, j) = 0
      BY <2>1 DEF RowsCell
    <3> QED BY <3>2, <3>3 DEF b
  <2>2. CASE k # n + 1
    <3> DEFINE m == n + 1 - k
    <3>1. m \in 1 .. n /\ m - 1 \in 0 .. n /\ n + 1 - m = k /\ n + 1 - (k + 1) = m - 1 /\ k + 1 \in 1 .. n + 1
      BY <2>2
    <3>2. V[k] = h[m] /\ V[k + 1] = h[m - 1]
      BY <3>1
    <3> HIDE DEF m, V
    <3>3. h[m - 1] \in Row /\ h[m] = g[<<h[m - 1], m>>]
      BY <1>6, <3>1 DEF GoesOn
    <3>4. h[m] = [j \in 0 .. W |-> RowsCell(w, v, n, h[m - 1], n + 1 - m, j)]
      BY <1>5, <3>1, <3>3
    <3> QED BY <3>1, <3>2, <3>4
  <2> QED BY <2>1, <2>2
<1>9. AllRows(V, w, v, W)
  <2>1. V = [k \in 1 .. n + 1 |-> V[k]]
    OBVIOUS
  <2> HIDE DEF V
  <2>2. V = [k \in 1 .. n + 1 |-> [j \in 0 .. W |-> RowsCell(w, v, n, V[k + 1], k, j)]]
    BY <1>8, <2>1
  <2> QED BY <1>0, <2>2 DEF AllRows
<1> HIDE DEF V
<1>10. K!Rows(w, v, W) = CHOOSE U : AllRows(U, w, v, W)
  BY DEF K!Rows, AllRows, RowsCell
<1>11. AllRows(K!Rows(w, v, W), w, v, W)
  BY <1>9, <1>10
<1> DEFINE U == K!Rows(w, v, W)
<1>12. U = [k \in 1 .. n + 1 |-> [j \in 0 .. W |-> RowsCell(w, v, n, U[k + 1], k, j)]]
  BY <1>0, <1>11 DEF AllRows
<1> HIDE DEF U
<1> DEFINE Q == {m \in Nat : m <= n => U[n + 1 - m] \in Row}
<1>13. 0 \in Q
  <2>1. n + 1 \in 1 .. n + 1 /\ n + 1 - 0 = n + 1
    OBVIOUS
  <2>2. \A j \in 0 .. W : RowsCell(w, v, n, U[n + 1 + 1], n + 1, j) = 0
    BY DEF RowsCell
  <2>3. U[n + 1] = [j \in 0 .. W |-> RowsCell(w, v, n, U[n + 1 + 1], n + 1, j)]
    BY <1>12, <2>1
  <2>4. U[n + 1] \in Row
    BY <2>2, <2>3 DEF Row
  <2> QED BY <2>1, <2>4
<1>14. ASSUME NEW m \in Q PROVE m + 1 \in Q
  <2> SUFFICES ASSUME m + 1 <= n PROVE U[n + 1 - (m + 1)] \in Row
    OBVIOUS
  <2> DEFINE k == n + 1 - (m + 1)
  <2>1. k \in 1 .. n /\ k \in 1 .. n + 1 /\ k + 1 = n + 1 - m /\ m <= n
    OBVIOUS
  <2>2. U[k + 1] \in Row
    BY <2>1
  <2> HIDE DEF k
  <2>3. U[k] = [j \in 0 .. W |-> RowsCell(w, v, n, U[k + 1], k, j)]
    BY <1>12, <2>1
  <2>4. \A j \in 0 .. W : RowsCell(w, v, n, U[k + 1], k, j) \in Nat
    BY <1>2, <2>1, <2>2
  <2>5. U[k] \in Row
    BY <2>3, <2>4 DEF Row
  <2> QED BY <2>5 DEF k
<1>15. Q = Nat
  <2>1. Q \in SUBSET Nat
    OBVIOUS
  <2> HIDE DEF Q
  <2> QED BY <1>13, <1>14, <2>1, Induct
<1>16. ASSUME NEW k \in 1 .. n + 1 PROVE U[k] \in Row
  <2>1. n + 1 - k \in Nat /\ n + 1 - k <= n /\ n + 1 - (n + 1 - k) = k
    OBVIOUS
  <2>2. n + 1 - k \in Q
    BY <1>15, <2>1
  <2> QED BY <2>1, <2>2
<1>17. U \in [1 .. n + 1 -> Row]
  BY <1>12, <1>16
<1> QED BY <1>0, <1>11, <1>17 DEF U, Row

\* From row to row item k is left or taken.
RowByRow(V, w, v, W) ==
    /\ V \in [1 .. Len(w) + 1 -> [0 .. W -> Nat]]
    /\ \A j \in 0 .. W : V[Len(w) + 1][j] = 0
    /\ \A k \in 1 .. Len(w) : OneMoreItem(V[k], V[k + 1], w, v, k, W)

\* So do the rows of jichu8.cpp if every item weighs something.
LEMMA RowsStep ==
  ASSUME NEW w \in Seq(Nat \ {0}), NEW v \in Seq(Nat), Len(v) = Len(w), NEW W \in Nat
  PROVE  RowByRow(K!Rows(w, v, W), w, v, W)
<1> SUFFICES ASSUME NEW V, V = K!Rows(w, v, W) PROVE RowByRow(V, w, v, W)
  OBVIOUS
<1>0. PICK n \in Nat : n = Len(w)
  OBVIOUS
<1>1. w \in Seq(Nat) /\ \A k \in 1 .. n : w[k] \in Nat /\ w[k] > 0 /\ v[k] \in Nat
  BY <1>0
<1>2. /\ V \in [1 .. n + 1 -> [0 .. W -> Nat]]
      /\ V = [k \in 1 .. n + 1 |-> [j \in 0 .. W |-> RowsCell(w, v, n, V[k + 1], k, j)]]
  <2>1. AllRows(V, w, v, W) /\ V \in [1 .. Len(w) + 1 -> [0 .. W -> Nat]]
    BY <1>1, RowsAre
  <2> QED BY <1>0, <2>1 DEF AllRows
<1>3. ASSUME NEW k \in 1 .. n + 1, NEW j \in 0 .. W
      PROVE  V[k][j] = RowsCell(w, v, n, V[k + 1], k, j)
  <2>1. V[k] = [l \in 0 .. W |-> RowsCell(w, v, n, V[k + 1], k, l)]
    BY <1>2
  <2> QED BY <2>1
<1>4. \A j \in 0 .. W : V[n + 1][j] = 0
  BY <1>3 DEF RowsCell
<1>5. ASSUME NEW k \in 1 .. n PROVE OneMoreItem(V[k], V[k + 1], w, v, k, W)
  <2> SUFFICES ASSUME NEW j \in 0 .. W
               PROVE  V[k][j] = IF j < w[k] THEN V[k + 1][j]
                                ELSE K!Larger(V[k + 1][j], V[k + 1][j - w[k]] + v[k])
    BY DEF OneMoreItem
  <2>1. k \in 1 .. n + 1 /\ k + 1 \in 1 .. n + 1 /\ k # n + 1 /\ 0 \in 0 .. W
    OBVIOUS
  <2>2. w[k] \in Nat /\ w[k] > 0 /\ v[k] \in Nat
    BY <1>1
  <2>3. V[k][j] = RowsCell(w, v, n, V[k + 1], k, j)
    BY <1>3, <2>1
  <2>4. CASE j = 0
    <3>1. V[k][j] = 0
      BY <2>2, <2>3, <2>4 DEF RowsCell
    <3>2. V[k + 1][0] = 0
      <4>1. CASE k + 1 = n + 1
        BY <1>4, <2>1, <4>1
      <4>2. CASE k + 1 # n + 1
        <5>1. k + 1 \in 1 .. n
          BY <4>2
        <5>2. w[k + 1] > 0
          BY <1>1, <5>1
        <5> QED BY <1>3, <2>1, <5>2 DEF RowsCell
      <4> QED BY <4>1, <4>2
    <3>3. j < w[k]
      BY <2>2, <2>4
    <3> QED BY <2>4, <3>1, <3>2, <3>3
  <2>5. CASE j # 0 /\ k = n
    <3>1. V[k][j] = IF j < w[k] THEN 0 ELSE v[k]
      BY <2>1, <2>3, <2>5 DEF RowsCell
    <3>2. V[k + 1][j] = 0
      BY <1>4, <2>5
    <3>3. CASE j < w[k]
      BY <3>1, <3>2, <3>3
    <3>4. CASE ~ (j < w[k])
      <4>1. j - w[k] \in 0 .. W
        BY <2>2, <3>4
      <4>2. V[k + 1][j - w[k]] = 0
        BY <1>4, <2>5, <4>1
      <4>3. K!Larger(V[k + 1][j], V[k + 1][j - w[k]] + v[k]) = v[k]
        BY <2>2, <3>2, <4>2 DEF K!Larger
      <4> QED BY <3>1, <3>4, <4>3
    <3> QED BY <3>3, <3>4
  <2>6. CASE j # 0 /\ k # n
    BY <2>1, <2>3, <2>6 DEF RowsCell
  <2> QED BY <2>4, <2>5, <2>6
<1> QED BY <1>0, <1>2, <1>4, <1>5 DEF RowByRow

\* Row k of the table has the best of the items k .. n.
LEMMA RowsAreBest ==
  ASSUME NEW w \in Seq(Nat \ {0}), NEW v \in Seq(Nat), Len(v) = Len(w), NEW W \in Nat
  PROVE  \A k \in 1 .. Len(w) + 1 : BestRow(K!Rows(w, v, W)[k], w, v, k .. Len(w), W)
<1>0. PICK n \in Nat : n = Len(w)
  OBVIOUS
<1>1. PICK V : V = K!Rows(w, v, W)
  OBVIOUS
<1>2. /\ \A j \in 0 .. W : V[n + 1][j] = 0
      /\ \A k \in 1 .. n : OneMoreItem(V[k], V[k + 1], w, v, k, W)
  BY <1>0, <1>1, RowsStep DEF RowByRow
<1>3. w \in Seq(Nat)
  OBVIOUS
<1> DEFINE Q == {m \in Nat : m <= n => BestRow(V[n + 1 - m], w, v, n + 1 - m .. n, W)}
<1>4. 0 \in Q
  <2>1. n + 1 - 0 = n + 1 /\ n + 1 - 0 .. n = {}
    OBVIOUS
  <2>2. BestRow(V[n + 1], w, v, {}, W)
    BY <1>2, <1>3, PackNone
  <2> QED BY <2>1, <2>2
<1>5. ASSUME NEW m \in Q PROVE m + 1 \in Q
  <2> SUFFICES ASSUME m + 1 <= n
               PROVE  BestRow(V[n + 1 - (m + 1)], w, v, n + 1 - (m + 1) .. n, W)
    OBVIOUS
  <2> DEFINE k == n + 1 - (m + 1)
  <2>1. /\ k \in 1 .. n /\ k \in 1 .. Len(w) /\ k + 1 = n + 1 - m /\ m <= n
        /\ k \notin k + 1 .. n /\ (k + 1 .. n) \cup {k} = k .. n
    <3>1. k \in 1 .. n /\ k \in Int /\ k + 1 = n + 1 - m /\ m <= n
      OBVIOUS
    <3> HIDE DEF k
    <3>2. k \notin k + 1 .. n
      BY <3>1
    <3>3. (k + 1 .. n) \cup {k} = k .. n
      BY <3>1
    <3> QED BY <1>0, <3>1, <3>2, <3>3
  <2>2. BestRow(V[k + 1], w, v, k + 1 .. n, W)
    BY <2>1
  <2> HIDE DEF k
  <2>3. OneMoreItem(V[k], V[k + 1], w, v, k, W)
    BY <1>2, <2>1
  <2>4. BestRow(V[k], w, v, (k + 1 .. n) \cup {k}, W)
    BY <1>3, <2>1, <2>2, <2>3, PackStep
  <2> QED BY <2>1, <2>4 DEF k
<1>6. Q = Nat
  <2>1. Q \in SUBSET Nat
    OBVIOUS
  <2> HIDE DEF Q
  <2> QED BY <1>4, <1>5, <2>1, Induct
<1>7. ASSUME NEW k \in 1 .. n + 1 PROVE BestRow(V[k], w, v, k .. n, W)
  <2>1. n + 1 - k \in Nat /\ n + 1 - k <= n /\ n + 1 - (n + 1 - k) = k
    OBVIOUS
  <2>2. n + 1 - k \in Q
    BY <1>6, <2>1
  <2> QED BY <2>1, <2>2
<1> QED BY <1>0, <1>1, <1>7

\* The table that Knaspack leaves: a cell differs from the one of the next row only if
\* item k fits and is taken.
TableOf(V, w, v, W) ==
    /\ \A j \in 0 .. W : V[Len(w) + 1][j] = 0
    /\ \A k \in 1 .. Len(w) : \A c \in 0 .. W :
          (k = 1 => c = W) /\ V[k][c] # V[k + 1][c]
              => w[k] <= c /\ V[k][c] = V[k + 1][c - w[k]] + v[k]
    /\ \A k \in 1 .. Len(w) + 1 : \A c \in 0 .. W : V[k][c] \in Nat

\* Knaspack leaves such a table, with the best value in row 1 unless the first item
\* alone fills the knapsack.
LEMMA KnaspackIs ==
  ASSUME NEW w \in Seq(Nat \ {0}), NEW v \in Seq(Nat), Len(v) = Len(w), Len(w) >= 1, NEW W \in Nat
  PROVE  /\ TableOf(K!Knaspack(w, v, W), w, v, W)
         /\ W # w[1] => K!Knaspack(w, v, W)[1][W] = K!BestPack(w, v, W)
<1>0. PICK n \in Nat \ {0} : n = Len(w)
  OBVIOUS
<1>1. PICK U : U = K!Rows(w, v, W)
  OBVIOUS
<1>2. /\ U \in [1 .. n + 1 -> [0 .. W -> Nat]]
      /\ \A j \in 0 .. W : U[n + 1][j] = 0
      /\ \A k \in 1 .. n : OneMoreItem(U[k], U[k + 1], w, v, k, W)
  <2>1. RowByRow(U, w, v, W)
    BY <1>1, RowsStep
  <2> QED BY <1>0, <2>1 DEF RowByRow
<1>3. /\ w \in Seq(Nat) /\ \A k \in 1 .. n : w[k] \in Nat /\ w[k] > 0 /\ v[k] \in Nat
      /\ 1 \in 1 .. n /\ 1 \in 1 .. n + 1 /\ 2 \in 1 .. n + 1 /\ W \in 0 .. W /\ 1 + 1 = 2
  BY <1>0
<1>4. PICK x : x = IF W > w[1] THEN K!Larger(U[2][W], U[2][W - w[1]] + v[1]) ELSE U[2][W]
  OBVIOUS
<1>5. PICK V : V = K!Knaspack(w, v, W)
  OBVIOUS
<1>6. V = [U EXCEPT ![1][W] = x]
  BY <1>1, <1>4, <1>5 DEF K!Knaspack, K!KnaspackIf
<1>7. V[1][W] = x /\ \A k \in 2 .. n + 1 : V[k] = U[k]
  <2>1. U[1] \in [0 .. W -> Nat]
    BY <1>2, <1>3
  <2> QED BY <1>2, <1>3, <1>6, <2>1
<1>8. \A j \in 0 .. W : V[n + 1][j] = 0
  BY <1>2, <1>7
<1>9. x \in Nat
  <2>1. U[2][W] \in Nat
    BY <1>2, <1>3
  <2>2. CASE W > w[1]
    <3>1. W - w[1] \in 0 .. W
      BY <1>3, <2>2
    <3>2. U[2][W - w[1]] \in Nat /\ v[1] \in Nat
      BY <1>2, <1>3, <3>1
    <3> QED BY <1>4, <2>1, <2>2, <3>2 DEF K!Larger
  <2> QED BY <1>4, <2>1, <2>2
<1>10. ASSUME NEW k \in 1 .. n + 1, NEW c \in 0 .. W PROVE V[k][c] \in Nat
  <2>1. CASE k = 1
    <3>1. U[1] \in [0 .. W -> Nat] /\ V[1] = [U[1] EXCEPT ![W] = x]
      BY <1>2, <1>3, <1>6
    <3> QED BY <1>9, <2>1, <3>1
  <2>2. CASE k # 1
    <3>1. k \in 2 .. n + 1
      BY <2>2
    <3> QED BY <1>2, <1>7, <3>1
  <2> QED BY <2>1, <2>2
<1>11. ASSUME NEW k \in 1 .. n, NEW c \in 0 .. W, k = 1 => c = W, V[k][c] # V[k + 1][c]
       PROVE  w[k] <= c /\ V[k][c] = V[k + 1][c - w[k]] + v[k]
  <2>1. k + 1 \in 2 .. n + 1 /\ k + 1 \in 1 .. n + 1 /\ k \in 1 .. n + 1
    OBVIOUS
  <2>2. V[k + 1] = U[k + 1]
    BY <1>7, <2>1
  <2>3. w[k] \in Nat /\ v[k] \in Nat /\ U[k + 1][c] \in Nat /\ U[k] \in [0 .. W -> Nat]
    BY <1>2, <1>3, <2>1
  <2>4. CASE k = 1
    <3>1. c = W /\ V[k][c] = x /\ x # U[2][W]
      BY <1>7, <1>11, <2>2, <2>4
    <3>2. W > w[1] /\ x = K!Larger(U[2][W], U[2][W - w[1]] + v[1])
      BY <1>4, <3>1
    <3>3. x = U[2][W - w[1]] + v[1]
      BY <3>1, <3>2 DEF K!Larger
    <3> QED BY <2>2, <2>3, <2>4, <3>1, <3>2, <3>3
  <2>5. CASE k # 1
    <3>1. V[k] = U[k]
      <4>1. k \in 2 .. n + 1
        BY <2>5
      <4> QED BY <1>7, <4>1
    <3>2. U[k][c] = IF c < w[k] THEN U[k + 1][c]
                    ELSE K!Larger(U[k + 1][c], U[k + 1][c - w[k]] + v[k])
      BY <1>2 DEF OneMoreItem
    <3>3. U[k][c] # U[k + 1][c]
      BY <1>11, <2>2, <3>1
    <3>4. ~ (c < w[k])
      BY <3>2, <3>3
    <3>5. U[k][c] = U[k + 1][c - w[k]] + v[k]
      BY <3>2, <3>3, <3>4 DEF K!Larger
    <3> QED BY <2>2, <2>3, <3>1, <3>4, <3>5
  <2> QED BY <2>4, <2>5
<1>12. TableOf(V, w, v, W)
  BY <1>0, <1>8, <1>10, <1>11 DEF TableOf
<1>13. ASSUME W # w[1] PROVE V[1][W] = K!BestPack(w, v, W)
  <2>1. U[1][W] = IF W < w[1] THEN U[2][W]
                  ELSE K!Larger(U[2][W], U[2][W - w[1]] + v[1])
    BY <1>2, <1>3 DEF OneMoreItem
  <2>2. w[1] \in Nat
    BY <1>3
  <2>3. x = U[1][W]
    <3>1. CASE W > w[1]
      <4>1. ~ (W < w[1])
        BY <2>2, <3>1
      <4> QED BY <1>4, <2>1, <3>1, <4>1
    <3>2. CASE ~ (W > w[1])
      <4>1. W < w[1]
        BY <1>13, <2>2, <3>2
      <4> QED BY <1>4, <2>1, <3>2, <4>1
    <3> QED BY <3>1, <3>2
  <2>4. BestRow(U[1], w, v, 1 .. Len(w), W)
    BY <1>0, <1>1, <1>3, RowsAreBest
  <2>5. IsBest(U[1][W], w, v, 1 .. Len(w), W)
    BY <1>3, <2>4 DEF BestRow
  <2>6. U[1][W] = K!BestPack(w, v, W)
    BY <1>3, <2>5, BestIsBestPack
  <2> QED BY <1>7, <2>3, <2>6
<1> QED BY <1>5, <1>12, <1>13

\* What is chosen, and the weight that is left, with the rows up to m behind
TracedRows(r, w, V, W) ==
    r = [m \in 0 .. Len(w) - 1 |->
            IF m = 0 THEN [best |-> {}, W |-> W]
            ELSE IF V[m][r[m - 1].W] = V[m + 1][r[m - 1].W] THEN r[m - 1]
            ELSE [best |-> r[m - 1].best \cup {m}, W |-> r[m - 1].W - w[m]]]

\* There is such a walk, so the definition means it.
LEMMA TracedIs ==
  ASSUME NEW w \in Seq(Nat \ {0}), Len(w) >= 1, NEW V, NEW W \in Nat
  PROVE  TracedRows(K!Traced(w, V, W), w, V, W)
<1>0. PICK n \in Nat : n = Len(w) - 1
  OBVIOUS
<1> DEFINE T == [best : SUBSET Nat, W : Int]
           b == [best |-> {}, W |-> W]
           N2(p, m) == IF V[m][p.W] = V[m + 1][p.W] THEN p
                       ELSE [best |-> p.best \cup {m}, W |-> p.W - w[m]]
           g == [x \in T \X Nat |-> IF x[2] \in 1 .. n THEN N2(x[1], x[2]) ELSE x[1]]
<1>1. b \in T
  OBVIOUS
<1>2. ASSUME NEW p \in T, NEW m \in 1 .. n PROVE N2(p, m) \in T
  <2>1. m \in 1 .. Len(w) /\ m \in Nat
    BY <1>0
  <2>2. w[m] \in Int
    BY <2>1
  <2> QED BY <2>1, <2>2
<1> HIDE DEF N2
<1>3. g \in [T \X Nat -> T]
  <2> SUFFICES ASSUME NEW x \in T \X Nat
               PROVE  (IF x[2] \in 1 .. n THEN N2(x[1], x[2]) ELSE x[1]) \in T
    OBVIOUS
  <2>1. x[1] \in T
    OBVIOUS
  <2> HIDE DEF T
  <2> QED BY <1>2, <2>1
<1>4. ASSUME NEW p \in T, NEW m \in 1 .. n PROVE g[<<p, m>>] = N2(p, m)
  <2>1. <<p, m>> \in T \X Nat /\ <<p, m>>[1] = p /\ <<p, m>>[2] = m
    OBVIOUS
  <2> QED BY <2>1
<1> HIDE DEF g, b, T
<1>5. PICK h \in [0 .. n -> T] : GoesOn(h, b, g, n)
  BY ONLY <1>0, <1>1, <1>3, RecursionUpTo
<1>6. ASSUME NEW m \in 0 .. n PROVE h[m] = IF m = 0 THEN b ELSE N2(h[m - 1], m)
  <2>1. CASE m = 0
    BY <1>5, <2>1 DEF GoesOn
  <2>2. CASE m # 0
    <3>1. m \in 1 .. n /\ m - 1 \in 0 .. n
      BY <2>2
    <3>2. h[m - 1] \in T /\ h[m] = g[<<h[m - 1], m>>]
      BY <1>5, <3>1 DEF GoesOn
    <3> QED BY <1>4, <2>2, <3>1, <3>2
  <2> QED BY <2>1, <2>2
<1>7. TracedRows(h, w, V, W)
  <2>1. h = [m \in 0 .. n |-> IF m = 0 THEN b ELSE N2(h[m - 1], m)]
    BY <1>5, <1>6
  <2> QED BY <1>0, <2>1 DEF TracedRows, N2, b
<1>8. K!Traced(w, V, W) = CHOOSE r : TracedRows(r, w, V, W)
  BY DEF K!Traced, TracedRows
<1> QED BY <1>7, <1>8

\* The choice up to row m and what row m + 1 has for the weight left make the value.
Walked(t, c, m, V, w, v, W) ==
    /\ t \in SUBSET (1 .. m) /\ c \in 0 .. W
    /\ m = 0 => c = W
    /\ K!TotalOf(w, t) + c = W
    /\ K!TotalOf(v, t) + V[m + 1][c] = V[1][W]

\* Three numbers in another order
LEMMA AddInOrder ==
  ASSUME NEW a \in Nat, NEW x \in Nat, NEW y \in Nat
  PROVE  (a + y) + x = a + (x + y)
OBVIOUS

\* A row further, where the item is taken if the two rows differ
LEMMA WalkedStep ==
  ASSUME NEW w \in Seq(Nat), NEW v \in Seq(Nat), Len(v) = Len(w), NEW W \in Nat,
         NEW V, TableOf(V, w, v, W), NEW m \in 1 .. Len(w),
         NEW t, NEW c, Walked(t, c, m - 1, V, w, v, W)
  PROVE  IF V[m][c] = V[m + 1][c] THEN Walked(t, c, m, V, w, v, W)
                                       ELSE Walked(t \cup {m}, c - w[m], m, V, w, v, W)
<1>1. /\ t \in SUBSET (1 .. m - 1) /\ c \in 0 .. W /\ (m - 1) + 1 = m /\ (m = 1 => c = W)
      /\ K!TotalOf(w, t) + c = W /\ K!TotalOf(v, t) + V[m][c] = V[1][W]
  BY DEF Walked
<1>2. 1 .. m - 1 \subseteq 1 .. m /\ m \notin t /\ m # 0 /\ m \in 1 .. Len(v)
  BY <1>1
<1>3. CASE V[m][c] = V[m + 1][c]
  <2>1. t \in SUBSET (1 .. m)
    BY <1>1, <1>2
  <2> QED BY <1>1, <1>2, <1>3, <2>1 DEF Walked
<1>4. CASE V[m][c] # V[m + 1][c]
  <2>1. w[m] <= c /\ V[m][c] = V[m + 1][c - w[m]] + v[m]
    BY <1>1, <1>4 DEF TableOf
  <2>2. w[m] \in Nat /\ v[m] \in Nat /\ c - w[m] \in 0 .. W /\ m + 1 \in 1 .. Len(w) + 1
    <3>1. w[m] \in Nat /\ v[m] \in Nat /\ m + 1 \in 1 .. Len(w) + 1
      BY <1>2
    <3>2. c - w[m] \in 0 .. W
      <4>1. c \in 0 .. W /\ c >= w[m]
        BY <1>1, <2>1, <3>1
      <4> QED BY ONLY <3>1, <4>1, ColumnOf
    <3> QED BY <3>1, <3>2
  <2>3. V[m + 1][c - w[m]] \in Nat
    BY <2>2 DEF TableOf
  <2>4. /\ K!TotalOf(w, t \cup {m}) = K!TotalOf(w, t) + w[m]
        /\ K!TotalOf(v, t \cup {m}) = K!TotalOf(v, t) + v[m]
    BY <1>2, TotalGrows
  <2>5. K!TotalOf(w, t) \in Nat /\ K!TotalOf(v, t) \in Nat
    BY TotalIsNat
  <2>6. t \cup {m} \in SUBSET (1 .. m)
    BY <1>1, <1>2
  <2>7. K!TotalOf(w, t \cup {m}) + (c - w[m]) = W
    BY <1>1, <2>2, <2>4, <2>5
  <2>8. K!TotalOf(v, t \cup {m}) + V[m + 1][c - w[m]] = V[1][W]
    <3>1. /\ K!TotalOf(v, t) \in Nat /\ V[m + 1][c - w[m]] \in Nat /\ v[m] \in Nat
          /\ K!TotalOf(v, t) + (V[m + 1][c - w[m]] + v[m]) = V[1][W]
      BY <1>1, <2>1, <2>2, <2>3, <2>5
    <3>2. (K!TotalOf(v, t) + v[m]) + V[m + 1][c - w[m]] = V[1][W]
      BY ONLY <3>1, AddInOrder
    <3> QED BY <2>4, <3>2
  <2>9. Walked(t \cup {m}, c - w[m], m, V, w, v, W)
    BY <1>2, <2>2, <2>6, <2>7, <2>8 DEF Walked
  <2> QED BY <1>4, <2>9
<1> QED BY <1>3, <1>4

\* jichu8.cpp, for any items that weigh something and any knapsack: what is chosen fits
\* and is worth the value in the table, which is the most possible unless the first item
\* alone fills the knapsack.
THEOREM KnapsackIsRightForAll ==
  \A w \in Seq(Nat \ {0}), v \in Seq(Nat), W \in Nat :
      Len(v) = Len(w) /\ Len(w) >= 1 => K!KnapsackIsRight(w, v, W)
<1> SUFFICES ASSUME NEW w \in Seq(Nat \ {0}), NEW v \in Seq(Nat), NEW W \in Nat,
                    Len(v) = Len(w), Len(w) >= 1
             PROVE  K!KnapsackIsRight(w, v, W)
  OBVIOUS
<1>0. PICK n \in Nat \ {0} : n = Len(w)
  OBVIOUS
<1>1. PICK V : V = K!Knaspack(w, v, W)
  OBVIOUS
<1>2. w \in Seq(Nat) /\ TableOf(V, w, v, W) /\ (W # w[1] => V[1][W] = K!BestPack(w, v, W))
  BY <1>1, KnaspackIs
<1>3. PICK r : r = K!Traced(w, V, W)
  OBVIOUS
<1>4. ASSUME NEW m \in 0 .. n - 1
      PROVE  r[m] = IF m = 0 THEN [best |-> {}, W |-> W]
                    ELSE IF V[m][r[m - 1].W] = V[m + 1][r[m - 1].W] THEN r[m - 1]
                    ELSE [best |-> r[m - 1].best \cup {m}, W |-> r[m - 1].W - w[m]]
  <2>1. TracedRows(r, w, V, W)
    BY <1>3, TracedIs
  <2> QED BY <1>0, <2>1 DEF TracedRows
<1> DEFINE Q == {m \in Nat : m <= n - 1 => Walked(r[m].best, r[m].W, m, V, w, v, W)}
<1>5. 0 \in Q
  <2>1. r[0] = [best |-> {}, W |-> W]
    <3>1. 0 \in 0 .. n - 1
      OBVIOUS
    <3> HIDE DEF Q
    <3> QED BY <1>4, <3>1
  <2>2. r[0].best = {} /\ r[0].W = W
    BY <2>1
  <2>3. K!TotalOf(w, {}) = 0 /\ K!TotalOf(v, {}) = 0
    BY <1>2, TotalOfNone
  <2>4. V[1][W] \in Nat
    <3>1. 1 \in 1 .. Len(w) + 1 /\ W \in 0 .. W
      BY <1>0
    <3> HIDE DEF Q
    <3> QED BY <1>2, <3>1 DEF TableOf
  <2>5. /\ {} \in SUBSET (1 .. 0) /\ W \in 0 .. W /\ 0 + 1 = 1 /\ 0 + W = W
        /\ 0 + V[1][W] = V[1][W]
    BY <2>4
  <2>6. Walked({}, W, 0, V, w, v, W)
    BY <2>3, <2>5 DEF Walked
  <2> QED BY <2>2, <2>6
<1>6. ASSUME NEW m \in Q PROVE m + 1 \in Q
  <2> SUFFICES ASSUME m + 1 <= n - 1
               PROVE  Walked(r[m + 1].best, r[m + 1].W, m + 1, V, w, v, W)
    OBVIOUS
  <2>1. m + 1 \in 1 .. Len(w) /\ m + 1 \in 0 .. n - 1 /\ m + 1 # 0 /\ (m + 1) - 1 = m /\ m <= n - 1
    BY <1>0
  <2>2. Walked(r[m].best, r[m].W, m, V, w, v, W)
    BY <2>1
  <2>3. PICK t : t = r[m].best
    OBVIOUS
  <2>4. PICK c : c = r[m].W
    OBVIOUS
  <2>5. r[m + 1] = IF V[m + 1][c] = V[m + 1 + 1][c] THEN r[m]
                   ELSE [best |-> t \cup {m + 1}, W |-> c - w[m + 1]]
    BY <1>4, <2>1, <2>3, <2>4
  <2>6. IF V[m + 1][c] = V[m + 1 + 1][c]
        THEN Walked(t, c, m + 1, V, w, v, W)
        ELSE Walked(t \cup {m + 1}, c - w[m + 1], m + 1, V, w, v, W)
    <3>1. Walked(t, c, (m + 1) - 1, V, w, v, W)
      BY <2>1, <2>2, <2>3, <2>4
    <3> QED BY <1>2, <2>1, <3>1, WalkedStep
  <2> HIDE DEF Q
  <2> QED BY <2>3, <2>4, <2>5, <2>6
<1>7. Q = Nat
  <2>1. Q \in SUBSET Nat
    OBVIOUS
  <2> HIDE DEF Q
  <2> QED BY <1>5, <1>6, <2>1, Induct
<1>8. PICK t : t = r[n - 1].best
  OBVIOUS
<1>9. PICK c : c = r[n - 1].W
  OBVIOUS
<1>10. Walked(t, c, n - 1, V, w, v, W)
  <2>1. n - 1 \in Nat /\ n - 1 <= n - 1
    OBVIOUS
  <2>2. Walked(r[n - 1].best, r[n - 1].W, n - 1, V, w, v, W)
    <3>1. n - 1 \in Q
      <4> HIDE DEF Q
      <4> QED BY <1>7, <2>1
    <3> QED BY <2>1, <3>1
  <2> QED BY <1>8, <1>9, <2>2
<1>11. PICK best : best = IF V[n][c] # 0 THEN t \cup {n} ELSE t
  OBVIOUS
<1>12. K!Traceback(w, V, W) = best
  BY <1>0, <1>3, <1>8, <1>9, <1>11 DEF K!Traceback
<1>13. \E d \in 0 .. W : Walked(best, d, n, V, w, v, W) /\ V[n + 1][d] = 0
  <2>1. c \in 0 .. W /\ V[n + 1][c] = 0
    BY <1>0, <1>2, <1>10 DEF Walked, TableOf
  <2>2. IF V[n][c] = V[n + 1][c] THEN Walked(t, c, n, V, w, v, W)
        ELSE Walked(t \cup {n}, c - w[n], n, V, w, v, W)
    <3>1. n \in 1 .. Len(w)
      BY <1>0
    <3> HIDE DEF Q
    <3> QED BY <1>2, <1>10, <3>1, WalkedStep
  <2>3. CASE V[n][c] = 0
    BY <1>11, <2>1, <2>2, <2>3
  <2>4. CASE V[n][c] # 0
    <3>1. Walked(best, c - w[n], n, V, w, v, W)
      BY <1>11, <2>1, <2>2, <2>4
    <3>2. c - w[n] \in 0 .. W
      BY <3>1 DEF Walked
    <3> QED BY <1>0, <1>2, <3>1, <3>2 DEF TableOf
  <2> QED BY <2>3, <2>4
<1>14. K!TotalOf(w, best) <= W /\ K!TotalOf(v, best) = V[1][W]
  <2>1. PICK d \in 0 .. W : Walked(best, d, n, V, w, v, W) /\ V[n + 1][d] = 0
    BY <1>13
  <2>2. K!TotalOf(w, best) \in Nat /\ K!TotalOf(v, best) \in Nat
    BY <1>2, TotalIsNat
  <2> QED BY <2>1, <2>2 DEF Walked
<1> QED BY <1>1, <1>2, <1>12, <1>14 DEF K!KnapsackIsRight

-----------------------------------------------------------------------------
(* leetcode/Stolen.cpp                                                     *)

\* No two neighbours
Apart(t) == \A k \in t : k + 1 \notin t

\* b is the most that houses of m .. n bring if no two are neighbours.
IsLoot(b, nums, m) ==
    /\ \E t \in SUBSET (m .. Len(nums)) : Apart(t) /\ K!TotalOf(nums, t) = b
    /\ \A t \in SUBSET (m .. Len(nums)) : Apart(t) => K!TotalOf(nums, t) <= b

\* The most of no houses
LEMMA LootNone ==
  ASSUME NEW nums \in Seq(Nat), NEW m \in Nat, m > Len(nums)
  PROVE  IsLoot(0, nums, m)
<1>1. m .. Len(nums) = {}
  OBVIOUS
<1>2. K!TotalOf(nums, {}) = 0 /\ Apart({})
  BY TotalOfNone DEF Apart
<1>3. {} \in SUBSET (m .. Len(nums)) /\ \A t \in SUBSET (m .. Len(nums)) : t = {}
  BY <1>1
<1>4. ASSUME NEW t \in SUBSET (m .. Len(nums)) PROVE K!TotalOf(nums, t) <= 0
  <2>1. t = {}
    BY <1>3
  <2>2. K!TotalOf(nums, t) = 0
    BY <1>2, <2>1
  <2> QED BY <2>2
<1> QED BY <1>2, <1>3, <1>4 DEF IsLoot

\* House m is left, or taken and the next one left.
LEMMA LootStep ==
  ASSUME NEW nums \in Seq(Nat), NEW m \in 1 .. Len(nums), NEW b1, NEW b2,
         IsLoot(b1, nums, m + 1), IsLoot(b2, nums, m + 2)
  PROVE  b1 \in Nat /\ b2 \in Nat /\ IsLoot(K!Larger(b2 + nums[m], b1), nums, m)
<1>1. PICK n \in Nat : n = Len(nums)
  OBVIOUS
<1>2. PICK t1 \in SUBSET (m + 1 .. n) : Apart(t1) /\ K!TotalOf(nums, t1) = b1
  BY <1>1 DEF IsLoot
<1>3. PICK t2 \in SUBSET (m + 2 .. n) : Apart(t2) /\ K!TotalOf(nums, t2) = b2
  BY <1>1 DEF IsLoot
<1>4. /\ \A t \in SUBSET (m + 1 .. n) : Apart(t) => K!TotalOf(nums, t) <= b1
      /\ \A t \in SUBSET (m + 2 .. n) : Apart(t) => K!TotalOf(nums, t) <= b2
  BY <1>1 DEF IsLoot
<1>5. \A t : K!TotalOf(nums, t) \in Nat
  BY TotalIsNat
<1>6. b1 \in Nat /\ b2 \in Nat /\ nums[m] \in Nat
  BY <1>2, <1>3, <1>5
<1>7. PICK b : b = K!Larger(b2 + nums[m], b1)
  OBVIOUS
<1>8. b \in Nat /\ b1 <= b /\ b2 + nums[m] <= b /\ (b = b1 \/ b = b2 + nums[m])
  BY <1>6, <1>7 DEF K!Larger
<1>9. \E t \in SUBSET (m .. n) : Apart(t) /\ K!TotalOf(nums, t) = b
  <2>1. CASE b = b1
    <3>1. t1 \in SUBSET (m .. n)
      <4>1. m + 1 .. n \subseteq m .. n
        OBVIOUS
      <4> QED BY <4>1
    <3> QED BY <1>2, <2>1, <3>1
  <2>2. CASE b = b2 + nums[m]
    <3>1. m \notin t2 /\ t2 \cup {m} \in SUBSET (m .. n)
      <4>1. m + 2 .. n \subseteq m .. n /\ m \notin m + 2 .. n /\ m \in m .. n
        BY <1>1
      <4> QED BY <4>1
    <3>2. K!TotalOf(nums, t2 \cup {m}) = b
      BY <1>3, <2>2, <3>1, TotalGrows
    <3>3. Apart(t2 \cup {m})
      <4> SUFFICES ASSUME NEW k \in t2 \cup {m}, k + 1 \in t2 \cup {m} PROVE FALSE
        BY DEF Apart
      <4>1. t2 \subseteq Int /\ \A x \in t2 : x >= m + 2
        OBVIOUS
      <4>2. CASE k = m
        BY <4>1, <4>2
      <4>3. CASE k \in t2
        <5>1. k + 1 # m
          BY <4>1, <4>3
        <5> QED BY <1>3, <4>3, <5>1 DEF Apart
      <4> QED BY <4>2, <4>3
    <3> QED BY <3>1, <3>2, <3>3
  <2> QED BY <1>8, <2>1, <2>2
<1>10. ASSUME NEW t \in SUBSET (m .. n), Apart(t) PROVE K!TotalOf(nums, t) <= b
  <2>1. CASE m \in t
    <3> DEFINE u == t \ {m}
    <3>1. u \cup {m} = t /\ m \notin u
      BY <2>1
    <3>2. u \in SUBSET (m + 2 .. n)
      <4> SUFFICES ASSUME NEW k \in u PROVE k \in m + 2 .. n
        OBVIOUS
      <4>1. k \in m .. n /\ k # m /\ k # m + 1
        BY <1>10, <2>1 DEF Apart
      <4> QED BY <4>1
    <3>3. Apart(u)
      BY <1>10 DEF Apart
    <3> HIDE DEF u
    <3>4. K!TotalOf(nums, t) = K!TotalOf(nums, u) + nums[m]
      BY <3>1, TotalGrows
    <3>5. K!TotalOf(nums, u) <= b2 /\ K!TotalOf(nums, u) \in Nat
      BY <1>4, <1>5, <3>2, <3>3
    <3> QED BY <1>6, <1>8, <3>4, <3>5
  <2>2. CASE m \notin t
    <3>1. t \in SUBSET (m + 1 .. n)
      <4> SUFFICES ASSUME NEW k \in t PROVE k \in m + 1 .. n
        OBVIOUS
      <4>1. k \in m .. n /\ k # m
        BY <2>2
      <4> QED BY <4>1
    <3>2. K!TotalOf(nums, t) <= b1 /\ K!TotalOf(nums, t) \in Nat
      BY <1>4, <1>5, <1>10, <3>1
    <3> QED BY <1>6, <1>8, <3>2
  <2> QED BY <2>1, <2>2
<1> QED BY <1>1, <1>6, <1>7, <1>9, <1>10 DEF IsLoot

\* The table from the last house on
RobbedRows(dp, nums) ==
    dp = [m \in 1 .. Len(nums) |->
            IF m = Len(nums) THEN nums[Len(nums)]
            ELSE IF m = Len(nums) - 1 THEN K!Larger(nums[Len(nums)], nums[Len(nums) - 1])
            ELSE K!Larger(dp[m + 2] + nums[m], dp[m + 1])]

\* There is such a table, so the definition means it.
LEMMA RobbedIs ==
  ASSUME NEW nums \in Seq(Nat), Len(nums) >= 1
  PROVE  RobbedRows(K!Robbed(nums), nums)
<1>0. PICK n \in Nat \ {0} : n = Len(nums)
  OBVIOUS
<1>1. \A k \in 1 .. n : nums[k] \in Nat
  BY <1>0
<1> DEFINE T == Nat \X Nat
           b == <<nums[n], 0>>
           G(p, k) == IF k = n - 1 THEN K!Larger(nums[n], nums[n - 1])
                      ELSE K!Larger(p[2] + nums[k], p[1])
           g == [x \in T \X Nat |-> IF x[2] \in 1 .. n - 1 THEN <<G(x[1], n - x[2]), x[1][1]>>
                                    ELSE x[1]]
<1>2. b \in T
  BY <1>1
<1>3. ASSUME NEW p \in T, NEW k \in 1 .. n - 1 PROVE G(p, k) \in Nat
  <2>1. n \in 1 .. n /\ n - 1 \in 1 .. n /\ k \in 1 .. n
    OBVIOUS
  <2>2. nums[n] \in Nat /\ nums[n - 1] \in Nat /\ nums[k] \in Nat
    BY <1>1, <2>1
  <2>3. p[1] \in Nat /\ p[2] \in Nat
    OBVIOUS
  <2>4. p[2] + nums[k] \in Nat
    BY ONLY <2>2, <2>3, AddNat
  <2>5. K!Larger(nums[n], nums[n - 1]) \in Nat /\ K!Larger(p[2] + nums[k], p[1]) \in Nat
    BY ONLY <2>2, <2>3, <2>4, LargerOf
  <2> QED BY <2>5
<1> HIDE DEF G
<1>4. g \in [T \X Nat -> T]
  <2> SUFFICES ASSUME NEW x \in T \X Nat
               PROVE  (IF x[2] \in 1 .. n - 1 THEN <<G(x[1], n - x[2]), x[1][1]>> ELSE x[1]) \in T
    OBVIOUS
  <2>1. x[1] \in T /\ x[1][1] \in Nat
    OBVIOUS
  <2>2. CASE x[2] \in 1 .. n - 1
    <3>1. n - x[2] \in 1 .. n - 1
      BY <2>2
    <3>2. G(x[1], n - x[2]) \in Nat
      BY <1>3, <2>1, <3>1
    <3> QED BY <2>1, <2>2, <3>2
  <2> QED BY <2>1, <2>2
<1>5. ASSUME NEW p \in T, NEW m \in 1 .. n - 1 PROVE g[<<p, m>>] = <<G(p, n - m), p[1]>>
  <2>1. <<p, m>> \in T \X Nat /\ <<p, m>>[1] = p /\ <<p, m>>[2] = m
    OBVIOUS
  <2> QED BY <2>1
<1> HIDE DEF g, b, T
<1>6. PICK h \in [0 .. n - 1 -> T] : GoesOn(h, b, g, n - 1)
  <2>1. n - 1 \in Nat
    OBVIOUS
  <2> QED BY ONLY <2>1, <1>2, <1>4, RecursionUpTo
<1> DEFINE dp == [m \in 1 .. n |-> h[n - m][1]]
<1>7. ASSUME NEW m \in 1 .. n - 1 PROVE h[m] = <<G(h[m - 1], n - m), h[m - 1][1]>>
  <2>1. m - 1 \in 0 .. n - 1
    OBVIOUS
  <2>2. h[m - 1] \in T /\ h[m] = g[<<h[m - 1], m>>]
    BY <1>6, <2>1 DEF GoesOn
  <2> QED BY <1>5, <2>2
<1>8. h[0] = <<nums[n], 0>>
  BY <1>6 DEF GoesOn, b
<1>9. ASSUME NEW m \in 1 .. n
      PROVE  dp[m] = IF m = n THEN nums[n]
                     ELSE IF m = n - 1 THEN K!Larger(nums[n], nums[n - 1])
                     ELSE K!Larger(dp[m + 2] + nums[m], dp[m + 1])
  <2>1. CASE m = n
    <3>1. dp[m] = h[0][1]
      BY <2>1
    <3> QED BY <1>8, <2>1, <3>1
  <2>2. CASE m = n - 1
    <3>1. n - m = 1 /\ 1 \in 1 .. n - 1 /\ n - 1 = m /\ m # n
      BY <2>2
    <3>2. dp[m] = h[1][1]
      BY <3>1
    <3>3. h[1] = <<G(h[1 - 1], n - 1), h[1 - 1][1]>>
      BY <1>7, <3>1
    <3>4. dp[m] = G(h[1 - 1], n - 1)
      BY <3>2, <3>3
    <3> QED BY <3>1, <3>4 DEF G
  <2>3. CASE m # n /\ m # n - 1
    <3> DEFINE k == n - m
    <3>1. /\ k \in 1 .. n - 1 /\ k - 1 \in 1 .. n - 1 /\ n - k = m /\ k - 1 = n - (m + 1)
          /\ k - 1 - 1 = n - (m + 2) /\ m + 1 \in 1 .. n /\ m + 2 \in 1 .. n
      BY <2>3
    <3>2. dp[m] = h[k][1] /\ dp[m + 1] = h[k - 1][1] /\ dp[m + 2] = h[k - 1 - 1][1]
      BY <3>1
    <3> HIDE DEF k, dp
    <3>3. h[k] = <<G(h[k - 1], n - k), h[k - 1][1]>>
      BY <1>7, <3>1
    <3>4. h[k - 1] = <<G(h[k - 1 - 1], n - (k - 1)), h[k - 1 - 1][1]>>
      BY <1>7, <3>1
    <3>5. h[k - 1][2] = dp[m + 2]
      BY <3>2, <3>4
    <3>6. dp[m] = G(h[k - 1], m)
      BY <3>1, <3>2, <3>3
    <3> QED BY <2>3, <3>2, <3>5, <3>6 DEF G
  <2> QED BY <2>1, <2>2, <2>3
<1>10. RobbedRows(dp, nums)
  <2>1. dp = [m \in 1 .. n |-> dp[m]]
    OBVIOUS
  <2> HIDE DEF dp
  <2> QED BY <1>0, <1>9, <2>1 DEF RobbedRows
<1> HIDE DEF dp
<1>11. K!Robbed(nums) = CHOOSE d : RobbedRows(d, nums)
  BY DEF K!Robbed, RobbedRows
<1> QED BY <1>10, <1>11

\* leetcode/Stolen.cpp computes the most that houses bring of which no two are neighbours,
\* for any street.
THEOREM LootIsBestForAll == \A nums \in Seq(Nat) : K!LootIsBest(nums)
<1> SUFFICES ASSUME NEW nums \in Seq(Nat) PROVE K!LootIsBest(nums)
  OBVIOUS
<1>0. PICK n \in Nat : n = Len(nums)
  OBVIOUS
<1>1. PICK dp : dp = K!Robbed(nums)
  OBVIOUS
<1>2. PICK e : e = [k \in 1 .. n + 2 |-> IF k > n THEN 0 ELSE dp[k]]
  OBVIOUS
<1>3. ASSUME NEW k \in 1 .. n
      PROVE  e[k] = IF k = n THEN nums[n]
                    ELSE IF k = n - 1 THEN K!Larger(nums[n], nums[n - 1])
                    ELSE K!Larger(e[k + 2] + nums[k], e[k + 1])
  <2>1. RobbedRows(dp, nums)
    BY <1>0, <1>1, RobbedIs
  <2>2. dp[k] = IF k = n THEN nums[n]
                ELSE IF k = n - 1 THEN K!Larger(nums[n], nums[n - 1])
                ELSE K!Larger(dp[k + 2] + nums[k], dp[k + 1])
    BY <1>0, <2>1 DEF RobbedRows
  <2>3. e[k] = dp[k]
    BY <1>2
  <2>4. CASE k # n /\ k # n - 1
    <3>1. k + 1 \in 1 .. n /\ k + 2 \in 1 .. n
      BY <2>4
    <3>2. e[k + 1] = dp[k + 1] /\ e[k + 2] = dp[k + 2]
      BY <1>2, <3>1
    <3> QED BY <2>2, <2>3, <2>4, <3>2
  <2> QED BY <2>2, <2>3, <2>4
<1>4. e[n + 1] = 0 /\ e[n + 2] = 0
  BY <1>2
<1> DEFINE Q == {m \in Nat : m <= n => /\ IsLoot(e[n + 1 - m], nums, n + 1 - m)
                                       /\ IsLoot(e[n + 2 - m], nums, n + 2 - m)}
<1>5. 0 \in Q
  <2>1. IsLoot(0, nums, n + 1) /\ IsLoot(0, nums, n + 2)
    BY <1>0, LootNone
  <2>2. n + 1 - 0 = n + 1 /\ n + 2 - 0 = n + 2
    OBVIOUS
  <2> QED BY <1>4, <2>1, <2>2
<1>6. ASSUME NEW m \in Q PROVE m + 1 \in Q
  <2> SUFFICES ASSUME m + 1 <= n
               PROVE  /\ IsLoot(e[n + 1 - (m + 1)], nums, n + 1 - (m + 1))
                      /\ IsLoot(e[n + 2 - (m + 1)], nums, n + 2 - (m + 1))
    OBVIOUS
  <2> DEFINE k == n + 1 - (m + 1)
  <2>1. /\ k \in 1 .. n /\ k \in 1 .. Len(nums) /\ k + 1 = n + 1 - m /\ k + 2 = n + 2 - m
        /\ k + 1 = n + 2 - (m + 1) /\ m <= n
    BY <1>0
  <2>2. IsLoot(e[k + 1], nums, k + 1) /\ IsLoot(e[k + 2], nums, k + 2)
    BY <2>1
  <2> HIDE DEF k
  <2>3. /\ e[k + 1] \in Nat /\ e[k + 2] \in Nat
        /\ IsLoot(K!Larger(e[k + 2] + nums[k], e[k + 1]), nums, k)
    BY <2>1, <2>2, LootStep
  <2>4. e[k] = K!Larger(e[k + 2] + nums[k], e[k + 1])
    <3>1. \A l \in 1 .. n : nums[l] \in Nat
      BY <1>0
    <3>2. CASE k = n
      <4>1. e[k + 1] = 0 /\ e[k + 2] = 0 /\ nums[k] \in Nat
        BY <1>4, <2>1, <3>1, <3>2
      <4>2. e[k] = nums[k]
        BY <1>3, <2>1, <3>2
      <4> QED BY <4>1, <4>2 DEF K!Larger
    <3>3. CASE k = n - 1
      <4>1. n \in 1 .. n /\ k # n /\ k + 1 = n /\ k + 2 = n + 1
        BY <2>1, <3>3
      <4>2. e[k + 1] = nums[n] /\ e[k + 2] = 0 /\ nums[n] \in Nat /\ nums[k] \in Nat
        BY <1>3, <1>4, <2>1, <3>1, <4>1
      <4>3. e[k] = K!Larger(nums[n], nums[k])
        BY <1>3, <2>1, <3>3, <4>1
      <4> QED BY <4>2, <4>3 DEF K!Larger
    <3>4. CASE k # n /\ k # n - 1
      BY <1>3, <2>1, <3>4
    <3> QED BY <3>2, <3>3, <3>4
  <2>5. IsLoot(e[k], nums, k)
    BY <2>3, <2>4
  <2> QED BY <2>1, <2>2, <2>5 DEF k
<1>7. Q = Nat
  <2>1. Q \in SUBSET Nat
    OBVIOUS
  <2> HIDE DEF Q
  <2> QED BY <1>5, <1>6, <2>1, Induct
<1>8. IsLoot(e[1], nums, 1)
  <2>1. n \in Q
    BY <1>7
  <2>2. IsLoot(e[n + 1 - n], nums, n + 1 - n)
    BY <2>1
  <2>3. n + 1 - n = 1
    OBVIOUS
  <2> QED BY <2>2, <2>3
<1>9. e[1] = K!rob(nums)
  <2>1. CASE n = 0
    BY <1>0, <1>4, <2>1 DEF K!rob
  <2>2. CASE n # 0
    BY <1>0, <1>1, <1>2, <2>2 DEF K!rob
  <2> QED BY <2>1, <2>2
<1> DEFINE T == {K!TotalOf(nums, t) : t \in {u \in SUBSET DOMAIN nums : \A k \in u : k + 1 \notin u}}
<1>10. DOMAIN nums = 1 .. Len(nums)
  OBVIOUS
<1>11. e[1] \in T /\ \A x \in T : x <= e[1]
  BY <1>8, <1>10 DEF IsLoot, Apart
<1>12. T \in SUBSET Int
  BY TotalIsNat
<1> HIDE DEF T
<1>13. K!Max(T) = e[1]
  BY <1>11, <1>12, LargestIs
<1> QED BY <1>9, <1>13 DEF T, K!LootIsBest
=============================================================================
