---------------------------- MODULE RequestProofs ----------------------------
(***************************************************************************)
(* Proofs about what becomes of a request in the driver (Dwq), whatever    *)
(* the programs do: its transaction is a node of one list at most          *)
(* (OneHolder), no reader misses its wake-up (NoMissedWakeUp), and the     *)
(* driver implements RpcService (RpcSpec).                                 *)
(***************************************************************************)
EXTENDS DwqProofs, FiniteSetTheorems

-----------------------------------------------------------------------------
(* Lists without duplicates.                                               *)

NoDup(s) == \A i, j \in 1 .. Len(s) : s[i] = s[j] => i = j

\* list_add_tail of an element that is not in the list.
LEMMA AppendElements ==
  ASSUME NEW S, NEW s \in Seq(S), NEW x \in S
  PROVE  /\ Elements(Append(s, x)) = Elements(s) \cup {x}
         /\ NoDup(s) /\ x \notin Elements(s) => NoDup(Append(s, x))
<1> DEFINE s2 == Append(s, x)
<1>1. /\ Len(s) \in Nat /\ Len(s2) = Len(s) + 1
      /\ \A i \in 1 .. Len(s) : s2[i] = s[i]
      /\ s2[Len(s) + 1] = x
  BY LenProperties, AppendProperties
<1> HIDE DEF s2
<1>2. Elements(s2) = Elements(s) \cup {x}
  <2>1. ASSUME NEW y \in Elements(s2) PROVE y \in Elements(s) \cup {x}
    BY <1>1, <2>1 DEF Elements
  <2>2. ASSUME NEW y \in Elements(s) PROVE y \in Elements(s2)
    <3>1. PICK i \in 1 .. Len(s) : y = s[i]
      BY <2>2 DEF Elements
    <3>2. i \in 1 .. Len(s2) /\ s2[i] = y
      BY <1>1, <3>1
    <3> QED BY <3>2 DEF Elements
  <2>3. x \in Elements(s2)
    <3>1. Len(s2) \in 1 .. Len(s2) /\ s2[Len(s2)] = x
      BY <1>1
    <3> QED BY <3>1 DEF Elements
  <2> QED BY <2>1, <2>2, <2>3
<1>3. ASSUME NoDup(s), x \notin Elements(s) PROVE NoDup(s2)
  <2>1. \A i \in 1 .. Len(s) : s[i] # x
    BY <1>3 DEF Elements
  <2> QED BY <1>1, <1>3, <2>1 DEF NoDup
<1> QED BY <1>2, <1>3 DEF s2

\* list_del of the first element.
LEMMA TailElements ==
  ASSUME NEW S, NEW s \in Seq(S), s # <<>>, NoDup(s)
  PROVE  /\ Elements(Tail(s)) = Elements(s) \ {Head(s)}
         /\ Head(s) \in Elements(s)
         /\ NoDup(Tail(s))
<1> DEFINE s2 == Tail(s)
<1>1. /\ Len(s) \in Nat \ {0} /\ Len(s2) = Len(s) - 1
      /\ \A i \in 1 .. Len(s2) : s2[i] = s[i + 1]
      /\ Head(s) = s[1]
  BY EmptySeq, HeadTailProperties
<1> HIDE DEF s2
<1>2. ASSUME NEW y \in Elements(s2) PROVE y \in Elements(s) /\ y # Head(s)
  <2>1. PICK i \in 1 .. Len(s2) : y = s2[i]
    BY <1>2 DEF Elements
  <2>2. i + 1 \in 1 .. Len(s) /\ y = s[i + 1] /\ 1 \in 1 .. Len(s) /\ i + 1 # 1
    BY <1>1, <2>1
  <2> QED BY <1>1, <2>2 DEF Elements, NoDup
<1>3. ASSUME NEW y \in Elements(s), y # Head(s) PROVE y \in Elements(s2)
  <2>1. PICK i \in 1 .. Len(s) : y = s[i]
    BY <1>3 DEF Elements
  <2>2. i - 1 \in 1 .. Len(s2) /\ s2[i - 1] = y
    BY <1>1, <1>3, <2>1
  <2> QED BY <2>2 DEF Elements
<1>4. Head(s) \in Elements(s)
  BY <1>1 DEF Elements
<1>5. NoDup(s2)
  <2> SUFFICES ASSUME NEW i \in 1 .. Len(s2), NEW j \in 1 .. Len(s2), s2[i] = s2[j]
               PROVE  i = j
    BY DEF NoDup
  <2>1. /\ i + 1 \in 1 .. Len(s) /\ j + 1 \in 1 .. Len(s)
        /\ s[i + 1] = s[j + 1]
    BY <1>1
  <2>2. i + 1 = j + 1
    BY <2>1 DEF NoDup
  <2> QED BY <2>2
<1> QED BY <1>2, <1>3, <1>4, <1>5 DEF s2

\* list_del of the element at position i.
LEMMA DelElements ==
  ASSUME NEW S, NEW s \in Seq(S), NEW i \in 1 .. Len(s), NoDup(s)
  PROVE  LET r == SubSeq(s, 1, i - 1) \o SubSeq(s, i + 1, Len(s))
         IN  Elements(r) = Elements(s) \ {s[i]} /\ NoDup(r)
<1> DEFINE n  == Len(s)
           s1 == SubSeq(s, 1, i - 1)
           s2 == SubSeq(s, i + 1, n)
           r  == s1 \o s2
<1>1. n \in Nat /\ \A j \in 1 .. n : s[j] \in S
  BY LenProperties, ElementOfSeq
<1>2. /\ s1 \in Seq(S) /\ Len(s1) = i - 1
      /\ \A j \in 1 .. i - 1 : s1[j] = s[j]
  BY <1>1, SubSeqProperties
<1>3. /\ s2 \in Seq(S) /\ Len(s2) = n - i
      /\ \A j \in 1 .. n - i : s2[j] = s[i + j]
  BY <1>1, SubSeqProperties
<1> HIDE DEF s1, s2
<1>4. /\ Len(r) = n - 1
      /\ \A j \in 1 .. n - 1 : r[j] = IF j <= i - 1 THEN s1[j] ELSE s2[j - (i - 1)]
  <2>1. /\ Len(r) = Len(s1) + Len(s2)
        /\ \A j \in 1 .. Len(s1) + Len(s2) :
              r[j] = IF j <= Len(s1) THEN s1[j] ELSE s2[j - Len(s1)]
    BY <1>2, <1>3, ConcatProperties
  <2>2. Len(s1) + Len(s2) = n - 1
    BY <1>1, <1>2, <1>3
  <2> QED BY <1>2, <2>1, <2>2
<1> HIDE DEF r, n
<1>5. \A j \in 1 .. n - 1 : r[j] = IF j < i THEN s[j] ELSE s[j + 1]
  <2> SUFFICES ASSUME NEW j \in 1 .. n - 1
               PROVE  r[j] = IF j < i THEN s[j] ELSE s[j + 1]
    OBVIOUS
  <2>1. CASE j < i
    BY <1>1, <1>2, <1>4, <2>1 DEF n
  <2>2. CASE ~(j < i)
    <3>1. j - (i - 1) \in 1 .. n - i /\ i + (j - (i - 1)) = j + 1
      BY <1>1, <2>2 DEF n
    <3> QED BY <1>1, <1>3, <1>4, <2>2, <3>1 DEF n
  <2> QED BY <2>1, <2>2
<1>6. ASSUME NEW y \in Elements(r) PROVE y \in Elements(s) /\ y # s[i]
  <2>1. PICK j \in 1 .. n - 1 : y = r[j]
    BY <1>4, <1>6 DEF Elements
  <2>2. \E k \in 1 .. n : k # i /\ y = s[k]
    BY <1>1, <1>5, <2>1 DEF n
  <2> QED BY <1>1, <2>2 DEF Elements, NoDup, n
<1>7. ASSUME NEW y \in Elements(s), y # s[i] PROVE y \in Elements(r)
  <2>1. PICK k \in 1 .. n : y = s[k]
    BY <1>7 DEF Elements, n
  <2>2. CASE k < i
    <3>1. k \in 1 .. n - 1 /\ r[k] = y
      BY <1>1, <1>5, <2>1, <2>2 DEF n
    <3> QED BY <1>4, <3>1 DEF Elements
  <2>3. CASE k > i
    <3>1. k - 1 \in 1 .. n - 1 /\ r[k - 1] = y
      BY <1>1, <1>5, <2>1, <2>3 DEF n
    <3> QED BY <1>4, <3>1 DEF Elements
  <2> QED BY <1>1, <1>7, <2>1, <2>2, <2>3 DEF n
<1>8. NoDup(r)
  <2> SUFFICES ASSUME NEW j \in 1 .. n - 1, NEW k \in 1 .. n - 1, r[j] = r[k]
               PROVE  j = k
    BY <1>4 DEF NoDup
  <2> DEFINE j2 == IF j < i THEN j ELSE j + 1
             k2 == IF k < i THEN k ELSE k + 1
  <2>1. j2 \in 1 .. n /\ k2 \in 1 .. n /\ s[j2] = s[k2]
    BY <1>1, <1>5, SMTT(20)
  <2>2. j2 = k2
    BY <2>1 DEF NoDup, n
  <2> QED BY <1>1, <2>2
<1> QED BY <1>6, <1>7, <1>8 DEF r, s1, s2, n

-----------------------------------------------------------------------------
(* The answers in a done_list.                                             *)

AnswerKind == {"reply", "nodev"}
AnswerIn(s, k, x) == \E i \in 1 .. Len(s) : s[i].kind = k /\ s[i].tx = x
OneAnswer(s) ==
    \A i, j \in 1 .. Len(s) :
        s[i].kind # "event" /\ s[j].kind # "event" /\ s[i].tx = s[j].tx => i = j

LEMMA EntryKind ==
  ASSUME NEW e \in Entry
  PROVE  /\ e.kind = "event" \/ e.kind \in AnswerKind
         /\ e.kind # "event" => e.tx \in Tx /\ e = [kind |-> e.kind, tx |-> e.tx]
BY DEF Entry, AnswerKind

LEMMA AnsweredIn ==
  ASSUME NEW s \in Seq(Entry), NEW x \in Tx
  PROVE  /\ \A k \in AnswerKind :
              [kind |-> k, tx |-> x] \in Elements(s) <=> AnswerIn(s, k, x)
         /\ x \in Answered(Elements(s)) <=> \E k \in AnswerKind : AnswerIn(s, k, x)
<1>1. \A i \in 1 .. Len(s) : s[i] \in Entry
  BY ElementOfSeq
<1>2. ASSUME NEW k \in AnswerKind
      PROVE  [kind |-> k, tx |-> x] \in Elements(s) <=> AnswerIn(s, k, x)
  <2>1. ASSUME [kind |-> k, tx |-> x] \in Elements(s) PROVE AnswerIn(s, k, x)
    BY <2>1 DEF Elements, AnswerIn
  <2>2. ASSUME AnswerIn(s, k, x) PROVE [kind |-> k, tx |-> x] \in Elements(s)
    <3>1. PICK i \in 1 .. Len(s) : s[i].kind = k /\ s[i].tx = x
      BY <2>2 DEF AnswerIn
    <3>2. s[i] = [kind |-> k, tx |-> x]
      BY <1>1, <3>1, EntryKind DEF AnswerKind
    <3> QED BY <3>2 DEF Elements
  <2> QED BY <2>1, <2>2
<1>3. ASSUME x \in Answered(Elements(s)) PROVE \E k \in AnswerKind : AnswerIn(s, k, x)
  <2>1. PICK i \in 1 .. Len(s) : s[i].kind # "event" /\ s[i].tx = x
    BY <1>3 DEF Answered, Elements
  <2>2. s[i].kind \in AnswerKind
    BY <1>1, <2>1, EntryKind
  <2> QED BY <2>1, <2>2 DEF AnswerIn
<1>4. ASSUME NEW k \in AnswerKind, AnswerIn(s, k, x) PROVE x \in Answered(Elements(s))
  BY <1>4 DEF AnswerIn, AnswerKind, Answered, Elements
<1> QED BY <1>2, <1>3, <1>4

LEMMA AppendAnswers ==
  ASSUME NEW s \in Seq(Entry), NEW e \in Entry
  PROVE  /\ \A k \in AnswerKind, x \in Tx :
              AnswerIn(Append(s, e), k, x)
                <=> AnswerIn(s, k, x) \/ (e.kind = k /\ e.tx = x)
         /\ (/\ OneAnswer(s)
             /\ e.kind # "event" => \A k \in AnswerKind : ~AnswerIn(s, k, e.tx))
              => OneAnswer(Append(s, e))
<1> DEFINE s2 == Append(s, e)
<1>1. /\ Len(s) \in Nat /\ Len(s2) = Len(s) + 1
      /\ \A i \in 1 .. Len(s) : s2[i] = s[i] /\ s[i] \in Entry
      /\ s2[Len(s) + 1] = e
  BY LenProperties, AppendProperties, ElementOfSeq
<1> HIDE DEF s2
<1>2. ASSUME NEW k \in AnswerKind, NEW x \in Tx
      PROVE  AnswerIn(s2, k, x) <=> AnswerIn(s, k, x) \/ (e.kind = k /\ e.tx = x)
  <2>1. ASSUME AnswerIn(s, k, x) PROVE AnswerIn(s2, k, x)
    BY <1>1, <2>1 DEF AnswerIn
  <2>2. ASSUME e.kind = k, e.tx = x PROVE AnswerIn(s2, k, x)
    <3>1. Len(s2) \in 1 .. Len(s2) /\ s2[Len(s2)] = e
      BY <1>1
    <3> QED BY <2>2, <3>1 DEF AnswerIn
  <2>3. ASSUME AnswerIn(s2, k, x), ~(e.kind = k /\ e.tx = x) PROVE AnswerIn(s, k, x)
    BY <1>1, <2>3 DEF AnswerIn
  <2> QED BY <2>1, <2>2, <2>3
<1>3. ASSUME OneAnswer(s), e.kind # "event" => \A k \in AnswerKind : ~AnswerIn(s, k, e.tx)
      PROVE  OneAnswer(s2)
  <2>1. \A i \in 1 .. Len(s) : s[i].kind # "event" /\ e.kind # "event" => s[i].tx # e.tx
    BY <1>1, <1>3, EntryKind DEF AnswerIn
  <2> QED BY <1>1, <1>3, <2>1 DEF OneAnswer
<1> QED BY <1>2, <1>3 DEF s2

LEMMA TailAnswers ==
  ASSUME NEW s \in Seq(Entry), s # <<>>, OneAnswer(s)
  PROVE  /\ \A k \in AnswerKind, x \in Tx :
              AnswerIn(Tail(s), k, x)
                <=> AnswerIn(s, k, x) /\ ~(Head(s).kind # "event" /\ Head(s).tx = x)
         /\ \A x \in Tx : Head(s).kind # "event" /\ Head(s).tx = x
                            => AnswerIn(s, Head(s).kind, x)
         /\ Head(s) \in Entry
         /\ OneAnswer(Tail(s))
<1> DEFINE s2 == Tail(s)
<1>1. /\ Len(s) \in Nat \ {0} /\ Len(s2) = Len(s) - 1
      /\ \A i \in 1 .. Len(s2) : s2[i] = s[i + 1]
      /\ Head(s) = s[1] /\ 1 \in 1 .. Len(s)
  BY EmptySeq, HeadTailProperties
<1>2. Head(s) \in Entry
  BY HeadTailProperties
<1> HIDE DEF s2
<1>3. ASSUME NEW k \in AnswerKind, NEW x \in Tx
      PROVE  AnswerIn(s2, k, x)
               <=> AnswerIn(s, k, x) /\ ~(Head(s).kind # "event" /\ Head(s).tx = x)
  <2>1. ASSUME AnswerIn(s2, k, x)
        PROVE  AnswerIn(s, k, x) /\ ~(Head(s).kind # "event" /\ Head(s).tx = x)
    <3>1. PICK i \in 1 .. Len(s2) : s2[i].kind = k /\ s2[i].tx = x
      BY <2>1 DEF AnswerIn
    <3>2. /\ i + 1 \in 1 .. Len(s) /\ i + 1 # 1
          /\ s[i + 1].kind = k /\ s[i + 1].tx = x
      BY <1>1, <3>1
    <3>3. k # "event"
      BY DEF AnswerKind
    <3> QED BY <1>1, <3>2, <3>3 DEF AnswerIn, OneAnswer
  <2>2. ASSUME AnswerIn(s, k, x), ~(Head(s).kind # "event" /\ Head(s).tx = x)
        PROVE  AnswerIn(s2, k, x)
    <3>1. PICK i \in 1 .. Len(s) : s[i].kind = k /\ s[i].tx = x
      BY <2>2 DEF AnswerIn
    <3>2. i # 1
      BY <1>1, <2>2, <3>1 DEF AnswerKind
    <3>3. i - 1 \in 1 .. Len(s2) /\ s2[i - 1] = s[i]
      BY <1>1, <3>2
    <3> QED BY <3>1, <3>3 DEF AnswerIn
  <2> QED BY <2>1, <2>2
<1>4. ASSUME NEW x \in Tx, Head(s).kind # "event", Head(s).tx = x
      PROVE  AnswerIn(s, Head(s).kind, x)
  BY <1>1, <1>4 DEF AnswerIn
<1>5. OneAnswer(s2)
  <2> SUFFICES ASSUME NEW i \in 1 .. Len(s2), NEW j \in 1 .. Len(s2),
                      s2[i].kind # "event", s2[j].kind # "event", s2[i].tx = s2[j].tx
               PROVE  i = j
    BY DEF OneAnswer
  <2>1. /\ i + 1 \in 1 .. Len(s) /\ j + 1 \in 1 .. Len(s)
        /\ s[i + 1].kind # "event" /\ s[j + 1].kind # "event" /\ s[i + 1].tx = s[j + 1].tx
    BY <1>1
  <2>2. i + 1 = j + 1
    BY <2>1 DEF OneAnswer
  <2> QED BY <2>2
<1> QED BY <1>2, <1>3, <1>4, <1>5 DEF s2

LEMMA NoElements ==
  /\ Elements(<<>>) = {} /\ NoDup(<<>>) /\ OneAnswer(<<>>)
  /\ \A k, x : ~AnswerIn(<<>>, k, x)
<1>1. Len(<<>>) = 0
  BY EmptySeq
<1>2. 1 .. 0 = {}
  OBVIOUS
<1> QED BY <1>1, <1>2 DEF Elements, NoDup, OneAnswer, AnswerIn

-----------------------------------------------------------------------------
(* Where a request is.                                                     *)

HandKind  == {"append", "answer", "dispatch"}
ListPlace == ({"pending", "dispatched"} \cup AnswerKind) \X Ctx
Place     == ListPlace \cup (HandKind \X Thread)

Carries(r, k, x) == r.at = k /\ r.tx = x

\* A place holds request x: a list of a file, or a thread at one step of its call.
Has(p, x) ==
    \/ p[1] = "pending" /\ x \in Elements(pending[p[2]])
    \/ p[1] = "dispatched" /\ x \in Elements(dispatched[p[2]])
    \/ p[1] \in AnswerKind /\ AnswerIn(done[p[2]], p[1], x)
    \/ p[1] \in HandKind /\ Carries(call[p[2]], p[1], x)

\* A live request is in one place, any other in none.
HeldOnce ==
    \A x \in Tx :
        IF fate[x] = "live" THEN \E p \in Place : \A r \in Place : Has(r, x) <=> r = p
        ELSE \A r \in Place : ~Has(r, x)

Distinct ==
    \A c \in Ctx : NoDup(pending[c]) /\ NoDup(dispatched[c]) /\ OneAnswer(done[c])

ClosedAreEmpty ==
    \A c \in Ctx : life[c] = "closed" =>
        pending[c] = <<>> /\ dispatched[c] = <<>> /\ done[c] = <<>>

\* What has a fate was numbered by the counter of its file.
Numbered ==
    \A x \in Tx : fate[x] # "none" =>
        \/ x.gen < gen[x.caller]
        \/ x.gen = gen[x.caller] /\ x.id <= txCounter[x.caller]

RequestInv == CallsAreOpen /\ ClosedAreEmpty /\ Numbered /\ Distinct /\ HeldOnce

-----------------------------------------------------------------------------
(* How a step moves requests from place to place.                          *)

Nowhere == <<"nowhere", "nowhere">>

\* The requests X end up at place q, or nowhere, the others stay.
Moved(X, q) ==
    /\ \A r \in Place, x \in Tx : Has(r, x)' <=> IF x \in X THEN r = q ELSE Has(r, x)
    /\ \A x \in Tx : IF x \in X THEN fate'[x] = "live" <=> q \in Place
                     ELSE fate'[x] = fate[x]

\* Places of one kind, and what they hold.
LEMMA PlaceKinds ==
  /\ \A c \in Ctx : <<"pending", c>> \in Place /\ <<"dispatched", c>> \in Place
  /\ \A c \in Ctx, k \in AnswerKind : <<k, c>> \in Place
  /\ \A t \in Thread, k \in HandKind : <<k, t>> \in Place
  /\ Nowhere \notin Place
  /\ \A r \in Place :
        \/ \E c \in Ctx : r = <<"pending", c>> \/ r = <<"dispatched", c>>
        \/ \E c \in Ctx, k \in AnswerKind : r = <<k, c>>
        \/ \E t \in Thread, k \in HandKind : r = <<k, t>>
BY DEF Place, ListPlace, AnswerKind, HandKind, Nowhere

LEMMA HasKinds ==
  ASSUME NEW x
  PROVE  /\ \A c : Has(<<"pending", c>>, x) <=> x \in Elements(pending[c])
         /\ \A c : Has(<<"dispatched", c>>, x) <=> x \in Elements(dispatched[c])
         /\ \A c : \A k \in AnswerKind : Has(<<k, c>>, x) <=> AnswerIn(done[c], k, x)
         /\ \A t : \A k \in HandKind : Has(<<k, t>>, x) <=> Carries(call[t], k, x)
         /\ \A c : Has(<<"pending", c>>, x)' <=> x \in Elements(pending'[c])
         /\ \A c : Has(<<"dispatched", c>>, x)' <=> x \in Elements(dispatched'[c])
         /\ \A c : \A k \in AnswerKind : Has(<<k, c>>, x)' <=> AnswerIn(done'[c], k, x)
         /\ \A t : \A k \in HandKind : Has(<<k, t>>, x)' <=> Carries(call'[t], k, x)
BY DEF Has, AnswerKind, HandKind

LEMMA MovedHeld ==
  ASSUME HeldOnce, NEW X, NEW q, Moved(X, q)
  PROVE  HeldOnce'
<1> SUFFICES ASSUME NEW x \in Tx
             PROVE  IF fate'[x] = "live"
                    THEN \E p \in Place : \A r \in Place : Has(r, x)' <=> r = p
                    ELSE \A r \in Place : ~Has(r, x)'
  BY DEF HeldOnce
<1>1. CASE x \in X
  BY <1>1 DEF Moved
<1>2. CASE x \notin X
  <2>1. fate'[x] = fate[x] /\ \A r \in Place : Has(r, x)' <=> Has(r, x)
    BY <1>2 DEF Moved
  <2> QED BY <2>1 DEF HeldOnce
<1> QED BY <1>1, <1>2

\* Request x0 leaves place p and gets to place q, seen from the lists of one
\* kind, from the done_lists and from the hands of the threads.
ListShifted(k, l, l2, x0, p, q) ==
    \A c \in Ctx, x \in Tx : x \in Elements(l2[c]) <=>
        \/ x \in Elements(l[c]) /\ ~(x = x0 /\ p = <<k, c>>)
        \/ x = x0 /\ q = <<k, c>>

AnswersShifted(x0, p, q) ==
    \A c \in Ctx, x \in Tx : \A k \in AnswerKind : AnswerIn(done'[c], k, x) <=>
        \/ AnswerIn(done[c], k, x) /\ ~(x = x0 /\ p = <<k, c>>)
        \/ x = x0 /\ q = <<k, c>>

HandsShifted(x0, p, q) ==
    \A t \in Thread, x \in Tx : \A k \in HandKind : Carries(call'[t], k, x) <=>
        \/ Carries(call[t], k, x) /\ ~(x = x0 /\ p = <<k, t>>)
        \/ x = x0 /\ q = <<k, t>>

Shifted(x0, p, q) ==
    /\ ListShifted("pending", pending, pending', x0, p, q)
    /\ ListShifted("dispatched", dispatched, dispatched', x0, p, q)
    /\ AnswersShifted(x0, p, q)
    /\ HandsShifted(x0, p, q)

\* A live request is held; one that is held is live and nowhere else.
LEMMA HeldIsLive ==
  ASSUME HeldOnce, NEW x \in Tx, NEW p \in Place, Has(p, x)
  PROVE  fate[x] = "live" /\ \A r \in Place : Has(r, x) <=> r = p
BY DEF HeldOnce

LEMMA ShiftedMoves ==
  ASSUME NEW x0 \in Tx, NEW p, NEW q, Shifted(x0, p, q),
         \A r \in Place : Has(r, x0) <=> r = p,
         fate'[x0] = "live" <=> q \in Place,
         \A x \in Tx : x # x0 => fate'[x] = fate[x]
  PROVE  Moved({x0}, q)
<1>1. ASSUME NEW r \in Place, NEW x \in Tx
      PROVE  Has(r, x)' <=> \/ Has(r, x) /\ ~(x = x0 /\ r = p)
                            \/ x = x0 /\ r = q
  <2>1. CASE \E c \in Ctx : r = <<"pending", c>>
    BY <2>1, HasKinds DEF Shifted, ListShifted
  <2>2. CASE \E c \in Ctx : r = <<"dispatched", c>>
    BY <2>2, HasKinds DEF Shifted, ListShifted
  <2>3. CASE \E c \in Ctx, k \in AnswerKind : r = <<k, c>>
    BY <2>3, HasKinds DEF Shifted, AnswersShifted
  <2>4. CASE \E t \in Thread, k \in HandKind : r = <<k, t>>
    BY <2>4, HasKinds DEF Shifted, HandsShifted
  <2> QED BY <2>1, <2>2, <2>3, <2>4, PlaceKinds
<1>2. ASSUME NEW r \in Place, NEW x \in Tx
      PROVE  Has(r, x)' <=> IF x \in {x0} THEN r = q ELSE Has(r, x)
  BY <1>1
<1> QED BY <1>2 DEF Moved

\* Nothing moves.
LEMMA NothingMoves ==
  ASSUME \A c \in Ctx : Elements(pending'[c]) = Elements(pending[c]),
         \A c \in Ctx : Elements(dispatched'[c]) = Elements(dispatched[c]),
         \A c \in Ctx, x \in Tx : \A k \in AnswerKind :
            AnswerIn(done'[c], k, x) <=> AnswerIn(done[c], k, x),
         \A t \in Thread, x \in Tx : \A k \in HandKind :
            Carries(call'[t], k, x) <=> Carries(call[t], k, x),
         UNCHANGED fate
  PROVE  Moved({}, Nowhere)
<1>1. ASSUME NEW r \in Place, NEW x \in Tx PROVE Has(r, x)' <=> Has(r, x)
  <2>1. CASE \E c \in Ctx : r = <<"pending", c>> \/ r = <<"dispatched", c>>
    BY <2>1, HasKinds
  <2>2. CASE \E c \in Ctx, k \in AnswerKind : r = <<k, c>>
    BY <2>2, HasKinds
  <2>3. CASE \E t \in Thread, k \in HandKind : r = <<k, t>>
    BY <2>3, HasKinds
  <2> QED BY <2>1, <2>2, <2>3, PlaceKinds
<1> QED BY <1>1 DEF Moved

\* Requests X, each in one of the kinds of places from, get to place q.
Effect(X, from, q, f) ==
    /\ X \subseteq Tx
    /\ \A x \in X : \E p \in Place : p[1] \in from /\ Has(p, x)
    /\ Moved(X, q)
    /\ \A x \in X : fate'[x] = f

\* A new request of an open file, with the next number of the file.
Submitted(x, q, f) ==
    /\ x.gen = gen'[x.caller] /\ x.id = txCounter'[x.caller]
    /\ life'[x.caller] = "open"
    /\ fate[x] = "none" /\ Moved({x}, q) /\ fate'[x] = f

\* The ways of a request through the driver: what a step may do to requests.
RequestStep ==
    \/ Moved({}, Nowhere)
    \/ \E x \in Tx :
          \/ \E t \in Thread : Submitted(x, <<"append", t>>, "live")
          \/ Submitted(x, Nowhere, "refused")
          \/ \E c \in Ctx : Effect({x}, {"append"}, <<"pending", c>>, "live")
          \/ \E t \in Thread : Effect({x}, {"pending"}, <<"dispatch", t>>, "live")
          \/ \E c \in Ctx : Effect({x}, {"dispatch"}, <<"dispatched", c>>, "live")
          \/ \E t \in Thread : Effect({x}, {"dispatched"}, <<"answer", t>>, "live")
          \/ Effect({x}, {"answer"}, <<"reply", x.caller>>, "live")
          \/ Effect({x}, {"pending", "dispatched"}, <<"nodev", x.caller>>, "live")
          \/ Effect({x}, {"dispatched"}, Nowhere, "calledBack")
          \/ Effect({x}, AnswerKind, Nowhere, "delivered")
          \/ Effect({x}, {"append", "answer", "pending", "dispatched"}, Nowhere, "lost")
    \/ \E X \in SUBSET Tx :
          \/ Effect(X, AnswerKind, Nowhere, "abandoned")
          \/ Effect(X, {"pending"} \cup AnswerKind, Nowhere, "lost")

\* One request takes one of these ways.
LEMMA OneMoves ==
  ASSUME HeldOnce, NEW x \in Tx, NEW p \in Place, Has(p, x), NEW q, NEW f,
         Shifted(x, p, q), f = "live" <=> q \in Place,
         fate' = [y \in Tx |-> IF y = x THEN f ELSE fate[y]]
  PROVE  \A from : p[1] \in from => Effect({x}, from, q, f)
<1>1. \A r \in Place : Has(r, x) <=> r = p
  BY HeldIsLive
<1>2. fate'[x] = f /\ \A y \in Tx : y # x => fate'[y] = fate[y]
  OBVIOUS
<1>3. Moved({x}, q)
  BY <1>1, <1>2, ShiftedMoves
<1> QED BY <1>2, <1>3 DEF Effect

\* What a system call holds besides its own thread's request does not change.
HandsBut(t) ==
    \A u \in Thread, x \in Tx : \A k \in HandKind :
        u # t => (Carries(call'[u], k, x) <=> Carries(call[u], k, x))

LEMMA HandsGoto ==
  ASSUME TypeOK, NEW t \in Thread, NEW r, Goto(t, r)
  PROVE  HandsBut(t) /\ call'[t] = r
BY DEF Goto, HandsBut, TypeOK

LEMMA HandsReturn ==
  ASSUME TypeOK, NEW t \in Thread, Return(t)
  PROVE  HandsBut(t) /\ call'[t] = Idle
BY DEF Return, HandsBut, TypeOK

\* wake_up_interruptible changes sleepers, which hold no request.
LEMMA HandsWake ==
  ASSUME NEW f, NEW c, NEW u \in Thread, NEW k \in HandKind, NEW x
  PROVE  Carries(WakeUp(f, c)[u], k, x) <=> Carries(f[u], k, x)
<1>1. CASE FdOf[u] = c /\ f[u].at = "asleep"
  <2>1. WakeUp(f, c)[u].at = "check" /\ k # "check" /\ k # "asleep"
    BY <1>1 DEF WakeUp, HandKind
  <2> QED BY <1>1, <2>1 DEF Carries
<1>2. CASE ~(FdOf[u] = c /\ f[u].at = "asleep")
  BY <1>2 DEF WakeUp
<1> QED BY <1>1, <1>2

LEMMA HandsWakeReturn ==
  ASSUME TypeOK, NEW t \in Thread, NEW r, NEW c, call' = WakeUp([call EXCEPT ![t] = r], c)
  PROVE  /\ HandsBut(t)
         /\ \A k \in HandKind, x \in Tx : Carries(call'[t], k, x) <=> Carries(r, k, x)
<1> DEFINE f == [call EXCEPT ![t] = r]
<1>1. f[t] = r /\ \A u \in Thread : u # t => f[u] = call[u]
  BY DEF TypeOK
<1> HIDE DEF f
<1>2. \A u \in Thread, x \in Tx : \A k \in HandKind :
         Carries(call'[u], k, x) <=> Carries(f[u], k, x)
  BY HandsWake DEF f
<1> QED BY <1>1, <1>2 DEF HandsBut

\* An answer or an event is put on a done_list.
LEMMA DeliverAnswers ==
  ASSUME TypeOK, NEW d \in Ctx, NEW e \in Entry, Deliver(d, e)
  PROVE  /\ \A c \in Ctx, x \in Tx : \A k \in AnswerKind :
              AnswerIn(done'[c], k, x)
                <=> \/ AnswerIn(done[c], k, x)
                    \/ c = d /\ life[d] # "closed" /\ e.kind = k /\ e.tx = x
         /\ (/\ \A c \in Ctx : OneAnswer(done[c])
             /\ e.kind # "event" => \A k \in AnswerKind : ~AnswerIn(done[d], k, e.tx))
              => \A c \in Ctx : OneAnswer(done'[c])
<1>1. CASE life[d] = "closed"
  BY <1>1 DEF Deliver
<1>2. CASE life[d] # "closed"
  <2>1. /\ done'[d] = Append(done[d], e) /\ done[d] \in Seq(Entry)
        /\ \A c \in Ctx : c # d => done'[c] = done[c]
    BY <1>2 DEF Deliver, AddTail, TypeOK
  <2>2. \A x \in Tx : \A k \in AnswerKind :
          AnswerIn(done'[d], k, x) <=> AnswerIn(done[d], k, x) \/ (e.kind = k /\ e.tx = x)
    BY <2>1, AppendAnswers
  <2>3. (/\ OneAnswer(done[d])
         /\ e.kind # "event" => \A k \in AnswerKind : ~AnswerIn(done[d], k, e.tx))
          => OneAnswer(done'[d])
    BY <2>1, AppendAnswers
  <2> QED BY <1>2, <2>1, <2>2, <2>3
<1> QED BY <1>1, <1>2

-----------------------------------------------------------------------------
(* What list_add_tail, list_del and a call do to Shifted.                  *)

LEMMA ListStays ==
  ASSUME NEW k, NEW l, NEW x0, NEW p, NEW q, p[1] # k, q[1] # k
  PROVE  ListShifted(k, l, l, x0, p, q)
BY DEF ListShifted

LEMMA ListGains ==
  ASSUME NEW k, NEW l \in [Ctx -> Seq(Tx)], NEW s \in Ctx, NEW x0 \in Tx, NEW p, p[1] # k,
         \A c \in Ctx : NoDup(l[c]), x0 \notin Elements(l[s])
  PROVE  /\ ListShifted(k, l, AddTail(l, s, x0), x0, p, <<k, s>>)
         /\ \A c \in Ctx : NoDup(AddTail(l, s, x0)[c])
<1> DEFINE l2 == AddTail(l, s, x0)
<1>1. l2[s] = Append(l[s], x0) /\ \A c \in Ctx : c # s => l2[c] = l[c]
  BY DEF AddTail
<1>2. Elements(l2[s]) = Elements(l[s]) \cup {x0} /\ NoDup(l2[s])
  BY <1>1, AppendElements
<1> HIDE DEF l2
<1>3. \A c : <<k, c>> # p
  OBVIOUS
<1>4. ASSUME NEW c \in Ctx, NEW x \in Tx
      PROVE  x \in Elements(l2[c]) <=> \/ x \in Elements(l[c])
                                       \/ x = x0 /\ s = c
  BY <1>1, <1>2
<1>5. ListShifted(k, l, l2, x0, p, <<k, s>>)
  BY <1>3, <1>4 DEF ListShifted
<1> QED BY <1>1, <1>2, <1>5 DEF l2

LEMMA ListLoses ==
  ASSUME NEW k, NEW l, NEW l2, NEW s \in Ctx, NEW x0 \in Tx, NEW q, q[1] # k,
         Elements(l2[s]) = Elements(l[s]) \ {x0},
         \A c \in Ctx : c # s => l2[c] = l[c]
  PROVE  ListShifted(k, l, l2, x0, <<k, s>>, q)
<1>1. \A c : <<k, c>> # q
  OBVIOUS
<1>2. ASSUME NEW c \in Ctx, NEW x \in Tx
      PROVE  x \in Elements(l2[c]) <=> x \in Elements(l[c]) /\ ~(x = x0 /\ s = c)
  <2>1. CASE c = s
    BY <2>1
  <2>2. CASE c # s
    BY <2>2
  <2> QED BY <2>1, <2>2
<1> QED BY <1>1, <1>2 DEF ListShifted

LEMMA AnswersStay ==
  ASSUME UNCHANGED done, NEW x0, NEW p, NEW q,
         p[1] \notin AnswerKind, q[1] \notin AnswerKind
  PROVE  AnswersShifted(x0, p, q)
BY DEF AnswersShifted

\* tx->caller gets its answer, if it is still there.
LEMMA AnswersGain ==
  ASSUME TypeOK, NEW d \in Ctx, NEW x0 \in Tx, NEW k0 \in AnswerKind,
         Deliver(d, [kind |-> k0, tx |-> x0]), NEW p, p[1] \notin AnswerKind
  PROVE  AnswersShifted(x0, p, IF life[d] = "closed" THEN Nowhere ELSE <<k0, d>>)
<1> DEFINE e == [kind |-> k0, tx |-> x0]
<1>1. e \in Entry /\ e.kind = k0 /\ e.tx = x0
  BY DEF Entry, AnswerKind
<1> HIDE DEF e
<1>2. \A c \in Ctx, x \in Tx : \A k \in AnswerKind :
         AnswerIn(done'[c], k, x)
            <=> \/ AnswerIn(done[c], k, x)
                \/ c = d /\ life[d] # "closed" /\ e.kind = k /\ e.tx = x
  BY <1>1, DeliverAnswers DEF e
<1>3. \A c : \A k \in AnswerKind : <<k, c>> # p /\ Nowhere # <<k, c>>
  BY DEF AnswerKind, Nowhere
<1>4. CASE life[d] = "closed"
  BY <1>2, <1>3, <1>4 DEF AnswersShifted
<1>5. CASE life[d] # "closed"
  <2>1. \A c, k : <<k0, d>> = <<k, c>> <=> k0 = k /\ d = c
    OBVIOUS
  <2>2. \A c \in Ctx, x \in Tx : \A k \in AnswerKind :
           AnswerIn(done'[c], k, x)
              <=> \/ AnswerIn(done[c], k, x)
                  \/ x = x0 /\ <<k0, d>> = <<k, c>>
    BY <1>1, <1>2, <1>5, <2>1
  <2> QED BY <1>3, <1>5, <2>2 DEF AnswersShifted
<1> QED BY <1>4, <1>5

LEMMA HandsStay ==
  ASSUME NEW x0, NEW p, NEW q, p[1] \notin HandKind, q[1] \notin HandKind,
         \A t \in Thread, x \in Tx : \A k \in HandKind :
            Carries(call'[t], k, x) <=> Carries(call[t], k, x)
  PROVE  HandsShifted(x0, p, q)
<1>1. \A k \in HandKind : \A t : <<k, t>> # p /\ <<k, t>> # q
  OBVIOUS
<1> QED BY <1>1 DEF HandsShifted

\* A thread takes a request in hand, or lays it down.
LEMMA HandGains ==
  ASSUME NEW t \in Thread, HandsBut(t), NEW k0 \in HandKind, NEW x0 \in Tx,
         call[t].at \notin HandKind, Carries(call'[t], k0, x0),
         NEW p, p[1] \notin HandKind
  PROVE  HandsShifted(x0, p, <<k0, t>>)
<1>1. \A k \in HandKind : \A u : <<k, u>> # p
  OBVIOUS
<1>2. ASSUME NEW u \in Thread, NEW x \in Tx, NEW k \in HandKind
      PROVE  Carries(call'[u], k, x) <=> \/ Carries(call[u], k, x)
                                         \/ x = x0 /\ <<k0, t>> = <<k, u>>
  <2>1. CASE u = t
    BY <2>1 DEF Carries
  <2>2. CASE u # t
    BY <2>2 DEF HandsBut
  <2> QED BY <2>1, <2>2
<1> QED BY <1>1, <1>2 DEF HandsShifted

LEMMA HandLoses ==
  ASSUME NEW t \in Thread, HandsBut(t), NEW k0 \in HandKind, NEW x0 \in Tx,
         Carries(call[t], k0, x0),
         \A k \in HandKind, x \in Tx : ~Carries(call'[t], k, x),
         NEW q, q[1] \notin HandKind
  PROVE  HandsShifted(x0, <<k0, t>>, q)
<1>1. \A k \in HandKind : \A u : <<k, u>> # q
  OBVIOUS
<1>2. ASSUME NEW u \in Thread, NEW x \in Tx, NEW k \in HandKind
      PROVE  Carries(call'[u], k, x) <=>
                Carries(call[u], k, x) /\ ~(x = x0 /\ <<k0, t>> = <<k, u>>)
  <2>1. CASE u = t
    BY <2>1 DEF Carries
  <2>2. CASE u # t
    BY <2>2 DEF HandsBut
  <2> QED BY <2>1, <2>2
<1> QED BY <1>1, <1>2 DEF HandsShifted

-----------------------------------------------------------------------------
(* Each action is a RequestStep and leaves no request twice in a list.     *)

RequestOK == RequestStep /\ Distinct'

\* Calls that leave the lists alone and hold no request.
LEMMA AsideKeeps ==
  ASSUME TypeOK, Distinct, NEW t \in Thread, NEW r, Goto(t, r),
         call[t].at \notin HandKind, r.at \notin HandKind, UNCHANGED <<lists, fate>>
  PROVE  RequestOK
<1>1. HandsBut(t) /\ call'[t] = r
  BY HandsGoto
<1>2. \A u \in Thread, x \in Tx : \A k \in HandKind :
         Carries(call'[u], k, x) <=> Carries(call[u], k, x)
  BY <1>1 DEF HandsBut, Carries
<1>3. Moved({}, Nowhere)
  BY <1>2, NothingMoves DEF lists
<1>4. Distinct'
  BY DEF Distinct, lists
<1> QED BY <1>3, <1>4 DEF RequestOK, RequestStep

LEMMA RegisterKeeps ==
  ASSUME TypeOK, Distinct, NEW t \in Thread,
         \/ \E h \in UserHandle : Register(t, h)
         \/ RegisterRole(t) \/ RegisterHandle(t)
         \/ Unregister(t) \/ UnregisterEntry(t) \/ UnregisterRole(t)
  PROVE  RequestOK
<1> USE DEF HandKind, Idle
<1>1. ASSUME NEW h \in UserHandle, Register(t, h) PROVE RequestOK
  BY <1>1, AsideKeeps DEF Register, CanCall
<1>2. CASE RegisterRole(t)
  BY <1>2, AsideKeeps DEF RegisterRole
<1>3. CASE RegisterHandle(t)
  <2>1. Goto(t, Idle)
    BY <1>3 DEF RegisterHandle, Return, Goto
  <2> QED BY <1>3, <2>1, AsideKeeps DEF RegisterHandle
<1>4. CASE Unregister(t)
  BY <1>4, AsideKeeps DEF Unregister, CanCall
<1>5. CASE UnregisterEntry(t)
  BY <1>5, AsideKeeps DEF UnregisterEntry
<1>6. CASE UnregisterRole(t)
  <2>1. Goto(t, Idle)
    BY <1>6 DEF UnregisterRole, Return, Goto
  <2> QED BY <1>6, <2>1, AsideKeeps DEF UnregisterRole
<1> QED BY <1>1, <1>2, <1>3, <1>4, <1>5, <1>6

LEMMA ReadKeeps ==
  ASSUME TypeOK, Distinct, NEW t \in Thread,
         Read(t) \/ ReadCheck(t) \/ ReadInterrupt(t) \/ ReadAgain(t)
  PROVE  RequestOK
<1> USE DEF HandKind, Idle
<1>1. CASE Read(t)
  BY <1>1, AsideKeeps DEF Read, CanCall
<1>2. CASE ReadCheck(t)
  BY <1>2, AsideKeeps DEF ReadCheck
<1>3. CASE ReadInterrupt(t) \/ ReadAgain(t)
  <2>1. Goto(t, Idle) /\ UNCHANGED <<lists, fate>> /\ call[t].at \in {"asleep", "pop"}
    BY <1>3 DEF ReadInterrupt, ReadAgain, Return, Goto
  <2> QED BY <2>1, AsideKeeps
<1> QED BY <1>1, <1>2, <1>3

\* A request gets a number its file has not used; it is in its writer's hands.
LEMMA RequestMoves ==
  ASSUME TypeOK, Opened, Distinct, HeldOnce, Numbered,
         NEW t \in Thread, NEW h \in UserHandle, Request(t, h)
  PROVE  RequestOK
<1> DEFINE c  == FdOf[t]
           tx == [caller |-> c, gen |-> gen[c], id |-> txCounter[c] + 1]
<1>1. c \in Ctx /\ tx \in Tx
  BY ConstantsAssumption DEF TypeOK, Opened, Request, CanCall, Tx, TxId
<1>2. fate[tx] = "none"
  <2>1. tx.caller = c /\ tx.gen = gen[c] /\ tx.id = txCounter[c] + 1
    OBVIOUS
  <2>2. gen[c] \in Nat /\ txCounter[c] \in Nat
    BY <1>1, ConstantsAssumption DEF TypeOK
  <2>3. ~(tx.gen < gen[tx.caller]) /\ ~(tx.id <= txCounter[tx.caller])
    BY <2>1, <2>2
  <2> QED BY <1>1, <2>3 DEF Numbered
<1>3. \A r \in Place : ~Has(r, tx)
  BY <1>1, <1>2 DEF HeldOnce
<1>4. Distinct' /\ call[t] = Idle /\ UNCHANGED lists
  BY DEF Request, CanCall, Distinct, lists
<1>7. tx.gen = gen'[tx.caller] /\ tx.id = txCounter'[tx.caller] /\ life'[tx.caller] = "open"
  BY <1>1 DEF Request, CanCall, TypeOK
<1> HIDE DEF tx
<1>5. CASE handles[h] # NoCtx /\ Goto(t, [at |-> "append", tx |-> tx, to |-> handles[h]])
           /\ Mark({tx}, "live")
  <2> DEFINE q == <<"append", t>>
  <2>1. HandsBut(t) /\ call'[t] = [at |-> "append", tx |-> tx, to |-> handles[h]]
    BY <1>5, HandsGoto
  <2>2. HandsShifted(tx, Nowhere, q)
    <3>1. /\ call[t].at \notin HandKind /\ Carries(call'[t], "append", tx)
          /\ "append" \in HandKind /\ Nowhere[1] \notin HandKind
      BY <1>4, <2>1 DEF Carries, HandKind, Nowhere, Idle
    <3> QED BY <1>1, <2>1, <3>1, HandGains
  <2>3. Shifted(tx, Nowhere, q)
    BY <1>4, <2>2, ListStays, AnswersStay DEF Shifted, lists, AnswerKind, Nowhere
  <2>4. q \in Place /\ Nowhere \notin Place
    BY PlaceKinds DEF HandKind
  <2>5. fate'[tx] = "live" /\ \A x \in Tx : x # tx => fate'[x] = fate[x]
    BY <1>1, <1>5 DEF Mark
  <2>6. Moved({tx}, q)
    BY <1>1, <1>3, <2>3, <2>4, <2>5, ShiftedMoves
  <2> QED BY <1>1, <1>2, <1>4, <1>7, <2>5, <2>6 DEF Submitted, RequestOK, RequestStep
<1>6. CASE Mark({tx}, "refused") /\ UNCHANGED call
  <2>1. Shifted(tx, Nowhere, Nowhere)
    BY <1>4, <1>6, ListStays, AnswersStay, HandsStay
       DEF Shifted, lists, HandKind, AnswerKind, Nowhere
  <2>2. Nowhere \notin Place
    BY PlaceKinds
  <2>3. fate'[tx] = "refused" /\ \A x \in Tx : x # tx => fate'[x] = fate[x]
    BY <1>1, <1>6 DEF Mark
  <2>4. Moved({tx}, Nowhere)
    BY <1>1, <1>3, <2>1, <2>2, <2>3, ShiftedMoves
  <2> QED BY <1>1, <1>2, <1>4, <1>7, <2>3, <2>4 DEF Submitted, RequestOK, RequestStep
<1> QED BY <1>5, <1>6 DEF Request, tx

\* A place lists what it has in one of seven ways.
LEMMA KindFacts ==
  /\ "append" \in HandKind /\ "answer" \in HandKind /\ "dispatch" \in HandKind
  /\ "reply" \in AnswerKind /\ "nodev" \in AnswerKind
  /\ Nowhere[1] \notin HandKind /\ Nowhere[1] \notin AnswerKind
  /\ Nowhere[1] # "pending" /\ Nowhere[1] # "dispatched"
  /\ "pending" \notin HandKind \cup AnswerKind
  /\ "dispatched" \notin HandKind \cup AnswerKind
  /\ "pending" # "dispatched"
  /\ \A k \in HandKind : k \notin AnswerKind /\ k # "pending" /\ k # "dispatched"
  /\ \A k \in AnswerKind : k \notin HandKind /\ k # "pending" /\ k # "dispatched"
BY DEF HandKind, AnswerKind, Nowhere

\* The writer appends its request, or the context it was handed is freed.
LEMMA AppendMoves ==
  ASSUME TypeOK, Distinct, HeldOnce, NEW t \in Thread, RequestAppend(t)
  PROVE  RequestOK
<1> DEFINE s == call[t].to
           x == call[t].tx
           p == <<"append", t>>
           q == IF life[s] = "closed" THEN Nowhere ELSE <<"pending", s>>
           f == IF life[s] = "closed" THEN "lost" ELSE "live"
           r == [at |-> "wake", to |-> s]
<1>1. s \in Ctx /\ x \in Tx
  BY CallLocals DEF TypeOK, RequestAppend
<1>2. p \in Place /\ Carries(call[t], "append", x) /\ Has(p, x)
  BY PlaceKinds, KindFacts, HasKinds DEF RequestAppend, Carries
<1>3. /\ Goto(t, r)
      /\ pending' = IF life[s] = "closed" THEN pending ELSE AddTail(pending, s, x)
      /\ UNCHANGED <<dispatched, done>>
      /\ MarkIfFreed(s, x)
  BY DEF RequestAppend
<1> HIDE DEF s, x, p
<1>4. HandsBut(t) /\ \A k \in HandKind, y \in Tx : ~Carries(call'[t], k, y)
  <2>1. \A k \in HandKind, y \in Tx : ~Carries(r, k, y)
    BY DEF Carries, HandKind
  <2> QED BY <1>3, <2>1, HandsGoto
<1>5. q[1] \notin HandKind /\ q[1] \notin AnswerKind /\ q[1] # "dispatched"
  BY KindFacts
<1>6. HandsShifted(x, p, q)
  BY <1>1, <1>2, <1>4, <1>5, KindFacts, HandLoses DEF p
<1>7. p[1] # "pending" /\ p[1] # "dispatched" /\ p[1] \notin AnswerKind
  BY KindFacts DEF p
<1>8. ListShifted("dispatched", dispatched, dispatched', x, p, q) /\ AnswersShifted(x, p, q)
  BY <1>3, <1>5, <1>7, ListStays, AnswersStay
<1>9. ListShifted("pending", pending, pending', x, p, q) /\ \A c \in Ctx : NoDup(pending'[c])
  <2>1. CASE life[s] = "closed"
    BY <1>3, <1>7, <2>1, KindFacts, ListStays DEF Distinct
  <2>2. CASE life[s] # "closed"
    <3>1. x \notin Elements(pending[s])
      <4>1. <<"pending", s>> \in Place /\ <<"pending", s>> # p
        BY <1>1, PlaceKinds DEF p
      <4> QED BY <1>1, <1>2, <4>1, HeldIsLive, HasKinds
    <3>2. pending \in [Ctx -> Seq(Tx)] /\ \A c \in Ctx : NoDup(pending[c])
      BY DEF TypeOK, Distinct
    <3>3. /\ ListShifted("pending", pending, AddTail(pending, s, x), x, p, <<"pending", s>>)
          /\ \A c \in Ctx : NoDup(AddTail(pending, s, x)[c])
      BY <1>1, <1>7, <3>1, <3>2, ListGains
    <3> QED BY <1>3, <2>2, <3>3
  <2> QED BY <2>1, <2>2
<1>10. Shifted(x, p, q)
  BY <1>6, <1>8, <1>9 DEF Shifted
<1>11. fate' = [y \in Tx |-> IF y = x THEN f ELSE fate[y]]
  BY <1>1, <1>2, <1>3, HeldIsLive DEF MarkIfFreed, Mark
<1>12. f = "live" <=> q \in Place
  BY <1>1, PlaceKinds
<1>13. \A from : p[1] \in from => Effect({x}, from, q, f)
  BY <1>1, <1>2, <1>10, <1>11, <1>12, OneMoves
<1>14. CASE life[s] = "closed"
  <2>1. Effect({x}, {"append", "answer", "pending", "dispatched"}, Nowhere, "lost")
    BY <1>13, <1>14 DEF p
  <2> QED BY <1>1, <1>3, <1>9, <2>1 DEF RequestOK, RequestStep, Distinct
<1>15. CASE life[s] # "closed"
  <2>1. Effect({x}, {"append"}, <<"pending", s>>, "live")
    BY <1>13, <1>15 DEF p
  <2> QED BY <1>1, <1>3, <1>9, <2>1 DEF RequestOK, RequestStep, Distinct
<1> QED BY <1>14, <1>15

\* write(REPLY) takes the transaction off the dispatched_list.
LEMMA ReplyMoves ==
  ASSUME TypeOK, Distinct, HeldOnce, NEW t \in Thread, NEW id \in TxId, Reply(t, id)
  PROVE  RequestOK
<1> DEFINE c == FdOf[t]
<1>1. PICK i \in 1 .. Len(dispatched[c]) :
        /\ Goto(t, [at |-> "answer", tx |-> dispatched[c][i]])
        /\ dispatched' = DelAt(dispatched, c, i)
  BY DEF Reply
<1> DEFINE x == dispatched[c][i]
           p == <<"dispatched", c>>
           q == <<"answer", t>>
<1>2. c \in Ctx /\ dispatched \in [Ctx -> Seq(Tx)] /\ dispatched[c] \in Seq(Tx)
  BY ConstantsAssumption DEF TypeOK
<1>3. x \in Tx /\ x \in Elements(dispatched[c])
  BY <1>2, ElementOfSeq DEF Elements
<1>4. p \in Place /\ Has(p, x) /\ q \in Place
  BY <1>2, <1>3, PlaceKinds, KindFacts, HasKinds
<1>5. call[t] = Idle /\ UNCHANGED <<pending, done, fate>>
  BY DEF Reply, CanCall
<1>6. HandsBut(t) /\ call'[t] = [at |-> "answer", tx |-> x]
  BY <1>1, HandsGoto
<1>7. NoDup(dispatched[c])
  BY <1>2 DEF Distinct
<1>8. /\ Elements(dispatched'[c]) = Elements(dispatched[c]) \ {x}
      /\ NoDup(dispatched'[c])
      /\ \A d \in Ctx : d # c => dispatched'[d] = dispatched[d]
  <2>1. LET r == SubSeq(dispatched[c], 1, i - 1) \o SubSeq(dispatched[c], i + 1, Len(dispatched[c]))
        IN  Elements(r) = Elements(dispatched[c]) \ {x} /\ NoDup(r)
    BY <1>2, <1>7, DelElements
  <2> QED BY <1>1, <1>2, <2>1 DEF DelAt
<1> HIDE DEF x, p, q
<1>9. Distinct'
  BY <1>5, <1>8 DEF Distinct
<1>10. p[1] = "dispatched" /\ q[1] = "answer"
  BY DEF p, q
<1>11. HandsShifted(x, p, q)
  <2>1. call[t].at \notin HandKind /\ Carries(call'[t], "answer", x)
    BY <1>5, <1>6 DEF Carries, HandKind, Idle
  <2> QED BY <1>3, <1>6, <1>10, <2>1, KindFacts, HandGains DEF q
<1>12. ListShifted("dispatched", dispatched, dispatched', x, p, q)
  BY <1>2, <1>3, <1>8, <1>10, KindFacts, ListLoses DEF p
<1>13. Shifted(x, p, q)
  BY <1>5, <1>10, <1>11, <1>12, KindFacts, ListStays, AnswersStay DEF Shifted
<1>14. fate' = [y \in Tx |-> IF y = x THEN "live" ELSE fate[y]]
  BY <1>3, <1>4, <1>5, HeldIsLive DEF TypeOK
<1>15. \A from : p[1] \in from => Effect({x}, from, q, "live")
  BY <1>3, <1>4, <1>13, <1>14, OneMoves
<1>16. Effect({x}, {"dispatched"}, <<"answer", t>>, "live")
  BY <1>10, <1>15 DEF q
<1> QED BY <1>3, <1>9, <1>16 DEF RequestOK, RequestStep

\* An answer to x, held at p, goes to the done_list of tx->caller, if that
\* is not freed.
LEMMA AnswerMoves ==
  ASSUME TypeOK, Distinct, HeldOnce,
         NEW x \in Tx, NEW p \in Place, Has(p, x), p[1] \notin AnswerKind,
         NEW k0 \in AnswerKind, Deliver(x.caller, [kind |-> k0, tx |-> x]),
         MarkIfFreed(x.caller, x),
         NEW q, q = IF life[x.caller] = "closed" THEN Nowhere ELSE <<k0, x.caller>>,
         HandsShifted(x, p, q),
         ListShifted("pending", pending, pending', x, p, q),
         ListShifted("dispatched", dispatched, dispatched', x, p, q)
  PROVE  /\ \A c \in Ctx : OneAnswer(done'[c])
         /\ \A from : p[1] \in from =>
              IF life[x.caller] = "closed" THEN Effect({x}, from, Nowhere, "lost")
              ELSE Effect({x}, from, <<k0, x.caller>>, "live")
<1> DEFINE d == x.caller
           e == [kind |-> k0, tx |-> x]
           r == IF life[d] = "closed" THEN "lost" ELSE "live"
<1>1. d \in Ctx
  BY DEF Tx
<1>2. e \in Entry /\ e.tx = x
  BY DEF Entry, AnswerKind
<1>3. \A k \in AnswerKind : ~AnswerIn(done[d], k, x)
  <2> SUFFICES ASSUME NEW k \in AnswerKind PROVE ~AnswerIn(done[d], k, x)
    OBVIOUS
  <2>1. <<k, d>> \in Place /\ <<k, d>> # p
    BY <1>1, PlaceKinds
  <2> QED BY <2>1, HeldIsLive, HasKinds
<1>4. \A c \in Ctx : OneAnswer(done'[c])
  <2>1. \A c \in Ctx : OneAnswer(done[c])
    BY DEF Distinct
  <2>2. Deliver(d, e)
    OBVIOUS
  <2> HIDE DEF d, e
  <2> QED BY <1>1, <1>2, <1>3, <2>1, <2>2, DeliverAnswers
<1>5. AnswersShifted(x, p, q)
  BY <1>1, AnswersGain
<1>6. Shifted(x, p, q)
  BY <1>5 DEF Shifted
<1>7. fate' = [y \in Tx |-> IF y = x THEN r ELSE fate[y]]
  BY HeldIsLive DEF MarkIfFreed, Mark
<1>8. r = "live" <=> q \in Place
  BY <1>1, PlaceKinds
<1>9. \A from : p[1] \in from => Effect({x}, from, q, r)
  BY <1>6, <1>7, <1>8, OneMoves
<1> QED BY <1>4, <1>9

LEMMA ReplyAnswerMoves ==
  ASSUME TypeOK, Distinct, HeldOnce, NEW t \in Thread, ReplyAnswer(t)
  PROVE  RequestOK
<1> DEFINE x == call[t].tx
           r == [at |-> "wakeCaller", tx |-> x]
           p == <<"answer", t>>
           q == IF life[x.caller] = "closed" THEN Nowhere ELSE <<"reply", x.caller>>
<1>1. x \in Tx /\ x.caller \in Ctx
  BY CallLocals DEF TypeOK, ReplyAnswer, Tx
<1>2. p \in Place /\ Carries(call[t], "answer", x) /\ Has(p, x)
  BY PlaceKinds, KindFacts, HasKinds DEF ReplyAnswer, Carries
<1>3. /\ Deliver(x.caller, [kind |-> "reply", tx |-> x])
      /\ Goto(t, r)
      /\ MarkIfFreed(x.caller, x)
      /\ UNCHANGED <<pending, dispatched>>
  BY DEF ReplyAnswer
<1>4. HandsBut(t) /\ \A k \in HandKind, y \in Tx : ~Carries(call'[t], k, y)
  <2>1. \A k \in HandKind, y \in Tx : ~Carries(r, k, y)
    BY DEF Carries, HandKind
  <2> QED BY <1>3, <2>1, HandsGoto
<1>5. p[1] = "answer" /\ q[1] \notin HandKind /\ q[1] # "pending" /\ q[1] # "dispatched"
  BY KindFacts
<1> HIDE DEF x, p, r
<1>6. HandsShifted(x, p, q)
  BY <1>1, <1>2, <1>4, <1>5, KindFacts, HandLoses DEF p
<1>7. /\ ListShifted("pending", pending, pending', x, p, q)
      /\ ListShifted("dispatched", dispatched, dispatched', x, p, q)
  BY <1>3, <1>5, KindFacts, ListStays
<1>8. p[1] \notin AnswerKind
  BY <1>5, KindFacts
<1> HIDE DEF q
<1>9. q = IF life[x.caller] = "closed" THEN Nowhere ELSE <<"reply", x.caller>>
  BY DEF q
<1>10. /\ \A c \in Ctx : OneAnswer(done'[c])
       /\ \A from : p[1] \in from =>
             IF life[x.caller] = "closed" THEN Effect({x}, from, Nowhere, "lost")
             ELSE Effect({x}, from, <<"reply", x.caller>>, "live")
  BY <1>1, <1>2, <1>3, <1>6, <1>7, <1>8, <1>9, KindFacts, AnswerMoves
<1>11. Distinct'
  BY <1>3, <1>10 DEF Distinct
<1>12. CASE life[x.caller] = "closed"
  <2>1. Effect({x}, {"append", "answer", "pending", "dispatched"}, Nowhere, "lost")
    BY <1>5, <1>10, <1>12
  <2> QED BY <1>1, <1>11, <2>1 DEF RequestOK, RequestStep
<1>13. CASE life[x.caller] # "closed"
  <2>1. Effect({x}, {"answer"}, <<"reply", x.caller>>, "live")
    BY <1>5, <1>10, <1>13
  <2> QED BY <1>1, <1>11, <2>1 DEF RequestOK, RequestStep
<1> QED BY <1>12, <1>13

\* Events are not requests.
LEMMA EventMoves ==
  ASSUME TypeOK, Distinct, NEW t \in Thread,
         (\E h \in UserHandle, id \in TxId : Event(t, h, id)) \/ EventDeliver(t)
  PROVE  RequestOK
<1>1. ASSUME NEW h \in UserHandle, NEW id \in TxId, Event(t, h, id) PROVE RequestOK
  <2>1. /\ Goto(t, [at |-> "event", id |-> id, to |-> handles[h]])
        /\ call[t].at \notin HandKind /\ UNCHANGED <<lists, fate>>
    BY <1>1 DEF Event, CanCall, HandKind, Idle
  <2>2. [at |-> "event", id |-> id, to |-> handles[h]].at \notin HandKind
    BY DEF HandKind
  <2> QED BY <2>1, <2>2, AsideKeeps
<1>2. ASSUME NEW r, Goto(t, r), EventDeliver(t), r.at \notin HandKind
      PROVE  RequestOK
  <2> DEFINE e == [kind |-> "event", id |-> call[t].id]
             d == call[t].to
  <2>1. call[t].id \in TxId /\ d \in Ctx
    BY <1>2, CallLocals DEF EventDeliver, TypeOK
  <2>2. e \in Entry /\ e.kind = "event"
    BY <2>1 DEF Entry
  <2>3. /\ UNCHANGED <<pending, dispatched, fate>> /\ call[t].at = "event"
        /\ Deliver(d, e) \/ done' = done
    BY <1>2 DEF EventDeliver
  <2>4. HandsBut(t) /\ call'[t] = r
    BY <1>2, HandsGoto
  <2>5. \A u \in Thread, x \in Tx : \A k \in HandKind :
           Carries(call'[u], k, x) <=> Carries(call[u], k, x)
    <3>1. call[t].at \notin HandKind /\ call'[t].at \notin HandKind
      BY <1>2, <2>3, <2>4 DEF HandKind
    <3> QED BY <2>4, <3>1 DEF HandsBut, Carries
  <2> HIDE DEF e, d
  <2>6. CASE Deliver(d, e)
    <3>1. /\ \A c \in Ctx, x \in Tx : \A k \in AnswerKind :
               AnswerIn(done'[c], k, x)
                 <=> \/ AnswerIn(done[c], k, x)
                     \/ c = d /\ life[d] # "closed" /\ e.kind = k /\ e.tx = x
          /\ \A c \in Ctx : OneAnswer(done'[c])
      BY <2>1, <2>2, <2>6, DeliverAnswers DEF Distinct
    <3>2. \A c \in Ctx, x \in Tx : \A k \in AnswerKind :
             AnswerIn(done'[c], k, x) <=> AnswerIn(done[c], k, x)
      BY <2>2, <3>1 DEF AnswerKind
    <3>3. Moved({}, Nowhere)
      BY <2>3, <2>5, <3>2, NothingMoves
    <3> QED BY <2>3, <3>1, <3>3 DEF RequestOK, RequestStep, Distinct
  <2>7. CASE done' = done
    <3>1. Moved({}, Nowhere)
      BY <2>3, <2>5, <2>7, NothingMoves
    <3> QED BY <2>3, <2>7, <3>1 DEF RequestOK, RequestStep, Distinct
  <2> QED BY <2>3, <2>6, <2>7
<1>3. CASE EventDeliver(t)
  <2>1. \/ Goto(t, [at |-> "wakeTarget", id |-> call[t].id, to |-> call[t].to])
        \/ Goto(t, [at |-> "unlink", id |-> call[t].id])
    BY <1>3 DEF EventDeliver
  <2>2. \E r : Goto(t, r) /\ r.at \notin HandKind
    BY <2>1 DEF HandKind
  <2> QED BY <1>2, <1>3, <2>2
<1> QED BY <1>1, <1>3

\* A wake-up moves no request.
LEMMA WakeKeeps ==
  ASSUME TypeOK, Distinct,
         \/ \E t \in Thread : RequestWake(t) \/ ReplyWake(t) \/ EventWake(t)
         \/ \E c \in Ctx : ReleaseWake(c)
  PROVE  RequestOK
<1>1. UNCHANGED <<lists, fate>>
  BY DEF RequestWake, ReplyWake, EventWake, ReleaseWake
<1>2. \A u \in Thread, x \in Tx : \A k \in HandKind :
         Carries(call'[u], k, x) <=> Carries(call[u], k, x)
  <2>1. ASSUME NEW t \in Thread, NEW r, NEW d, call[t].at \notin HandKind,
               r.at \notin HandKind, call' = WakeUp([call EXCEPT ![t] = r], d)
        PROVE  \A u \in Thread, x \in Tx : \A k \in HandKind :
                  Carries(call'[u], k, x) <=> Carries(call[u], k, x)
    <3>1. /\ HandsBut(t)
          /\ \A k \in HandKind, x \in Tx : Carries(call'[t], k, x) <=> Carries(r, k, x)
      BY <2>1, HandsWakeReturn
    <3>2. \A k \in HandKind, x \in Tx : ~Carries(r, k, x) /\ ~Carries(call[t], k, x)
      BY <2>1 DEF Carries
    <3> QED BY <3>1, <3>2 DEF HandsBut
  <2>2. ASSUME NEW t \in Thread, RequestWake(t) \/ ReplyWake(t) \/ EventWake(t)
        PROVE  \E r, d : /\ call[t].at \notin HandKind /\ r.at \notin HandKind
                         /\ call' = WakeUp([call EXCEPT ![t] = r], d)
    <3>1. CASE RequestWake(t) \/ ReplyWake(t)
      <4>1. call[t].at \notin HandKind /\ Idle.at \notin HandKind
        BY <3>1 DEF RequestWake, ReplyWake, HandKind, Idle
      <4>2. \E d : call' = WakeUp([call EXCEPT ![t] = Idle], d)
        BY <3>1 DEF RequestWake, ReplyWake
      <4> QED BY <4>1, <4>2
    <3>2. CASE EventWake(t)
      <4>1. call[t].at \notin HandKind /\ [at |-> "unlink", id |-> call[t].id].at \notin HandKind
        BY <3>2 DEF EventWake, HandKind
      <4> QED BY <3>2, <4>1 DEF EventWake
    <3> QED BY <2>2, <3>1, <3>2
  <2>3. ASSUME NEW c \in Ctx, ReleaseWake(c)
        PROVE  \A u \in Thread, x \in Tx : \A k \in HandKind :
                  Carries(call'[u], k, x) <=> Carries(call[u], k, x)
    <3>1. \E d : call' = WakeUp(call, d)
      BY <2>3 DEF ReleaseWake
    <3> QED BY <3>1, HandsWake
  <2> QED BY <2>1, <2>2, <2>3
<1>3. Moved({}, Nowhere)
  BY <1>1, <1>2, NothingMoves DEF lists
<1> QED BY <1>1, <1>3 DEF RequestOK, RequestStep, Distinct, lists

\* write(EVENT) by a server frees the transaction it calls back.
LEMMA UnlinkMoves ==
  ASSUME TypeOK, Distinct, HeldOnce, NEW t \in Thread, EventUnlink(t)
  PROVE  RequestOK
<1> DEFINE c == FdOf[t]
<1>1. /\ Goto(t, Idle) /\ UNCHANGED <<pending, done>>
      /\ call[t].at \notin HandKind /\ Idle.at \notin HandKind
  BY DEF EventUnlink, Return, Goto, HandKind, Idle
<1>2. CASE UNCHANGED <<dispatched, fate>>
  BY <1>1, <1>2, AsideKeeps DEF lists
<1>3. ASSUME NEW i \in 1 .. Len(dispatched[c]), dispatched' = DelAt(dispatched, c, i),
             Mark({dispatched[c][i]}, "calledBack")
      PROVE  RequestOK
  <2> DEFINE x == dispatched[c][i]
             p == <<"dispatched", c>>
  <2>1. c \in Ctx /\ dispatched \in [Ctx -> Seq(Tx)] /\ dispatched[c] \in Seq(Tx)
    BY ConstantsAssumption DEF TypeOK
  <2>2. x \in Tx /\ x \in Elements(dispatched[c])
    BY <2>1, ElementOfSeq DEF Elements
  <2>3. p \in Place /\ Has(p, x) /\ Nowhere \notin Place
    BY <2>1, <2>2, PlaceKinds, HasKinds
  <2>4. NoDup(dispatched[c])
    BY <2>1 DEF Distinct
  <2>5. /\ Elements(dispatched'[c]) = Elements(dispatched[c]) \ {x}
        /\ NoDup(dispatched'[c])
        /\ \A d \in Ctx : d # c => dispatched'[d] = dispatched[d]
    <3>1. LET r == SubSeq(dispatched[c], 1, i - 1) \o SubSeq(dispatched[c], i + 1, Len(dispatched[c]))
          IN  Elements(r) = Elements(dispatched[c]) \ {x} /\ NoDup(r)
      BY <2>1, <2>4, DelElements
    <3> QED BY <1>3, <2>1, <3>1 DEF DelAt
  <2>6. fate' = [y \in Tx |-> IF y = x THEN "calledBack" ELSE fate[y]]
    BY <1>3 DEF Mark
  <2> HIDE DEF x, p
  <2>7. Distinct'
    BY <1>1, <2>5 DEF Distinct
  <2>8. p[1] = "dispatched"
    BY DEF p
  <2>9. HandsBut(t) /\ call'[t] = Idle
    BY <1>1, HandsGoto
  <2>10. \A u \in Thread, y \in Tx : \A k \in HandKind :
            Carries(call'[u], k, y) <=> Carries(call[u], k, y)
    BY <1>1, <2>9 DEF HandsBut, Carries
  <2>11. HandsShifted(x, p, Nowhere)
    BY <2>8, <2>10, KindFacts, HandsStay
  <2>12. ListShifted("dispatched", dispatched, dispatched', x, p, Nowhere)
    BY <2>1, <2>2, <2>5, KindFacts, ListLoses DEF p
  <2>13. Shifted(x, p, Nowhere)
    BY <1>1, <2>8, <2>11, <2>12, KindFacts, ListStays, AnswersStay DEF Shifted
  <2>14. \A from : p[1] \in from => Effect({x}, from, Nowhere, "calledBack")
    BY <2>2, <2>3, <2>6, <2>13, OneMoves
  <2>15. Effect({x}, {"dispatched"}, Nowhere, "calledBack")
    BY <2>8, <2>14
  <2> QED BY <2>2, <2>7, <2>15 DEF RequestOK, RequestStep
<1> QED BY <1>2, <1>3 DEF EventUnlink

\* The first element leaves its list.
LEMMA HeadLeaves ==
  ASSUME NEW k, NEW l \in [Ctx -> Seq(Tx)], \A c \in Ctx : NoDup(l[c]),
         NEW s \in Ctx, l[s] # <<>>
  PROVE  /\ Head(l[s]) \in Tx /\ Head(l[s]) \in Elements(l[s])
         /\ \A q : q[1] # k => ListShifted(k, l, [l EXCEPT ![s] = Tail(@)],
                                           Head(l[s]), <<k, s>>, q)
         /\ \A c \in Ctx : NoDup([l EXCEPT ![s] = Tail(@)][c])
<1> DEFINE l2 == [l EXCEPT ![s] = Tail(@)]
           x  == Head(l[s])
<1>1. l2[s] = Tail(l[s]) /\ \A c \in Ctx : c # s => l2[c] = l[c]
  OBVIOUS
<1>2. /\ x \in Tx /\ x \in Elements(l[s])
      /\ Elements(Tail(l[s])) = Elements(l[s]) \ {x} /\ NoDup(Tail(l[s]))
  BY HeadTailProperties, TailElements
<1>3. Elements(l2[s]) = Elements(l[s]) \ {x}
  BY <1>1, <1>2
<1>4. \A c \in Ctx : NoDup(l2[c])
  BY <1>1, <1>2
<1> HIDE DEF l2, x
<1>5. ASSUME NEW q, q[1] # k PROVE ListShifted(k, l, l2, x, <<k, s>>, q)
  BY <1>1, <1>2, <1>3, <1>5, ListLoses
<1> QED BY <1>2, <1>4, <1>5 DEF l2, x

\* read() of a server takes the first request.
LEMMA ReadRequestMoves ==
  ASSUME TypeOK, Distinct, HeldOnce, NEW t \in Thread, ReadRequest(t)
  PROVE  RequestOK
<1> DEFINE c == FdOf[t]
           x == Head(pending[c])
           p == <<"pending", c>>
           q == <<"dispatch", t>>
<1>1. /\ call[t].at = "pop" /\ pending[c] # <<>>
      /\ Goto(t, [at |-> "dispatch", tx |-> x])
      /\ pending' = [pending EXCEPT ![c] = Tail(@)]
      /\ UNCHANGED <<dispatched, done, fate>>
  BY DEF ReadRequest
<1>2. c \in Ctx /\ pending \in [Ctx -> Seq(Tx)] /\ \A d \in Ctx : NoDup(pending[d])
  BY ConstantsAssumption DEF TypeOK, Distinct
<1>3. q[1] # "pending"
  OBVIOUS
<1>4. /\ x \in Tx /\ x \in Elements(pending[c])
      /\ ListShifted("pending", pending, pending', x, p, q)
      /\ \A d \in Ctx : NoDup(pending'[d])
  <2> HIDE DEF q, c
  <2> QED BY <1>1, <1>2, <1>3, HeadLeaves
<1>5. p \in Place /\ Has(p, x) /\ q \in Place
  BY <1>2, <1>4, PlaceKinds, KindFacts, HasKinds
<1>6. HandsBut(t) /\ call'[t] = [at |-> "dispatch", tx |-> x]
  BY <1>1, HandsGoto
<1> HIDE DEF x, p, q
<1>7. p[1] = "pending" /\ q[1] = "dispatch"
  BY DEF p, q
<1>8. HandsShifted(x, p, q)
  <2>1. call[t].at \notin HandKind /\ Carries(call'[t], "dispatch", x)
    BY <1>1, <1>6 DEF Carries, HandKind
  <2> QED BY <1>4, <1>6, <1>7, <2>1, KindFacts, HandGains DEF q
<1>9. Shifted(x, p, q)
  BY <1>1, <1>4, <1>7, <1>8, KindFacts, ListStays, AnswersStay DEF Shifted
<1>10. fate' = [y \in Tx |-> IF y = x THEN "live" ELSE fate[y]]
  BY <1>1, <1>4, <1>5, HeldIsLive DEF TypeOK
<1>11. \A from : p[1] \in from => Effect({x}, from, q, "live")
  BY <1>4, <1>5, <1>9, <1>10, OneMoves
<1>12. Effect({x}, {"pending"}, <<"dispatch", t>>, "live")
  BY <1>7, <1>11 DEF q
<1> QED BY <1>1, <1>4, <1>12 DEF RequestOK, RequestStep, Distinct

\* ... and puts it on the dispatched_list.
LEMMA ReadDispatchMoves ==
  ASSUME TypeOK, Distinct, HeldOnce, NEW t \in Thread, ReadDispatch(t)
  PROVE  RequestOK
<1> DEFINE c == FdOf[t]
           x == call[t].tx
           p == <<"dispatch", t>>
           q == <<"dispatched", c>>
<1>1. /\ call[t].at = "dispatch" /\ Return(t)
      /\ dispatched' = AddTail(dispatched, c, x)
      /\ UNCHANGED <<pending, done, fate>>
  BY DEF ReadDispatch
<1>2. /\ c \in Ctx /\ x \in Tx
      /\ dispatched \in [Ctx -> Seq(Tx)] /\ \A d \in Ctx : NoDup(dispatched[d])
  BY <1>1, ConstantsAssumption, CallLocals DEF TypeOK, Distinct
<1>3. p \in Place /\ Carries(call[t], "dispatch", x) /\ Has(p, x) /\ q \in Place /\ p # q
  BY <1>1, <1>2, PlaceKinds, KindFacts, HasKinds DEF Carries
<1>4. x \notin Elements(dispatched[c])
  <2>1. ~Has(q, x)
    BY <1>2, <1>3, HeldIsLive
  <2> QED BY <2>1, HasKinds
<1>5. HandsBut(t) /\ \A k \in HandKind, y \in Tx : ~Carries(call'[t], k, y)
  BY <1>1, HandsReturn DEF Carries, Idle, HandKind
<1>6. p[1] = "dispatch" /\ q[1] = "dispatched"
  OBVIOUS
<1> HIDE DEF x, p, c
<1>7. /\ ListShifted("dispatched", dispatched, dispatched', x, p, q)
      /\ \A d \in Ctx : NoDup(dispatched'[d])
  BY <1>1, <1>2, <1>4, <1>6, KindFacts, ListGains
<1>8. HandsShifted(x, p, q)
  BY <1>2, <1>3, <1>5, <1>6, KindFacts, HandLoses DEF p
<1>9. Shifted(x, p, q)
  BY <1>1, <1>6, <1>7, <1>8, KindFacts, ListStays, AnswersStay DEF Shifted
<1>10. fate' = [y \in Tx |-> IF y = x THEN "live" ELSE fate[y]]
  BY <1>1, <1>2, <1>3, HeldIsLive DEF TypeOK
<1>11. \A from : p[1] \in from => Effect({x}, from, q, "live")
  BY <1>2, <1>3, <1>9, <1>10, OneMoves
<1>12. Effect({x}, {"dispatch"}, <<"dispatched", c>>, "live")
  BY <1>6, <1>11
<1> QED BY <1>1, <1>2, <1>7, <1>12 DEF RequestOK, RequestStep, Distinct

\* A done_list loses the answer to x.
LEMMA AnswersLose ==
  ASSUME NEW x0 \in Tx, NEW k0 \in AnswerKind, NEW c0 \in Ctx, NEW q, q[1] \notin AnswerKind,
         \A x \in Tx : \A k \in AnswerKind : AnswerIn(done'[c0], k, x)
                                               <=> AnswerIn(done[c0], k, x) /\ x # x0,
         \A k \in AnswerKind : AnswerIn(done[c0], k, x0) => k = k0,
         \A c \in Ctx : c # c0 => done'[c] = done[c]
  PROVE  AnswersShifted(x0, <<k0, c0>>, q)
<1>1. \A k \in AnswerKind : \A c : <<k, c>> # q
  OBVIOUS
<1>2. ASSUME NEW c \in Ctx, NEW x \in Tx, NEW k \in AnswerKind
      PROVE  AnswerIn(done'[c], k, x)
               <=> AnswerIn(done[c], k, x) /\ ~(x = x0 /\ <<k0, c0>> = <<k, c>>)
  <2>1. CASE c = c0
    BY <2>1
  <2>2. CASE c # c0
    BY <2>2
  <2> QED BY <2>1, <2>2
<1> QED BY <1>1, <1>2 DEF AnswersShifted

\* read() of a client hands out an answer, or an event.
LEMMA ReadDoneMoves ==
  ASSUME TypeOK, Distinct, HeldOnce, NEW t \in Thread, ReadDone(t)
  PROVE  RequestOK
<1> DEFINE c == FdOf[t]
           e == Head(done[c])
           x == e.tx
           p == <<e.kind, c>>
<1>1. /\ call[t].at = "pop" /\ Return(t) /\ done[c] # <<>>
      /\ done' = [done EXCEPT ![c] = Tail(@)]
      /\ Mark(Answered({e}), "delivered")
      /\ UNCHANGED <<pending, dispatched>>
  BY DEF ReadDone
<1>2. c \in Ctx /\ done[c] \in Seq(Entry) /\ OneAnswer(done[c])
  BY ConstantsAssumption DEF TypeOK, Distinct
<1>3. done'[c] = Tail(done[c]) /\ \A d \in Ctx : d # c => done'[d] = done[d]
  BY <1>1, <1>2 DEF TypeOK
<1>4. /\ \A k \in AnswerKind, y \in Tx :
            AnswerIn(Tail(done[c]), k, y)
              <=> AnswerIn(done[c], k, y) /\ ~(e.kind # "event" /\ e.tx = y)
      /\ \A y \in Tx : e.kind # "event" /\ e.tx = y => AnswerIn(done[c], e.kind, y)
      /\ e \in Entry
      /\ OneAnswer(Tail(done[c]))
  <2> HIDE DEF c
  <2> QED BY <1>1, <1>2, TailAnswers
<1>5. HandsBut(t) /\ call'[t] = Idle
  BY <1>1, HandsReturn
<1>6. \A u \in Thread, y \in Tx : \A k \in HandKind :
         Carries(call'[u], k, y) <=> Carries(call[u], k, y)
  BY <1>1, <1>5 DEF HandsBut, Carries, HandKind, Idle
<1> HIDE DEF e
<1>7. Distinct'
  BY <1>1, <1>3, <1>4 DEF Distinct
<1>8. CASE e.kind = "event"
  <2>1. fate' = fate
    BY <1>1, <1>8 DEF Mark, Answered, TypeOK
  <2>2. \A d \in Ctx, y \in Tx : \A k \in AnswerKind :
           AnswerIn(done'[d], k, y) <=> AnswerIn(done[d], k, y)
    <3> SUFFICES ASSUME NEW d \in Ctx, NEW y \in Tx, NEW k \in AnswerKind
                 PROVE  AnswerIn(done'[d], k, y) <=> AnswerIn(done[d], k, y)
      OBVIOUS
    <3>1. CASE d = c
      BY <1>3, <1>4, <1>8, <3>1
    <3>2. CASE d # c
      BY <1>3, <3>2
    <3> QED BY <3>1, <3>2
  <2>3. Moved({}, Nowhere)
    BY <1>1, <1>6, <2>1, <2>2, NothingMoves
  <2> QED BY <1>7, <2>3 DEF RequestOK, RequestStep
<1>9. CASE e.kind # "event"
  <2>1. x \in Tx /\ e.kind \in AnswerKind /\ AnswerIn(done[c], e.kind, x)
    BY <1>4, <1>9, EntryKind
  <2>2. p \in Place /\ Has(p, x) /\ Nowhere \notin Place
    BY <1>2, <2>1, PlaceKinds, HasKinds
  <2>3. \A k \in AnswerKind : AnswerIn(done[c], k, x) => k = e.kind
    <3> SUFFICES ASSUME NEW k \in AnswerKind, AnswerIn(done[c], k, x) PROVE k = e.kind
      OBVIOUS
    <3>1. <<k, c>> \in Place /\ Has(<<k, c>>, x)
      BY <1>2, PlaceKinds, HasKinds
    <3>2. <<k, c>> = p
      BY <2>1, <2>2, <3>1, HeldIsLive
    <3> QED BY <3>2
  <2>4. fate' = [y \in Tx |-> IF y = x THEN "delivered" ELSE fate[y]]
    <3>1. Answered({e}) = {x}
      BY <1>9 DEF Answered
    <3> QED BY <1>1, <3>1 DEF Mark
  <2>5. \A y \in Tx : \A k \in AnswerKind :
           AnswerIn(done'[c], k, y) <=> AnswerIn(done[c], k, y) /\ y # x
    BY <1>3, <1>4, <1>9
  <2> HIDE DEF x, c
  <2>6. AnswersShifted(x, p, Nowhere)
    BY <1>2, <1>3, <2>1, <2>3, <2>5, KindFacts, AnswersLose
  <2>7. p[1] = e.kind
    OBVIOUS
  <2> HIDE DEF p
  <2>8. Shifted(x, p, Nowhere)
    BY <1>1, <1>6, <2>1, <2>6, <2>7, KindFacts, ListStays, HandsStay DEF Shifted
  <2>9. \A from : p[1] \in from => Effect({x}, from, Nowhere, "delivered")
    BY <2>1, <2>2, <2>4, <2>8, OneMoves
  <2>10. Effect({x}, AnswerKind, Nowhere, "delivered")
    BY <2>1, <2>7, <2>9
  <2> QED BY <1>7, <2>1, <2>10 DEF RequestOK, RequestStep
<1> QED BY <1>8, <1>9

-----------------------------------------------------------------------------
(* open() and release().                                                   *)

\* Files come and go with empty lists.
LEMMA FileKeeps ==
  ASSUME TypeOK, ClosedAreEmpty, Distinct, NEW c \in Ctx,
         Open(c) \/ Close(c) \/ ReleaseHandle(c)
  PROVE  RequestOK
<1>1. UNCHANGED <<lists, call, fate>>
  <2>1. CASE Open(c)
    <3>1. pending[c] = <<>> /\ dispatched[c] = <<>> /\ done[c] = <<>>
      BY <2>1 DEF Open, ClosedAreEmpty
    <3>2. /\ pending' = [pending EXCEPT ![c] = pending[c]]
          /\ dispatched' = [dispatched EXCEPT ![c] = dispatched[c]]
          /\ done' = [done EXCEPT ![c] = done[c]]
          /\ UNCHANGED <<call, fate>>
      BY <2>1, <3>1 DEF Open
    <3> QED BY <3>2 DEF TypeOK, lists
  <2>2. CASE Close(c)
    BY <2>2 DEF Close, lists
  <2>3. CASE ReleaseHandle(c)
    BY <2>3 DEF ReleaseHandle, lists
  <2> QED BY <2>1, <2>2, <2>3
<1>2. Moved({}, Nowhere)
  BY <1>1, NothingMoves DEF lists
<1> QED BY <1>1, <1>2 DEF Distinct, lists, RequestOK, RequestStep

\* The file's lists of the kinds in from are freed, with the requests in them.
LEMMA AllLeave ==
  ASSUME TypeOK, HeldOnce, NEW c \in Ctx, NEW f, f # "live",
         NEW from, from \subseteq {"pending"} \cup AnswerKind, AnswerKind \subseteq from,
         NEW X, X = {x \in Tx : \E k \in from : Has(<<k, c>>, x)},
         IF "pending" \in from THEN pending' = [pending EXCEPT ![c] = <<>>]
                               ELSE pending' = pending,
         done' = [done EXCEPT ![c] = <<>>],
         UNCHANGED <<dispatched, call>>, Mark(X, f)
  PROVE  Effect(X, from, Nowhere, f)
<1>1. \A k \in from : <<k, c>> \in Place
  BY PlaceKinds
<1>2. \A x \in X : \E p \in Place : p[1] \in from /\ Has(p, x)
  BY <1>1
<1>3. /\ done'[c] = <<>> /\ \A d \in Ctx : d # c => done'[d] = done[d]
      /\ "pending" \in from => pending'[c] = <<>>
      /\ "pending" \notin from => pending'[c] = pending[c]
      /\ \A d \in Ctx : d # c => pending'[d] = pending[d]
  BY DEF TypeOK
<1>4. ASSUME NEW r \in Place, NEW x \in Tx
      PROVE  Has(r, x)' <=> Has(r, x) /\ ~(r[2] = c /\ r[1] \in from)
  <2>1. CASE r = <<"pending", c>>
    BY <1>3, <2>1, HasKinds, NoElements
  <2>2. ASSUME NEW d \in Ctx, d # c, r = <<"pending", d>> PROVE Has(r, x)' <=> Has(r, x)
    BY <1>3, <2>2, HasKinds
  <2>3. ASSUME NEW d \in Ctx, r = <<"dispatched", d>>
        PROVE  (Has(r, x)' <=> Has(r, x)) /\ r[1] \notin from
    BY <2>3, HasKinds, KindFacts
  <2>4. ASSUME NEW k \in AnswerKind, r = <<k, c>> PROVE ~Has(r, x)' /\ r[1] \in from
    BY <1>3, <2>4, HasKinds, NoElements, SMTT(20)
  <2>5. ASSUME NEW k \in AnswerKind, NEW d \in Ctx, d # c, r = <<k, d>>
        PROVE  Has(r, x)' <=> Has(r, x)
    BY <1>3, <2>5, HasKinds
  <2>6. ASSUME NEW k \in HandKind, NEW t \in Thread, r = <<k, t>>
        PROVE  (Has(r, x)' <=> Has(r, x)) /\ r[1] \notin from
    BY <2>6, HasKinds, KindFacts
  <2>7. CASE \E d \in Ctx : r = <<"pending", d>>
    BY <2>1, <2>2, <2>7
  <2>8. CASE \E d \in Ctx, k \in AnswerKind : r = <<k, d>>
    BY <2>4, <2>5, <2>8
  <2> QED BY <2>3, <2>6, <2>7, <2>8, PlaceKinds
<1>5. ASSUME NEW r \in Place, NEW x \in Tx
      PROVE  Has(r, x)' <=> IF x \in X THEN r = Nowhere ELSE Has(r, x)
  <2>1. CASE x \in X
    <3>1. PICK k \in from : Has(<<k, c>>, x)
      BY <2>1
    <3>2. Has(r, x) => r = <<k, c>>
      BY <1>1, <3>1, HeldIsLive
    <3>3. r # Nowhere
      BY PlaceKinds
    <3> QED BY <1>4, <2>1, <3>2, <3>3
  <2>2. CASE x \notin X
    <3>1. ASSUME r[2] = c, r[1] \in from PROVE ~Has(r, x)
      <4>1. r = <<r[1], c>>
        BY <3>1 DEF Place, ListPlace
      <4> QED BY <2>2, <3>1, <4>1
    <3> QED BY <1>4, <2>2, <3>1
  <2> QED BY <2>1, <2>2
<1>6. \A x \in Tx : IF x \in X THEN fate'[x] = f ELSE fate'[x] = fate[x]
  BY DEF Mark
<1>7. Moved(X, Nowhere)
  BY <1>5, <1>6, PlaceKinds DEF Moved
<1> QED BY <1>2, <1>6, <1>7 DEF Effect

LEMMA AnsweredPlaces ==
  ASSUME TypeOK, NEW c \in Ctx
  PROVE  Answered(Elements(done[c])) = {x \in Tx : \E k \in AnswerKind : Has(<<k, c>>, x)}
<1>1. done[c] \in Seq(Entry)
  BY DEF TypeOK
<1>2. Answered(Elements(done[c])) \subseteq Tx
  <2>1. \A i \in 1 .. Len(done[c]) : done[c][i] \in Entry
    BY <1>1, ElementOfSeq
  <2> QED BY <2>1, EntryKind DEF Answered, Elements
<1>3. \A x \in Tx : x \in Answered(Elements(done[c]))
                      <=> \E k \in AnswerKind : Has(<<k, c>>, x)
  BY <1>1, AnsweredIn, HasKinds
<1> QED BY <1>2, <1>3

LEMMA ReleaseDoneMoves ==
  ASSUME TypeOK, Distinct, HeldOnce, NEW c \in Ctx, ReleaseDone(c)
  PROVE  RequestOK
<1> DEFINE X == {x \in Tx : \E k \in AnswerKind : Has(<<k, c>>, x)}
<1>1. /\ done' = [done EXCEPT ![c] = <<>>] /\ Mark(X, "abandoned")
      /\ UNCHANGED <<pending, dispatched, call>>
  BY AnsweredPlaces DEF ReleaseDone
<1> HIDE DEF X
<1>2. Effect(X, AnswerKind, Nowhere, "abandoned")
  BY <1>1, KindFacts, AllLeave DEF X
<1>3. Distinct'
  BY <1>1, NoElements DEF Distinct, TypeOK
<1>4. X \in SUBSET Tx
  BY DEF X
<1> QED BY <1>2, <1>3, <1>4 DEF RequestOK, RequestStep

\* One turn of the loops: the first request x of a list is answered ENODEV.
LEMMA NotifyMoves ==
  ASSUME TypeOK, Distinct, HeldOnce, NEW c \in Ctx, NEW x \in Tx,
         NEW k \in {"pending", "dispatched"}, Has(<<k, c>>, x),
         NotifyClosed(c, x), UNCHANGED call,
         \A q : q[1] # "pending" /\ q[1] # "dispatched" =>
            /\ ListShifted("pending", pending, pending', x, <<k, c>>, q)
            /\ ListShifted("dispatched", dispatched, dispatched', x, <<k, c>>, q)
  PROVE  RequestStep /\ \A d \in Ctx : OneAnswer(done'[d])
<1> DEFINE p == <<k, c>>
           q == IF life[x.caller] = "closed" THEN Nowhere ELSE <<"nodev", x.caller>>
<1>1. p \in Place /\ x.caller \in Ctx
  BY PlaceKinds DEF Tx
<1>2. /\ Deliver(x.caller, [kind |-> "nodev", tx |-> x])
      /\ MarkIfFreed(x.caller, x)
  BY DEF NotifyClosed
<1>3. /\ p[1] = k /\ k \notin AnswerKind /\ k \notin HandKind
      /\ q[1] \notin HandKind /\ q[1] # "pending" /\ q[1] # "dispatched"
  BY KindFacts
<1>4. Has(p, x)
  OBVIOUS
<1>5. /\ ListShifted("pending", pending, pending', x, p, q)
      /\ ListShifted("dispatched", dispatched, dispatched', x, p, q)
  BY <1>3
<1> HIDE DEF p, q
<1>6. HandsShifted(x, p, q)
  BY <1>3, HandsStay
<1>7. q = IF life[x.caller] = "closed" THEN Nowhere ELSE <<"nodev", x.caller>>
  BY DEF q
<1>8. p[1] \notin AnswerKind
  BY <1>3
<1>9. /\ \A d \in Ctx : OneAnswer(done'[d])
      /\ \A from : p[1] \in from =>
            IF life[x.caller] = "closed" THEN Effect({x}, from, Nowhere, "lost")
            ELSE Effect({x}, from, <<"nodev", x.caller>>, "live")
  BY <1>1, <1>2, <1>4, <1>5, <1>6, <1>7, <1>8, KindFacts, AnswerMoves
<1>10. CASE life[x.caller] = "closed"
  <2>1. Effect({x}, {"append", "answer", "pending", "dispatched"}, Nowhere, "lost")
    BY <1>3, <1>9, <1>10
  <2> QED BY <1>9, <2>1 DEF RequestStep
<1>11. CASE life[x.caller] # "closed"
  <2>1. Effect({x}, {"pending", "dispatched"}, <<"nodev", x.caller>>, "live")
    BY <1>3, <1>9, <1>11
  <2> QED BY <1>1, <1>9, <2>1 DEF RequestStep
<1> QED BY <1>10, <1>11

LEMMA ReleasePendingMoves ==
  ASSUME TypeOK, Distinct, HeldOnce, NEW c \in Ctx, ReleasePending(c)
  PROVE  RequestOK
<1>0. call' = call
  BY DEF ReleasePending
<1>1. CASE UNCHANGED <<pending, done, waking, fate>>
  <2>1. dispatched' = dispatched
    BY DEF ReleasePending
  <2>2. Moved({}, Nowhere)
    BY <1>0, <1>1, <2>1, NothingMoves
  <2> QED BY <1>1, <2>1, <2>2 DEF Distinct, RequestOK, RequestStep
<1>2. CASE pending[c] # <<>> /\ NotifyClosed(c, Head(pending[c]))
           /\ pending' = [pending EXCEPT ![c] = Tail(@)]
  <2> DEFINE x == Head(pending[c])
             p == <<"pending", c>>
  <2>1. pending \in [Ctx -> Seq(Tx)] /\ \A d \in Ctx : NoDup(pending[d])
    BY DEF TypeOK, Distinct
  <2>2. /\ x \in Tx /\ x \in Elements(pending[c])
        /\ \A q : q[1] # "pending" => ListShifted("pending", pending, pending', x, p, q)
        /\ \A d \in Ctx : NoDup(pending'[d])
    BY <1>2, <2>1, HeadLeaves
  <2>3. dispatched' = dispatched /\ NotifyClosed(c, x)
    BY <1>2 DEF ReleasePending
  <2>4. Has(p, x)
    BY <2>2, HasKinds
  <2> HIDE DEF x
  <2>5. \A q : q[1] # "pending" /\ q[1] # "dispatched" =>
           /\ ListShifted("pending", pending, pending', x, p, q)
           /\ ListShifted("dispatched", dispatched, dispatched', x, p, q)
    BY <2>2, <2>3, KindFacts, ListStays
  <2>6. RequestStep /\ \A d \in Ctx : OneAnswer(done'[d])
    BY <1>0, <2>2, <2>3, <2>4, <2>5, NotifyMoves
  <2> QED BY <2>2, <2>3, <2>6 DEF RequestOK, Distinct
<1> QED BY <1>1, <1>2 DEF ReleasePending

LEMMA ReleaseDispatchedMoves ==
  ASSUME TypeOK, Distinct, HeldOnce, NEW c \in Ctx, ReleaseDispatched(c)
  PROVE  RequestOK
<1>0. call' = call
  BY DEF ReleaseDispatched
<1>1. CASE /\ Mark(Elements(pending[c]) \cup Answered(Elements(done[c])), "lost")
           /\ pending' = [pending EXCEPT ![c] = <<>>]
           /\ done' = [done EXCEPT ![c] = <<>>]
           /\ UNCHANGED <<dispatched, waking>>
  <2> DEFINE from == {"pending"} \cup AnswerKind
             X    == {x \in Tx : \E k \in from : Has(<<k, c>>, x)}
  <2>1. Elements(pending[c]) \cup Answered(Elements(done[c])) = X
    <3>1. Elements(pending[c]) \subseteq Tx
      <4>1. pending[c] \in Seq(Tx)
        BY DEF TypeOK
      <4>2. \A i \in 1 .. Len(pending[c]) : pending[c][i] \in Tx
        BY <4>1, ElementOfSeq
      <4> QED BY <4>2 DEF Elements
    <3>2. Answered(Elements(done[c])) = {x \in Tx : \E k \in AnswerKind : Has(<<k, c>>, x)}
      BY AnsweredPlaces
    <3>3. \A x \in Tx : x \in Elements(pending[c]) <=> Has(<<"pending", c>>, x)
      BY HasKinds
    <3> QED BY <3>1, <3>2, <3>3
  <2>2. Mark(X, "lost")
    BY <1>1, <2>1
  <2>3. "pending" \in from /\ from \subseteq {"pending"} \cup AnswerKind /\ AnswerKind \subseteq from
    OBVIOUS
  <2> HIDE DEF X, from
  <2>4. Effect(X, from, Nowhere, "lost")
    BY <1>0, <1>1, <2>2, <2>3, AllLeave DEF X
  <2>5. Distinct'
    BY <1>1, NoElements DEF Distinct, TypeOK
  <2>6. X \in SUBSET Tx
    BY DEF X
  <2> QED BY <2>4, <2>5, <2>6 DEF RequestOK, RequestStep, from
<1>2. CASE dispatched[c] # <<>> /\ NotifyClosed(c, Head(dispatched[c]))
           /\ dispatched' = [dispatched EXCEPT ![c] = Tail(@)]
           /\ UNCHANGED pending
  <2> DEFINE x == Head(dispatched[c])
             p == <<"dispatched", c>>
  <2>1. dispatched \in [Ctx -> Seq(Tx)] /\ \A d \in Ctx : NoDup(dispatched[d])
    BY DEF TypeOK, Distinct
  <2>2. /\ x \in Tx /\ x \in Elements(dispatched[c])
        /\ \A q : q[1] # "dispatched" =>
              ListShifted("dispatched", dispatched, dispatched', x, p, q)
        /\ \A d \in Ctx : NoDup(dispatched'[d])
    BY <1>2, <2>1, HeadLeaves
  <2>3. pending' = pending /\ NotifyClosed(c, x)
    BY <1>2
  <2>4. Has(p, x)
    BY <2>2, HasKinds
  <2> HIDE DEF x
  <2>5. \A q : q[1] # "pending" /\ q[1] # "dispatched" =>
           /\ ListShifted("pending", pending, pending', x, p, q)
           /\ ListShifted("dispatched", dispatched, dispatched', x, p, q)
    BY <2>2, <2>3, KindFacts, ListStays
  <2>6. RequestStep /\ \A d \in Ctx : OneAnswer(done'[d])
    BY <1>0, <2>2, <2>3, <2>4, <2>5, NotifyMoves
  <2> QED BY <2>2, <2>3, <2>6 DEF RequestOK, Distinct
<1> QED BY <1>1, <1>2 DEF ReleaseDispatched

\* Whatever a step of the driver does, it moves requests along their ways.
LEMMA EveryStepMoves ==
  ASSUME TypeOK, Opened, RequestInv, [Next]_vars
  PROVE  RequestOK
<1> USE DEF RequestInv
<1>1. CASE UNCHANGED vars
  <2>1. UNCHANGED <<lists, call, fate>>
    BY <1>1 DEF vars
  <2>2. Moved({}, Nowhere)
    BY <2>1, NothingMoves DEF lists
  <2> QED BY <2>1, <2>2 DEF Distinct, lists, RequestOK, RequestStep
<1>2. ASSUME NEW t \in Thread, Begin(t) PROVE RequestOK
  BY <1>2, RegisterKeeps, RequestMoves, ReplyMoves, EventMoves, ReadKeeps DEF Begin
<1>3. ASSUME NEW t \in Thread, Continue(t) PROVE RequestOK
  BY <1>3, RegisterKeeps, AppendMoves, ReplyAnswerMoves, EventMoves, UnlinkMoves, ReadKeeps,
     ReadRequestMoves, ReadDispatchMoves, ReadDoneMoves, WakeKeeps DEF Continue
<1>4. ASSUME NEW c \in Ctx, Open(c) \/ Close(c) \/ Release(c) PROVE RequestOK
  BY <1>4, FileKeeps, ReleaseDoneMoves, ReleasePendingMoves, ReleaseDispatchedMoves,
     WakeKeeps DEF Release
<1> QED BY <1>1, <1>2, <1>3, <1>4 DEF Next

-----------------------------------------------------------------------------
(* The inductive invariant.                                                *)

\* Calls begin on open files and stay in the driver until they return.
LEMMA CallsStep ==
  ASSUME TypeOK, [Next]_vars, NEW t \in Thread, call'[t] # Idle
  PROVE  call[t] # Idle \/ (CanCall(t) /\ life' = life)
<1> SUFFICES ASSUME call[t] = Idle PROVE CanCall(t) /\ life' = life
  OBVIOUS
<1>0. \A f, c : f[t] = Idle => WakeUp(f, c)[t] = Idle
  BY DEF WakeUp, Idle
<1>1. ASSUME NEW u \in Thread, Begin(u) PROVE CanCall(t) /\ life' = life
  <2>1. life' = life /\ \A v \in Thread : v # u => call'[v] = call[v]
    BY <1>1 DEF Begin, Register, Unregister, Request, Reply, Event, Read, ReadInterrupt,
       Goto, Return, TypeOK
  <2>2. u = t
    BY <2>1
  <2>3. ~ReadInterrupt(t)
    BY DEF ReadInterrupt, Idle
  <2> QED BY <1>1, <2>1, <2>2, <2>3
          DEF Begin, Register, Unregister, Request, Reply, Event, Read
<1>2. ASSUME NEW u \in Thread, Continue(u) PROVE FALSE
  <2>1. call[u].at # "idle"
    BY <1>2 DEF Continue, RegisterRole, RegisterHandle, UnregisterEntry, UnregisterRole,
       RequestAppend, RequestWake, ReplyAnswer, ReplyWake, EventDeliver, EventWake,
       EventUnlink, ReadCheck, ReadAgain, ReadRequest, ReadDispatch, ReadDone
  <2>2. u # t
    BY <2>1 DEF Idle
  <2>3. \/ \E r : call' = [call EXCEPT ![u] = r]
        \/ \E r, c : call' = WakeUp([call EXCEPT ![u] = r], c)
    <3>1. CASE RequestWake(u) \/ ReplyWake(u)
      BY <3>1 DEF RequestWake, ReplyWake
    <3>2. CASE EventWake(u)
      BY <3>2 DEF EventWake
    <3>3. CASE ~RequestWake(u) /\ ~ReplyWake(u) /\ ~EventWake(u)
      BY <1>2, <3>3 DEF Continue, RegisterRole, RegisterHandle, UnregisterEntry,
         UnregisterRole, RequestAppend, ReplyAnswer, EventDeliver, EventUnlink, ReadCheck,
         ReadAgain, ReadRequest, ReadDispatch, ReadDone, Goto, Return
    <3> QED BY <3>1, <3>2, <3>3
  <2>4. \A r : [call EXCEPT ![u] = r][t] = Idle
    BY <2>2 DEF TypeOK
  <2>5. CASE \E r : call' = [call EXCEPT ![u] = r]
    BY <2>4, <2>5
  <2>6. ASSUME NEW r, NEW c, call' = WakeUp([call EXCEPT ![u] = r], c) PROVE FALSE
    <3> DEFINE f == [call EXCEPT ![u] = r]
    <3>1. f[t] = Idle
      BY <2>4
    <3> HIDE DEF f
    <3>2. WakeUp(f, c)[t] = Idle
      BY <1>0, <3>1
    <3> QED BY <2>6, <3>2 DEF f
  <2> QED BY <2>3, <2>5, <2>6
<1>3. ASSUME NEW c \in Ctx, Open(c) \/ Close(c) \/ Release(c) PROVE FALSE
  <2>1. call' = call \/ \E d : call' = WakeUp(call, d)
    BY <1>3 DEF Open, Close, Release, ReleaseHandle, ReleaseDone, ReleasePending,
       ReleaseDispatched, ReleaseWake
  <2> QED BY <1>0, <2>1
<1>4. CASE UNCHANGED vars
  BY <1>4 DEF vars
<1> QED BY <1>1, <1>2, <1>3, <1>4 DEF Next

LEMMA CallsAreOpenStep ==
  ASSUME TypeOK, CallsAreOpen, [Next]_vars
  PROVE  CallsAreOpen'
<1> SUFFICES ASSUME NEW t \in Thread, call'[t] # Idle PROVE life'[FdOf[t]] = "open"
  BY DEF CallsAreOpen
<1>1. CASE CanCall(t) /\ life' = life
  BY <1>1 DEF CanCall
<1>2. CASE call[t] # Idle
  <2>1. life[FdOf[t]] = "open" /\ FdOf[t] \in Ctx
    BY <1>2, ConstantsAssumption DEF CallsAreOpen
  <2>2. ASSUME NEW u \in Thread, Begin(u) \/ Continue(u) PROVE life' = life
    BY <2>2 DEF Begin, Register, Unregister, Request, Reply, Event, Read, ReadInterrupt,
       Continue, RegisterRole, RegisterHandle, UnregisterEntry, UnregisterRole,
       RequestAppend, RequestWake, ReplyAnswer, ReplyWake, EventDeliver, EventWake,
       EventUnlink, ReadCheck, ReadAgain, ReadRequest, ReadDispatch, ReadDone
  <2>3. ASSUME NEW c \in Ctx, Open(c) \/ Close(c) \/ Release(c)
        PROVE  life'[FdOf[t]] = "open"
    <3>1. CASE Open(c)
      BY <2>1, <3>1 DEF Open, TypeOK
    <3>2. CASE Close(c)
      BY <1>2, <2>1, <3>2 DEF Close, TypeOK
    <3>3. CASE ReleaseWake(c)
      BY <2>1, <3>3 DEF ReleaseWake
    <3>4. CASE Release(c) /\ ~ReleaseWake(c)
      <4>1. life[c] # "open" /\ \A d \in Ctx : d # c => life'[d] = life[d]
        BY <3>4 DEF Release, ReleaseHandle, ReleaseDone, ReleasePending, ReleaseDispatched,
           TypeOK
      <4> QED BY <2>1, <4>1
    <3> QED BY <2>3, <3>1, <3>2, <3>3, <3>4
  <2>4. CASE UNCHANGED vars
    BY <2>1, <2>4 DEF vars
  <2> QED BY <2>1, <2>2, <2>3, <2>4 DEF Next
<1> QED BY <1>1, <1>2, CallsStep

\* What is freed is empty: list_add_tail through a stale pointer is not seen.
LEMMA ClosedAreEmptyStep ==
  ASSUME TypeOK, CallsAreOpen, ClosedAreEmpty, [Next]_vars
  PROVE  ClosedAreEmpty'
<1> DEFINE Empty(c) == pending[c] = <<>> /\ dispatched[c] = <<>> /\ done[c] = <<>>
<1> SUFFICES ASSUME NEW d \in Ctx, life'[d] = "closed"
             PROVE  pending'[d] = <<>> /\ dispatched'[d] = <<>> /\ done'[d] = <<>>
  BY DEF ClosedAreEmpty
<1>1. \A t \in Thread : FdOf[t] \in Ctx /\ (call[t] # Idle => life[FdOf[t]] = "open")
  BY ConstantsAssumption DEF CallsAreOpen
<1>2. life[d] = "closed" => Empty(d)
  BY DEF ClosedAreEmpty
<1>3. ASSUME NEW c \in Ctx, NEW e, Deliver(c, e), life[d] = "closed"
      PROVE  done'[d] = done[d]
  BY <1>3 DEF Deliver, AddTail, TypeOK
<1>4. ASSUME NEW t \in Thread, Begin(t)
      PROVE  pending'[d] = <<>> /\ dispatched'[d] = <<>> /\ done'[d] = <<>>
  <2>1. life[d] = "closed" /\ UNCHANGED <<pending, done>>
    BY <1>4 DEF Begin, Register, Unregister, Request, Reply, Event, Read, ReadInterrupt, lists
  <2>2. CASE dispatched' = dispatched
    BY <1>2, <2>1, <2>2
  <2>3. ASSUME NEW id \in TxId, Reply(t, id) PROVE dispatched'[d] = dispatched[d]
    <3>1. FdOf[t] # d
      BY <2>1, <2>3 DEF Reply, CanCall
    <3> QED BY <2>3, <3>1 DEF Reply, DelAt, TypeOK
  <2> QED BY <1>2, <1>4, <2>1, <2>2, <2>3
          DEF Begin, Register, Unregister, Request, Event, Read, ReadInterrupt, lists
<1>5. ASSUME NEW t \in Thread, Continue(t)
      PROVE  pending'[d] = <<>> /\ dispatched'[d] = <<>> /\ done'[d] = <<>>
  <2>1. call[t] # Idle /\ life[d] = "closed"
    BY <1>5 DEF Idle, Continue, RegisterRole, RegisterHandle, UnregisterEntry, UnregisterRole,
       RequestAppend, RequestWake, ReplyAnswer, ReplyWake, EventDeliver, EventWake,
       EventUnlink, ReadCheck, ReadAgain, ReadRequest, ReadDispatch, ReadDone
  <2>2. FdOf[t] # d /\ Empty(d)
    BY <1>1, <1>2, <2>1
  <2>3. CASE RequestAppend(t)
    <3>1. call[t].to \in Ctx
      BY <2>3, CallLocals DEF RequestAppend, TypeOK
    <3> QED BY <2>1, <2>2, <2>3, <3>1 DEF RequestAppend, AddTail, TypeOK
  <2>4. CASE ReplyAnswer(t)
    <3>1. call[t].tx.caller \in Ctx
      BY <2>4, CallLocals DEF ReplyAnswer, TypeOK, Tx
    <3>2. done'[d] = done[d]
      BY <1>3, <2>1, <2>4, <3>1 DEF ReplyAnswer
    <3> QED BY <2>2, <2>4, <3>2 DEF ReplyAnswer
  <2>5. CASE EventDeliver(t)
    <3>1. call[t].to \in Ctx
      BY <2>5, CallLocals DEF EventDeliver, TypeOK
    <3>2. done'[d] = done[d]
      BY <1>3, <2>1, <2>5, <3>1 DEF EventDeliver
    <3> QED BY <2>2, <2>5, <3>2 DEF EventDeliver
  <2>6. CASE EventUnlink(t)
    BY <2>2, <2>6 DEF EventUnlink, DelAt, TypeOK
  <2>7. CASE ReadRequest(t) \/ ReadDispatch(t) \/ ReadDone(t)
    BY <2>2, <2>7 DEF ReadRequest, ReadDispatch, ReadDone, AddTail, TypeOK
  <2>8. CASE UNCHANGED lists
    BY <2>2, <2>8 DEF lists
  <2> QED BY <1>5, <2>3, <2>4, <2>5, <2>6, <2>7, <2>8
          DEF Continue, RequestWake, ReplyWake, EventWake, RegisterRole, RegisterHandle, UnregisterEntry, UnregisterRole,
              ReadCheck, ReadAgain
<1>6. ASSUME NEW c \in Ctx, Open(c) \/ Close(c) \/ Release(c)
      PROVE  pending'[d] = <<>> /\ dispatched'[d] = <<>> /\ done'[d] = <<>>
  <2>1. CASE Open(c)
    BY <1>2, <2>1 DEF Open, TypeOK
  <2>2. CASE Close(c) \/ ReleaseHandle(c)
    BY <1>2, <2>2 DEF Close, ReleaseHandle, lists, TypeOK
  <2>3. CASE ReleaseDone(c)
    BY <1>2, <2>3 DEF ReleaseDone, TypeOK
  <2>4. ASSUME NEW l \in [Ctx -> Seq(Tx)], l[c] # <<>>, NotifyClosed(c, Head(l[c])),
               life[d] = "closed"
        PROVE  done'[d] = done[d]
    <3>1. Head(l[c]).caller \in Ctx
      <4>1. Head(l[c]) \in Tx
        BY <2>4, TailType
      <4> QED BY <4>1 DEF Tx
    <3> QED BY <1>3, <2>4, <3>1 DEF NotifyClosed
  <2>5. CASE ReleasePending(c)
    <3>1. life[d] = "closed" /\ d # c /\ pending \in [Ctx -> Seq(Tx)]
      BY <2>5 DEF ReleasePending, TypeOK
    <3>2. done'[d] = done[d]
      BY <2>4, <2>5, <3>1 DEF ReleasePending
    <3> QED BY <1>2, <2>5, <3>1, <3>2 DEF ReleasePending
  <2>6. CASE ReleaseDispatched(c) /\ dispatched[c] # <<>>
    <3>1. life[d] = "closed" /\ d # c /\ dispatched \in [Ctx -> Seq(Tx)]
      BY <2>6 DEF ReleaseDispatched, TypeOK
    <3>2. done'[d] = done[d]
      BY <2>4, <2>6, <3>1 DEF ReleaseDispatched
    <3> QED BY <1>2, <2>6, <3>1, <3>2 DEF ReleaseDispatched
  <2>7. CASE ReleaseDispatched(c) /\ dispatched[c] = <<>>
    BY <1>2, <2>7 DEF ReleaseDispatched, TypeOK
  <2>8. CASE ReleaseWake(c)
    BY <1>2, <2>8 DEF ReleaseWake, lists
  <2> QED BY <1>6, <2>1, <2>2, <2>3, <2>5, <2>6, <2>7, <2>8 DEF Release
<1>7. CASE UNCHANGED vars
  BY <1>2, <1>7 DEF vars, lists
<1> QED BY <1>4, <1>5, <1>6, <1>7 DEF Next

\* A file's counter goes up, or the address gets a new file.
LEMMA CountersStep ==
  ASSUME TypeOK, [Next]_vars, NEW c \in Ctx
  PROVE  \/ gen'[c] = gen[c] + 1
         \/ gen'[c] = gen[c] /\ txCounter'[c] \in {txCounter[c], txCounter[c] + 1}
<1> USE DEF TypeOK
<1>1. ASSUME NEW t \in Thread, NEW h \in UserHandle, Request(t, h)
      PROVE  gen' = gen /\ txCounter'[c] \in {txCounter[c], txCounter[c] + 1}
  BY <1>1 DEF Request
<1>2. ASSUME NEW t \in Thread, Begin(t) \/ Continue(t), ~\E h \in UserHandle : Request(t, h)
      PROVE  UNCHANGED <<gen, txCounter>>
  BY <1>2 DEF Begin, Register, Unregister, Reply, Event, Read, ReadInterrupt,
     Continue, RegisterRole, RegisterHandle, UnregisterEntry, UnregisterRole,
     RequestAppend, RequestWake, ReplyAnswer, ReplyWake, EventDeliver, EventWake,
     EventUnlink, ReadCheck, ReadAgain, ReadRequest, ReadDispatch, ReadDone
<1>3. ASSUME NEW d \in Ctx, Open(d)
      PROVE  \/ gen'[c] = gen[c] + 1
             \/ gen'[c] = gen[c] /\ txCounter'[c] = txCounter[c]
  BY <1>3 DEF Open
<1>4. ASSUME NEW d \in Ctx, Close(d) \/ Release(d) PROVE UNCHANGED <<gen, txCounter>>
  BY <1>4 DEF Close, Release, ReleaseHandle, ReleaseDone, ReleasePending, ReleaseDispatched,
     ReleaseWake
<1>5. CASE UNCHANGED vars
  BY <1>5 DEF vars
<1> QED BY <1>1, <1>2, <1>3, <1>4, <1>5 DEF Next

LEMMA NumberedStep ==
  ASSUME TypeOK, TypeOK', Numbered, HeldOnce, [Next]_vars, RequestStep
  PROVE  Numbered'
<1> SUFFICES ASSUME NEW y \in Tx, fate'[y] # "none"
             PROVE  \/ y.gen < gen'[y.caller]
                    \/ y.gen = gen'[y.caller] /\ y.id <= txCounter'[y.caller]
  BY DEF Numbered
<1>1. y.caller \in Ctx /\ y.gen \in Nat /\ y.id \in Nat
  BY ConstantsAssumption DEF Tx, TxId
<1> DEFINE c == y.caller
<1>2. gen[c] \in Nat /\ txCounter[c] \in Nat /\ gen'[c] \in Nat /\ txCounter'[c] \in Nat
  BY <1>1, ConstantsAssumption DEF TypeOK
<1>3. CASE fate[y] # "none"
  <2>1. y.gen < gen[c] \/ (y.gen = gen[c] /\ y.id <= txCounter[c])
    BY <1>3 DEF Numbered
  <2>2. \/ gen'[c] = gen[c] + 1
        \/ gen'[c] = gen[c] /\ txCounter'[c] \in {txCounter[c], txCounter[c] + 1}
    BY <1>1, CountersStep
  <2> QED BY <1>1, <1>2, <2>1, <2>2
<1>4. CASE fate[y] = "none"
  <2>1. \A p \in Place : ~Has(p, y)
    BY <1>4 DEF HeldOnce
  <2>2. ~Moved({}, Nowhere)
    BY <1>4 DEF Moved
  <2>3. \A X, from, q, f : ~Effect(X, from, q, f)
    BY <1>4, <2>1 DEF Effect, Moved
  <2>4. \E x \in Tx : \E q, f : Submitted(x, q, f)
    BY <2>2, <2>3 DEF RequestStep
  <2>5. \A x \in Tx : \A q, f : Submitted(x, q, f) => x = y
    BY <1>4 DEF Submitted, Moved
  <2> QED BY <1>1, <1>2, <2>4, <2>5 DEF Submitted
<1> QED BY <1>3, <1>4

LEMMA StepHeld ==
  ASSUME HeldOnce, RequestStep
  PROVE  HeldOnce'
<1>1. \A X, q : Moved(X, q) => HeldOnce'
  BY MovedHeld
<1>2. \A X, from, q, f : Effect(X, from, q, f) => HeldOnce'
  BY <1>1 DEF Effect
<1>3. \A x, q, f : Submitted(x, q, f) => HeldOnce'
  BY <1>1 DEF Submitted
<1> QED BY <1>1, <1>2, <1>3 DEF RequestStep

LEMMA RequestInvInit ==
  ASSUME Init
  PROVE  RequestInv
<1>1. CallsAreOpen /\ ClosedAreEmpty /\ Numbered
  BY DEF Init, CallsAreOpen, ClosedAreEmpty, Numbered
<1>2. Distinct
  BY NoElements DEF Init, Distinct
<1>3. ASSUME NEW r \in Place, NEW x \in Tx PROVE ~Has(r, x)
  <2>1. \A t \in Thread, k \in HandKind : ~Carries(call[t], k, x)
    BY DEF Init, Carries, Idle, HandKind
  <2>2. \A c \in Ctx : /\ Elements(pending[c]) = {} /\ Elements(dispatched[c]) = {}
                       /\ \A k : ~AnswerIn(done[c], k, x)
    <3>1. \A c \in Ctx : pending[c] = <<>> /\ dispatched[c] = <<>> /\ done[c] = <<>>
      BY DEF Init
    <3> QED BY <3>1, NoElements
  <2>3. CASE \E c \in Ctx : r = <<"pending", c>> \/ r = <<"dispatched", c>>
    BY <2>2, <2>3, HasKinds, ZenonT(30)
  <2>4. CASE \E c \in Ctx, k \in AnswerKind : r = <<k, c>>
    BY <2>2, <2>4, HasKinds
  <2>5. CASE \E t \in Thread, k \in HandKind : r = <<k, t>>
    BY <2>1, <2>5, HasKinds
  <2> QED BY <2>3, <2>4, <2>5, PlaceKinds
<1>4. HeldOnce
  BY <1>3 DEF Init, HeldOnce
<1> QED BY <1>1, <1>2, <1>4 DEF RequestInv

LEMMA RequestInvStep ==
  ASSUME TypeOK, Opened, RequestInv, [Next]_vars
  PROVE  RequestInv'
<1>0. TypeOK'
  BY TypeStep
<1>1. RequestStep /\ Distinct'
  BY <1>0, EveryStepMoves DEF RequestOK
<1>2. CallsAreOpen' /\ ClosedAreEmpty'
  BY <1>0, CallsAreOpenStep, ClosedAreEmptyStep DEF RequestInv
<1>3. Numbered' /\ HeldOnce'
  BY <1>0, <1>1, NumberedStep, StepHeld DEF RequestInv
<1> QED BY <1>1, <1>2, <1>3 DEF RequestInv

LEMMA RequestInvariant == Spec => [](TypeOK /\ Opened /\ RequestInv)
<1>1. Init => RequestInv
  BY RequestInvInit
<1>2. TypeOK /\ Opened /\ RequestInv /\ [Next]_vars => RequestInv'
  BY RequestInvStep
<1> QED BY <1>1, <1>2, TypeAndOpened, PTL DEF Spec

-----------------------------------------------------------------------------
(* OneHolder.                                                              *)

\* Holders names the position in a list, or the thread, by which a place has x.
LEMMA HolderKinds ==
  ASSUME TypeOK, NEW x \in Tx, NEW h
  PROVE  h \in Holders(x) <=>
           \/ \E c \in Ctx : \E i \in 1 .. Len(pending[c]) :
                 h = <<c, "pending", i>> /\ pending[c][i] = x
           \/ \E c \in Ctx : \E i \in 1 .. Len(dispatched[c]) :
                 h = <<c, "dispatched", i>> /\ dispatched[c][i] = x
           \/ \E c \in Ctx : \E i \in 1 .. Len(done[c]) :
                 h = <<c, "done", i>> /\ done[c][i].kind # "event" /\ done[c][i].tx = x
           \/ h \in Thread /\ \E k \in HandKind : Carries(call[h], k, x)
<1>1. \A c \in Ctx : /\ DOMAIN pending[c] = 1 .. Len(pending[c])
                     /\ DOMAIN dispatched[c] = 1 .. Len(dispatched[c])
                     /\ DOMAIN done[c] = 1 .. Len(done[c])
  <2> SUFFICES ASSUME NEW c \in Ctx
               PROVE  /\ DOMAIN pending[c] = 1 .. Len(pending[c])
                      /\ DOMAIN dispatched[c] = 1 .. Len(dispatched[c])
                      /\ DOMAIN done[c] = 1 .. Len(done[c])
    OBVIOUS
  <2>1. pending[c] \in Seq(Tx) /\ dispatched[c] \in Seq(Tx) /\ done[c] \in Seq(Entry)
    BY DEF TypeOK
  <2> QED BY <2>1, LenProperties
<1>2. \A t \in Thread : x \in InHand(t) <=> \E k \in HandKind : Carries(call[t], k, x)
  BY DEF InHand, HandKind, Carries
<1> DEFINE P(c) == {<<c, "pending", i>> : i \in {j \in DOMAIN pending[c] : pending[c][j] = x}}
           D(c) == {<<c, "dispatched", i>> : i \in {j \in DOMAIN dispatched[c] : dispatched[c][j] = x}}
           A(c) == {<<c, "done", i>> : i \in {j \in DOMAIN done[c] :
                                        done[c][j].kind # "event" /\ done[c][j].tx = x}}
           H    == {t \in Thread : x \in InHand(t)}
<1>3. Holders(x) = (UNION {P(c) \cup D(c) \cup A(c) : c \in Ctx}) \cup H
  BY DEF Holders
<1>4. \A c \in Ctx : h \in P(c) <=> \E i \in 1 .. Len(pending[c]) :
                        h = <<c, "pending", i>> /\ pending[c][i] = x
  BY <1>1
<1>5. \A c \in Ctx : h \in D(c) <=> \E i \in 1 .. Len(dispatched[c]) :
                        h = <<c, "dispatched", i>> /\ dispatched[c][i] = x
  BY <1>1
<1>6. \A c \in Ctx : h \in A(c) <=> \E i \in 1 .. Len(done[c]) :
                        h = <<c, "done", i>> /\ done[c][i].kind # "event" /\ done[c][i].tx = x
  BY <1>1
<1>7. h \in H <=> h \in Thread /\ \E k \in HandKind : Carries(call[h], k, x)
  BY <1>2
<1> HIDE DEF P, D, A, H
<1>8. h \in Holders(x) <=> (\E c \in Ctx : h \in P(c) \/ h \in D(c) \/ h \in A(c)) \/ h \in H
  <2> DEFINE S(c) == P(c) \cup D(c) \cup A(c)
  <2>1. \A c : h \in S(c) <=> h \in P(c) \/ h \in D(c) \/ h \in A(c)
    OBVIOUS
  <2>2. Holders(x) = (UNION {S(c) : c \in Ctx}) \cup H
    BY <1>3
  <2> HIDE DEF S
  <2>3. h \in (UNION {S(c) : c \in Ctx}) <=> \E c \in Ctx : h \in S(c)
    OBVIOUS
  <2> DEFINE U == UNION {S(c) : c \in Ctx}
  <2>4. h \in Holders(x) <=> h \in U \/ h \in H
    <3> HIDE DEF U
    <3>1. Holders(x) = U \cup H
      BY <2>2 DEF U
    <3> QED BY <3>1
  <2> QED BY <2>1, <2>3, <2>4
<1> QED BY <1>4, <1>5, <1>6, <1>7, <1>8

\* A holder is a way in which a place has x, and there is one for each place.
LEMMA HolderOfPlace ==
  ASSUME TypeOK, Distinct, HeldOnce, NEW x \in Tx, NEW p \in Place, Has(p, x)
  PROVE  \E g : Holders(x) = {g}
<1>1. \A r \in Place : Has(r, x) => r = p
  BY HeldIsLive
<1>2. ASSUME NEW c \in Ctx, NEW i \in 1 .. Len(pending[c]), pending[c][i] = x
      PROVE  p = <<"pending", c>>
  <2>1. x \in Elements(pending[c])
    BY <1>2 DEF Elements
  <2> QED BY <1>1, <2>1, PlaceKinds, HasKinds
<1>3. ASSUME NEW c \in Ctx, NEW i \in 1 .. Len(dispatched[c]), dispatched[c][i] = x
      PROVE  p = <<"dispatched", c>>
  <2>1. x \in Elements(dispatched[c])
    BY <1>3 DEF Elements
  <2> QED BY <1>1, <2>1, PlaceKinds, HasKinds
<1>4. ASSUME NEW c \in Ctx, NEW i \in 1 .. Len(done[c]),
             done[c][i].kind # "event", done[c][i].tx = x
      PROVE  \E k \in AnswerKind : p = <<k, c>>
  <2>1. done[c] \in Seq(Entry)
    BY DEF TypeOK
  <2>2. done[c][i] \in Entry
    BY <2>1, ElementOfSeq
  <2>3. done[c][i].kind \in AnswerKind /\ AnswerIn(done[c], done[c][i].kind, x)
    BY <1>4, <2>2, EntryKind DEF AnswerIn
  <2> QED BY <1>1, <2>3, PlaceKinds, HasKinds
<1>5. ASSUME NEW t \in Thread, NEW k \in HandKind, Carries(call[t], k, x)
      PROVE  p = <<k, t>>
  BY <1>1, <1>5, PlaceKinds, HasKinds
<1>6. CASE \E c \in Ctx : p = <<"pending", c>>
  <2>1. PICK c \in Ctx : p = <<"pending", c>>
    BY <1>6
  <2>2. PICK i \in 1 .. Len(pending[c]) : pending[c][i] = x
    BY <2>1, HasKinds DEF Elements
  <2>3. ASSUME NEW h, h \in Holders(x) PROVE h = <<c, "pending", i>>
    <3>1. CASE \E d \in Ctx : \E j \in 1 .. Len(pending[d]) :
                  h = <<d, "pending", j>> /\ pending[d][j] = x
      BY <1>2, <2>1, <2>2, <3>1 DEF Distinct, NoDup
    <3> QED BY <1>3, <1>4, <1>5, <2>1, <2>3, <3>1, HolderKinds, KindFacts
  <2>4. <<c, "pending", i>> \in Holders(x)
    BY <2>2, HolderKinds
  <2> QED BY <2>3, <2>4
<1>7. CASE \E c \in Ctx : p = <<"dispatched", c>>
  <2>1. PICK c \in Ctx : p = <<"dispatched", c>>
    BY <1>7
  <2>2. PICK i \in 1 .. Len(dispatched[c]) : dispatched[c][i] = x
    BY <2>1, HasKinds DEF Elements
  <2>3. ASSUME NEW h, h \in Holders(x) PROVE h = <<c, "dispatched", i>>
    <3>1. CASE \E d \in Ctx : \E j \in 1 .. Len(dispatched[d]) :
                  h = <<d, "dispatched", j>> /\ dispatched[d][j] = x
      BY <1>3, <2>1, <2>2, <3>1 DEF Distinct, NoDup
    <3> QED BY <1>2, <1>4, <1>5, <2>1, <2>3, <3>1, HolderKinds, KindFacts, SMTT(20)
  <2>4. <<c, "dispatched", i>> \in Holders(x)
    BY <2>2, HolderKinds
  <2> QED BY <2>3, <2>4
<1>8. CASE \E c \in Ctx, k \in AnswerKind : p = <<k, c>>
  <2>1. PICK c \in Ctx, k \in AnswerKind : p = <<k, c>>
    BY <1>8
  <2>2. PICK i \in 1 .. Len(done[c]) : done[c][i].kind = k /\ done[c][i].tx = x
    BY <2>1, HasKinds, ZenonT(30) DEF AnswerIn
  <2>3. k # "event"
    BY DEF AnswerKind
  <2>4. ASSUME NEW h, h \in Holders(x) PROVE h = <<c, "done", i>>
    <3>1. CASE \E d \in Ctx : \E j \in 1 .. Len(done[d]) :
                  h = <<d, "done", j>> /\ done[d][j].kind # "event" /\ done[d][j].tx = x
      <4>0. PICK d \in Ctx : \E j \in 1 .. Len(done[d]) :
                  h = <<d, "done", j>> /\ done[d][j].kind # "event" /\ done[d][j].tx = x
        BY <3>1
      <4>1. PICK j \in 1 .. Len(done[d]) :
                  h = <<d, "done", j>> /\ done[d][j].kind # "event" /\ done[d][j].tx = x
        BY <4>0
      <4>2. d = c
        BY <1>4, <2>1, <4>1
      <4> QED BY <2>2, <2>3, <4>1, <4>2 DEF Distinct, OneAnswer
    <3> QED BY <1>2, <1>3, <1>5, <2>1, <2>4, <3>1, HolderKinds, KindFacts
  <2>5. <<c, "done", i>> \in Holders(x)
    BY <2>2, <2>3, HolderKinds
  <2> QED BY <2>4, <2>5
<1>9. CASE \E t \in Thread, k \in HandKind : p = <<k, t>>
  <2>1. PICK t \in Thread, k \in HandKind : p = <<k, t>>
    BY <1>9
  <2>2. ASSUME NEW h, h \in Holders(x) PROVE h = t
    BY <1>2, <1>3, <1>4, <1>5, <2>1, <2>2, HolderKinds, KindFacts
  <2>3. t \in Holders(x)
    BY <2>1, HolderKinds, HasKinds
  <2> QED BY <2>2, <2>3
<1> QED BY <1>6, <1>7, <1>8, <1>9, PlaceKinds

\* A transaction is on one list, once, or in the hands of one thread, as long
\* as it is answerable, and nowhere after it was freed: no interleaving of
\* write(), read() and release() links a node twice or loses one.
THEOREM OneHolderHolds == Spec => []OneHolder
<1>1. TypeOK /\ RequestInv => OneHolder
  <2> SUFFICES ASSUME TypeOK, RequestInv, NEW x \in Tx
               PROVE  Cardinality(Holders(x)) = IF fate[x] = "live" THEN 1 ELSE 0
    BY DEF OneHolder
  <2> USE DEF RequestInv
  <2>1. CASE fate[x] = "live"
    <3>1. PICK p \in Place : Has(p, x)
      BY <2>1 DEF HeldOnce
    <3>2. PICK g : Holders(x) = {g}
      BY <3>1, HolderOfPlace
    <3> QED BY <2>1, <3>2, FS_Singleton
  <2>2. CASE fate[x] # "live"
    <3>1. \A r \in Place : ~Has(r, x)
      BY <2>2 DEF HeldOnce
    <3>2. ASSUME NEW h, h \in Holders(x) PROVE FALSE
      <4>0. \A c \in Ctx : x \notin Elements(pending[c]) /\ x \notin Elements(dispatched[c])
        BY <3>1, PlaceKinds, HasKinds
      <4>1. \A c \in Ctx : \A i \in 1 .. Len(pending[c]) : pending[c][i] # x
        BY <4>0 DEF Elements
      <4>2. \A c \in Ctx : \A i \in 1 .. Len(dispatched[c]) : dispatched[c][i] # x
        BY <4>0 DEF Elements
      <4>3. ASSUME NEW c \in Ctx, NEW i \in 1 .. Len(done[c]),
                   done[c][i].kind # "event", done[c][i].tx = x
            PROVE  FALSE
        <5>1. done[c] \in Seq(Entry)
          BY DEF TypeOK
        <5>2. done[c][i].kind \in AnswerKind
          BY <4>3, <5>1, ElementOfSeq, EntryKind
        <5>3. AnswerIn(done[c], done[c][i].kind, x)
          BY <4>3 DEF AnswerIn
        <5> QED BY <3>1, <5>2, <5>3, PlaceKinds, HasKinds
      <4>4. \A t \in Thread, k \in HandKind : ~Carries(call[t], k, x)
        BY <3>1, PlaceKinds, HasKinds
      <4> QED BY <3>2, <4>1, <4>2, <4>3, <4>4, HolderKinds
    <3>3. Holders(x) = {}
      BY <3>2
    <3> QED BY <2>2, <3>3, FS_EmptySet
  <2> QED BY <2>1, <2>2
<1> QED BY <1>1, RequestInvariant, PTL

-----------------------------------------------------------------------------
(* The driver implements RpcService.  The status of a request is the kind   *)
(* of place that holds it.                                                  *)

KindStatus(k) ==
    IF k \in {"pending", "append"} THEN "queued"
    ELSE IF k = "reply" THEN "replied"
    ELSE IF k = "nodev" THEN "unserved"
    ELSE "serving"

StatusRight ==
    \A x \in Tx :
        /\ fate[x] # "live" => StatusOf(x) = fate[x]
        /\ \A p \in Place : Has(p, x) => StatusOf(x) = KindStatus(p[1])

LEMMA StatusIsRight == TypeOK /\ HeldOnce => StatusRight
<1> SUFFICES ASSUME TypeOK, HeldOnce, NEW x \in Tx
             PROVE  /\ fate[x] # "live" => StatusOf(x) = fate[x]
                    /\ \A p \in Place : Has(p, x) => StatusOf(x) = KindStatus(p[1])
  BY DEF StatusRight
<1>1. ASSUME NEW c \in Ctx, NEW k \in AnswerKind
      PROVE  [kind |-> k, tx |-> x] \in Elements(done[c]) <=> Has(<<k, c>>, x)
  <2>1. done[c] \in Seq(Entry)
    BY DEF TypeOK
  <2>2. [kind |-> k, tx |-> x] \in Elements(done[c]) <=> AnswerIn(done[c], k, x)
    BY <2>1, AnsweredIn
  <2> QED BY <2>2, HasKinds
<1>2. ASSUME NEW p \in Place, Has(p, x) PROVE StatusOf(x) = KindStatus(p[1])
  <2>1. fate[x] = "live" /\ \A r \in Place : Has(r, x) <=> r = p
    BY <1>2, HeldIsLive
  <2>2. ASSUME NEW k, NEW S, \A a \in S : <<k, a>> \in Place,
               p[1] = k => \E a \in S : p = <<k, a>>
        PROVE  (\E a \in S : Has(<<k, a>>, x)) <=> p[1] = k
    <3>1. \A a \in S : Has(<<k, a>>, x) <=> <<k, a>> = p
      BY <2>1, <2>2
    <3>2. \A a : <<k, a>>[1] = k
      OBVIOUS
    <3>3. ASSUME NEW a \in S, <<k, a>> = p PROVE p[1] = k
      BY <3>2, <3>3
    <3> QED BY <2>2, <3>1, <3>3
  <2>3. /\ p[1] = "pending" => \E c \in Ctx : p = <<"pending", c>>
        /\ p[1] = "append" => \E t \in Thread : p = <<"append", t>>
        /\ p[1] = "reply" => \E c \in Ctx : p = <<"reply", c>>
        /\ p[1] = "nodev" => \E c \in Ctx : p = <<"nodev", c>>
    BY PlaceKinds, KindFacts DEF AnswerKind, HandKind
  <2>4. /\ \A c \in Ctx : <<"pending", c>> \in Place
        /\ \A t \in Thread : <<"append", t>> \in Place
        /\ \A c \in Ctx : <<"reply", c>> \in Place /\ <<"nodev", c>> \in Place
    BY PlaceKinds, KindFacts
  <2>5. (\E s \in Ctx : x \in Elements(pending[s])) <=> p[1] = "pending"
    <3>1. (\E s \in Ctx : Has(<<"pending", s>>, x)) <=> p[1] = "pending"
      BY <2>2, <2>3, <2>4
    <3> QED BY <3>1, HasKinds
  <2>6. (\E t \in Thread : call[t].at = "append" /\ call[t].tx = x) <=> p[1] = "append"
    <3>1. (\E t \in Thread : Has(<<"append", t>>, x)) <=> p[1] = "append"
      BY <2>2, <2>3, <2>4
    <3>2. \A t \in Thread : Has(<<"append", t>>, x) <=> call[t].at = "append" /\ call[t].tx = x
      BY HasKinds, KindFacts DEF Carries
    <3> QED BY <3>1, <3>2
  <2>7. (\E c \in Ctx : [kind |-> "reply", tx |-> x] \in Elements(done[c])) <=> p[1] = "reply"
    <3>1. (\E c \in Ctx : Has(<<"reply", c>>, x)) <=> p[1] = "reply"
      BY <2>2, <2>3, <2>4
    <3> QED BY <1>1, <3>1, KindFacts
  <2>8. (\E c \in Ctx : [kind |-> "nodev", tx |-> x] \in Elements(done[c])) <=> p[1] = "nodev"
    <3>1. (\E c \in Ctx : Has(<<"nodev", c>>, x)) <=> p[1] = "nodev"
      BY <2>2, <2>3, <2>4
    <3> QED BY <1>1, <3>1, KindFacts
  <2> QED BY <2>1, <2>5, <2>6, <2>7, <2>8 DEF StatusOf, KindStatus
<1>3. fate[x] # "live" => StatusOf(x) = fate[x]
  BY DEF StatusOf
<1> QED BY <1>2, <1>3

\* What a move does to the statuses.
LEMMA StatusMoves ==
  ASSUME HeldOnce, StatusRight, StatusRight', TypeOK, TypeOK',
         NEW X, NEW q, Moved(X, q)
  PROVE  \A x \in Tx :
            StatusOf(x)' = IF x \notin X THEN StatusOf(x)
                           ELSE IF q \in Place THEN KindStatus(q[1])
                           ELSE fate'[x]
<1> SUFFICES ASSUME NEW x \in Tx
             PROVE  StatusOf(x)' = IF x \notin X THEN StatusOf(x)
                                   ELSE IF q \in Place THEN KindStatus(q[1])
                                   ELSE fate'[x]
  OBVIOUS
<1>1. /\ fate'[x] # "live" => StatusOf(x)' = fate'[x]
      /\ \A p \in Place : Has(p, x)' => StatusOf(x)' = KindStatus(p[1])
  BY DEF StatusRight
<1>2. CASE x \in X /\ q \in Place
  <2>1. Has(q, x)'
    BY <1>2 DEF Moved
  <2> QED BY <1>1, <1>2, <2>1
<1>3. CASE x \in X /\ q \notin Place
  BY <1>1, <1>3 DEF Moved
<1>4. CASE x \notin X
  <2>1. fate'[x] = fate[x] /\ \A r \in Place : Has(r, x)' <=> Has(r, x)
    BY <1>4 DEF Moved
  <2>2. CASE fate[x] = "live"
    <3>1. PICK p \in Place : Has(p, x)
      BY <2>2 DEF HeldOnce
    <3> QED BY <1>1, <1>4, <2>1, <3>1 DEF StatusRight
  <2>3. CASE fate[x] # "live"
    BY <1>1, <1>4, <2>1, <2>3 DEF StatusRight
  <2> QED BY <2>2, <2>3
<1> QED BY <1>2, <1>3, <1>4

-----------------------------------------------------------------------------
(* The steps of the service.                                                *)

status == [x \in Tx |-> StatusOf(x)]
FromStatus(from) == {KindStatus(k) : k \in from}

LEMMA EffectMoves ==
  ASSUME HeldOnce, StatusRight, StatusRight', TypeOK, TypeOK',
         NEW X, NEW from, NEW q, NEW f, Effect(X, from, q, f)
  PROVE  /\ \A x \in X : status[x] \in FromStatus(from)
         /\ status' = [x \in Tx |-> IF x \notin X THEN status[x]
                                    ELSE IF q \in Place THEN KindStatus(q[1]) ELSE f]
<1>1. \A x \in Tx : StatusOf(x)' = IF x \notin X THEN StatusOf(x)
                                   ELSE IF q \in Place THEN KindStatus(q[1]) ELSE fate'[x]
  BY StatusMoves DEF Effect
<1>2. ASSUME NEW x \in X PROVE status[x] \in FromStatus(from)
  <2>1. x \in Tx
    BY DEF Effect
  <2>2. PICK p \in Place : p[1] \in from /\ Has(p, x)
    BY DEF Effect
  <2> QED BY <2>1, <2>2 DEF StatusRight, status, FromStatus
<1>3. status' = [x \in Tx |-> StatusOf(x)']
  BY DEF status
<1> HIDE DEF status
<1>4. \A x \in X : fate'[x] = f
  BY DEF Effect
<1>5. \A x \in Tx : status[x] = StatusOf(x)
  BY DEF status
<1> QED BY <1>1, <1>2, <1>3, <1>4, <1>5

LEMMA ServiceStep ==
  ASSUME HeldOnce, StatusRight, StatusRight', TypeOK, TypeOK', RequestStep
  PROVE  [Rpc!Next]_status
<1> DEFINE To(X, st) == status' = [x \in Tx |-> IF x \in X THEN st ELSE status[x]]
<1>0. /\ \A t \in Thread, k \in HandKind : <<k, t>> \in Place
      /\ \A c \in Ctx : <<"pending", c>> \in Place /\ <<"dispatched", c>> \in Place
      /\ \A c \in Ctx : <<"reply", c>> \in Place /\ <<"nodev", c>> \in Place
      /\ Nowhere \notin Place
  BY PlaceKinds, KindFacts
<1>00. \A x \in Tx : x.caller \in Ctx
  BY DEF Tx
<1>1. ASSUME NEW X, NEW from, NEW k, NEW a, <<k, a>> \in Place, NEW f,
             Effect(X, from, <<k, a>>, f)
      PROVE  (\A x \in X : status[x] \in FromStatus(from)) /\ To(X, KindStatus(k))
  <2> DEFINE q == <<k, a>>
  <2>1. (\A x \in X : status[x] \in FromStatus(from))
         /\ status' = [x \in Tx |-> IF x \notin X THEN status[x]
                                    ELSE IF q \in Place THEN KindStatus(q[1]) ELSE f]
    BY <1>1, EffectMoves
  <2>2. q \in Place /\ q[1] = k
    BY <1>1
  <2> HIDE DEF status, q
  <2> QED BY <2>1, <2>2
<1>2. ASSUME NEW X, NEW from, NEW f, Effect(X, from, Nowhere, f)
      PROVE  (\A x \in X : status[x] \in FromStatus(from)) /\ To(X, f)
  <2>1. (\A x \in X : status[x] \in FromStatus(from))
         /\ status' = [x \in Tx |-> IF x \notin X THEN status[x]
                                    ELSE IF Nowhere \in Place
                                         THEN KindStatus(Nowhere[1]) ELSE f]
    BY <1>2, EffectMoves
  <2> HIDE DEF status
  <2> QED BY <1>0, <2>1
<1>3. ASSUME NEW x \in Tx, NEW st, To({x}, st)
      PROVE  /\ \A from : status[x] \in from => Rpc!Move(x, from, st)
             /\ status[x] = st => status' = status
  <2>1. status = [y \in Tx |-> status[y]]
    BY DEF status
  <2>2. status' = [status EXCEPT ![x] = st]
    <3> HIDE DEF status
    <3> QED BY <1>3, <2>1
  <2>3. status[x] = st => status' = status
    <3> HIDE DEF status
    <3> QED BY <2>1, <2>2
  <2> QED BY <2>2, <2>3 DEF Rpc!Move, status
<1>4. CASE Moved({}, Nowhere)
  <2>1. \A x \in Tx : StatusOf(x)' = StatusOf(x)
    BY <1>4, StatusMoves
  <2>2. status' = status
    BY <2>1 DEF status
  <2> QED BY <2>2
<1>5. ASSUME NEW x \in Tx, NEW q, NEW f, Submitted(x, q, f)
      PROVE  /\ status[x] = "none"
             /\ q = Nowhere => To({x}, f)
             /\ \A k, a : q = <<k, a>> /\ q \in Place => To({x}, KindStatus(k))
  <2>1. \A y \in Tx : StatusOf(y)' = IF y \notin {x} THEN StatusOf(y)
                                     ELSE IF q \in Place THEN KindStatus(q[1]) ELSE fate'[y]
    BY <1>5, StatusMoves DEF Submitted
  <2>2. status' = [y \in Tx |-> StatusOf(y)']
    BY DEF status
  <2>3. \A y \in Tx : status[y] = StatusOf(y)
    BY DEF status
  <2>4. status[x] = "none"
    BY <1>5, <2>3 DEF StatusRight, Submitted
  <2> HIDE DEF status
  <2>5. ASSUME NEW k, NEW a, q = <<k, a>>, q \in Place PROVE To({x}, KindStatus(k))
    <3>1. q[1] = k
      BY <2>5
    <3> QED BY <2>1, <2>2, <2>3, <2>5, <3>1
  <2>6. q = Nowhere => To({x}, f)
    BY <1>0, <1>5, <2>1, <2>2, <2>3 DEF Submitted
  <2> QED BY <2>4, <2>5, <2>6
<1>6. /\ KindStatus("append") = "queued"
      /\ KindStatus("pending") = "queued"
      /\ KindStatus("dispatch") = "serving"
      /\ KindStatus("dispatched") = "serving"
      /\ KindStatus("answer") = "serving"
      /\ KindStatus("reply") = "replied"
      /\ KindStatus("nodev") = "unserved"
      /\ FromStatus({"append"}) = {"queued"}
      /\ FromStatus({"pending"}) = {"queued"}
      /\ FromStatus({"dispatch"}) = {"serving"}
      /\ FromStatus({"dispatched"}) = {"serving"}
      /\ FromStatus({"answer"}) = {"serving"}
      /\ FromStatus({"pending", "dispatched"}) = {"queued", "serving"}
      /\ FromStatus(AnswerKind) = {"replied", "unserved"}
      /\ FromStatus({"append", "answer", "pending", "dispatched"}) = {"queued", "serving"}
      /\ FromStatus({"pending"} \cup AnswerKind) = {"queued", "replied", "unserved"}
  BY DEF KindStatus, FromStatus, AnswerKind
<1> HIDE DEF To
<1>7. ASSUME NEW x \in Tx, NEW t \in Thread, Submitted(x, <<"append", t>>, "live")
      PROVE  Rpc!Submit(x)
  <2>1. status[x] = "none" /\ To({x}, KindStatus("append"))
    BY <1>0, <1>5, <1>7, KindFacts
  <2> QED BY <1>3, <1>6, <2>1 DEF Rpc!Submit
<1>8. ASSUME NEW x \in Tx, Submitted(x, Nowhere, "refused")
      PROVE  Rpc!Refuse(x)
  BY <1>3, <1>5, <1>8 DEF Rpc!Refuse
<1>9. ASSUME NEW x \in Tx, NEW c \in Ctx, Effect({x}, {"append"}, <<"pending", c>>, "live")
      PROVE  status' = status
  <2>1. (\A y \in {x} : status[y] \in FromStatus({"append"})) /\ To({x}, KindStatus("pending"))
    BY <1>0, <1>1, <1>9, KindFacts
  <2> QED BY <1>3, <1>6, <2>1
<1>10. ASSUME NEW x \in Tx, NEW t \in Thread,
              Effect({x}, {"pending"}, <<"dispatch", t>>, "live")
       PROVE  Rpc!Take(x)
  <2>1. (\A y \in {x} : status[y] \in FromStatus({"pending"})) /\ To({x}, KindStatus("dispatch"))
    BY <1>0, <1>1, <1>10, KindFacts
  <2> QED BY <1>3, <1>6, <2>1 DEF Rpc!Take
<1>11. ASSUME NEW x \in Tx, NEW c \in Ctx,
              Effect({x}, {"dispatch"}, <<"dispatched", c>>, "live")
       PROVE  status' = status
  <2>1. (\A y \in {x} : status[y] \in FromStatus({"dispatch"})) /\ To({x}, KindStatus("dispatched"))
    BY <1>0, <1>1, <1>11, KindFacts
  <2> QED BY <1>3, <1>6, <2>1
<1>12. ASSUME NEW x \in Tx, NEW t \in Thread,
              Effect({x}, {"dispatched"}, <<"answer", t>>, "live")
       PROVE  status' = status
  <2>1. (\A y \in {x} : status[y] \in FromStatus({"dispatched"})) /\ To({x}, KindStatus("answer"))
    BY <1>0, <1>1, <1>12, KindFacts
  <2> QED BY <1>3, <1>6, <2>1
<1>13. ASSUME NEW x \in Tx, Effect({x}, {"answer"}, <<"reply", x.caller>>, "live")
       PROVE  Rpc!Reply(x)
  <2>1. (\A y \in {x} : status[y] \in FromStatus({"answer"})) /\ To({x}, KindStatus("reply"))
    BY <1>0, <1>00, <1>1, <1>13, KindFacts
  <2> QED BY <1>3, <1>6, <2>1 DEF Rpc!Reply
<1>14. ASSUME NEW x \in Tx,
              Effect({x}, {"pending", "dispatched"}, <<"nodev", x.caller>>, "live")
       PROVE  Rpc!ServerGone(x)
  <2>1. (\A y \in {x} : status[y] \in FromStatus({"pending", "dispatched"})) /\ To({x}, KindStatus("nodev"))
    BY <1>0, <1>00, <1>1, <1>14, KindFacts
  <2> QED BY <1>3, <1>6, <2>1 DEF Rpc!ServerGone
<1>15. ASSUME NEW x \in Tx, Effect({x}, {"dispatched"}, Nowhere, "calledBack")
       PROVE  Rpc!CallBack(x)
  BY <1>2, <1>3, <1>6, <1>15 DEF Rpc!CallBack
<1>16. ASSUME NEW x \in Tx, Effect({x}, AnswerKind, Nowhere, "delivered")
       PROVE  Rpc!Hand(x)
  BY <1>2, <1>3, <1>6, <1>16 DEF Rpc!Hand
<1>17. ASSUME NEW X \in SUBSET Tx, NEW from,
              FromStatus(from) \subseteq {"queued", "serving", "replied", "unserved"},
              Effect(X, from, Nowhere, "lost")
       PROVE  Rpc!Lose(X)
  BY <1>2, <1>17 DEF To, Rpc!Lose, Rpc!MoveAll, status
<1>18. ASSUME NEW X \in SUBSET Tx, Effect(X, AnswerKind, Nowhere, "abandoned")
       PROVE  Rpc!Abandon(X)
  BY <1>2, <1>6, <1>18 DEF To, Rpc!Abandon, Rpc!MoveAll, status
<1>19. ASSUME NEW x \in Tx,
              Effect({x}, {"append", "answer", "pending", "dispatched"}, Nowhere, "lost")
       PROVE  \E X \in SUBSET Tx : Rpc!Lose(X)
  BY <1>6, <1>17, <1>19
<1>20. ASSUME NEW X \in SUBSET Tx, Effect(X, {"pending"} \cup AnswerKind, Nowhere, "lost")
       PROVE  Rpc!Lose(X)
  BY <1>6, <1>17, <1>20
<1> HIDE DEF status
<1> QED
  BY <1>4, <1>7, <1>8, <1>9, <1>10, <1>11, <1>12, <1>13, <1>14, <1>15, <1>16, <1>18, <1>19, <1>20
  DEF RequestStep, Rpc!Next

\* Every step of write(), read() and release() is a step of the service, for
\* any number of files, threads and handles and whatever the programs do: a
\* request is taken once, answered once and after it was taken, and what is
\* refused or finished stays so.
THEOREM DriverServes == Spec => RpcSpec
<1>1. Init => Rpc!Init
  <2> SUFFICES ASSUME Init PROVE \A x \in Tx : StatusOf(x) = "none"
    BY DEF Rpc!Init
  <2> QED BY DEF Init, StatusOf
<1>2. TypeOK /\ Opened /\ RequestInv /\ (TypeOK /\ Opened /\ RequestInv)' /\ [Next]_vars
        => [Rpc!Next]_status
  <2> SUFFICES ASSUME TypeOK, Opened, RequestInv, TypeOK', RequestInv', [Next]_vars
               PROVE  [Rpc!Next]_status
    OBVIOUS
  <2>1. RequestStep
    BY EveryStepMoves DEF RequestOK
  <2>2. StatusRight
    BY StatusIsRight DEF RequestInv
  <2>3. (TypeOK /\ HeldOnce => StatusRight)'
    BY StatusIsRight, PTL
  <2>4. StatusRight'
    BY <2>3 DEF RequestInv
  <2> QED BY <2>1, <2>2, <2>4, ServiceStep DEF RequestInv
<1>3. status = [x \in Tx |-> StatusOf(x)]
  BY DEF status
<1> QED BY <1>1, <1>2, RequestInvariant, PTL DEF Spec, RpcSpec, Rpc!Spec, status

-----------------------------------------------------------------------------
(* No wake-up is missed.  Between the append and the wake-up somebody has   *)
(* the wake-up to do.                                                       *)

\* Somebody will wake the readers of c without going through a transaction, ...
Pledged(c) == \E u \in Thread : call[u].at \in {"wake", "wakeTarget"} /\ call[u].to = c

\* ... or those of the file that call[u].tx, or waking, has just answered.
PledgedFor(x) ==
    \/ \E u \in Thread : call[u].at = "wakeCaller" /\ call[u].tx = x
    \/ \E s \in Ctx : x \in waking[s]

\* What a sleeping read() waits for is not there, or is pledged a wake-up:
\* each answer its own one.
Covered(t) ==
    LET c == FdOf[t]
    IN  \/ Pledged(c)
        \/ IF call[t].on = "pending" THEN pending[c] = <<>>
           ELSE \A e \in Elements(done[c]) : e.kind # "event" /\ PledgedFor(e.tx)

WakesPledged == \A t \in Thread : call[t].at = "asleep" => Covered(t)

\* An answer is in the list of the file whose address it was sent to.
Home == \A c \in Ctx : \A e \in Elements(done[c]) : e.kind # "event" => e.tx.caller = c

\* Nobody falls asleep in wake_up_interruptible, and nobody of the file is
\* asleep after it.
LEMMA WakeUpWakes ==
  ASSUME NEW f, NEW c, NEW t \in Thread, WakeUp(f, c)[t].at = "asleep"
  PROVE  WakeUp(f, c)[t] = f[t] /\ FdOf[t] # c
BY DEF WakeUp

\* It leaves everybody else alone.
LEMMA WakeUpLeaves ==
  ASSUME NEW f, NEW c, NEW t \in Thread, f[t].at # "asleep"
  PROVE  WakeUp(f, c)[t] = f[t]
BY DEF WakeUp

\* list_del of the first entry leaves entries of the list.
LEMMA TailShrinks ==
  ASSUME NEW S, NEW s \in Seq(S), s # <<>>
  PROVE  Elements(Tail(s)) \subseteq Elements(s)
<1>1. /\ Len(s) \in Nat \ {0} /\ Len(Tail(s)) = Len(s) - 1
      /\ \A i \in 1 .. Len(Tail(s)) : Tail(s)[i] = s[i + 1]
  BY EmptySeq, HeadTailProperties
<1>2. \A i \in 1 .. Len(Tail(s)) : i + 1 \in 1 .. Len(s)
  BY <1>1
<1> QED BY <1>1, <1>2 DEF Elements

\* What an answer or an event adds to the done_lists.
LEMMA DeliverGains ==
  ASSUME TypeOK, NEW d \in Ctx, NEW e \in Entry, Deliver(d, e), NEW c \in Ctx
  PROVE  /\ c # d => done'[c] = done[c]
         /\ Elements(done'[c]) \subseteq Elements(done[c]) \cup {e}
<1>1. CASE life[d] = "closed" \/ c # d
  BY <1>1 DEF Deliver, AddTail, TypeOK
<1>2. CASE life[d] # "closed" /\ c = d
  <2>1. done'[c] = Append(done[c], e) /\ done[c] \in Seq(Entry)
    BY <1>2 DEF Deliver, AddTail, TypeOK
  <2> QED BY <1>2, <2>1, AppendElements
<1> QED BY <1>1, <1>2

\* A thread that has no wake-up to do goes on: the others keep theirs.
WakePlace == {"wake", "wakeTarget", "wakeCaller"}
LEMMA PledgesStay ==
  ASSUME NEW t \in Thread, call[t].at \notin WakePlace,
         \A u \in Thread : u # t => call'[u] = call[u],
         \A s \in Ctx : waking[s] \subseteq waking'[s]
  PROVE  /\ \A c : Pledged(c) => Pledged(c)'
         /\ \A x : PledgedFor(x) => PledgedFor(x)'
BY DEF WakePlace, Pledged, PledgedFor

\* A sleeper stays covered if what it waits for is not filled, or the filling
\* is pledged a wake-up.
LEMMA StaysCovered ==
  ASSUME NEW t \in Thread, Covered(t), call'[t] = call[t],
         Pledged(FdOf[t]) => Pledged(FdOf[t])',
         \/ Pledged(FdOf[t])'
         \/ /\ pending[FdOf[t]] = <<>> => pending'[FdOf[t]] = <<>>
            /\ \A e \in Elements(done'[FdOf[t]]) :
                  \/ e \in Elements(done[FdOf[t]]) /\ (PledgedFor(e.tx) => PledgedFor(e.tx)')
                  \/ e.kind # "event" /\ PledgedFor(e.tx)'
  PROVE  Covered(t)'
<1>1. CASE Pledged(FdOf[t])'
  BY <1>1 DEF Covered
<1>2. CASE ~Pledged(FdOf[t])'
  BY <1>2 DEF Covered
<1> QED BY <1>1, <1>2

\* A step of thread t that appends nothing: it goes on and wakes nobody.
LEMMA AsideCovers ==
  ASSUME TypeOK, WakesPledged, NEW t \in Thread, NEW r, Goto(t, r), r.at # "asleep",
         call[t].at \notin WakePlace, UNCHANGED waking,
         \A c \in Ctx : /\ pending[c] = <<>> => pending'[c] = <<>>
                        /\ Elements(done'[c]) \subseteq Elements(done[c])
  PROVE  WakesPledged'
<1> SUFFICES ASSUME NEW u \in Thread, call'[u].at = "asleep" PROVE Covered(u)'
  BY DEF WakesPledged
<1>1. call'[t] = r /\ \A v \in Thread : v # t => call'[v] = call[v]
  BY DEF Goto, TypeOK
<1>2. call'[u] = call[u] /\ Covered(u) /\ FdOf[u] \in Ctx
  BY <1>1, ConstantsAssumption DEF WakesPledged
<1>3. /\ \A c : Pledged(c) => Pledged(c)'
      /\ \A x : PledgedFor(x) => PledgedFor(x)'
  BY <1>1, PledgesStay
<1> QED BY <1>2, <1>3, StaysCovered

LEMMA BeginCovers ==
  ASSUME TypeOK, WakesPledged, NEW t \in Thread, Begin(t)
  PROVE  WakesPledged'
<1>1. UNCHANGED <<pending, done, waking>>
  BY DEF Begin, Register, Unregister, Request, Reply, Event, Read, ReadInterrupt, lists
<1>2. CASE UNCHANGED call
  BY <1>1, <1>2 DEF WakesPledged, Covered, Pledged, PledgedFor
<1>3. CASE call' # call
  <2> DEFINE Goes == \E r : Goto(t, r) /\ r.at # "asleep"
  <2>0. call[t] = Idle => call[t].at \notin WakePlace
    BY DEF Idle, WakePlace
  <2>1. ASSUME NEW h \in UserHandle, Register(t, h)
        PROVE  Goes /\ call[t].at \notin WakePlace
    BY <2>0, <2>1 DEF Register, CanCall
  <2>2. CASE Unregister(t)
    <3>1. Goes /\ call[t].at \notin WakePlace
      BY <2>0, <2>2 DEF Unregister, CanCall
    <3> QED BY <1>1, <3>1, AsideCovers
  <2>3. ASSUME NEW h \in UserHandle, Request(t, h)
        PROVE  Goes /\ call[t].at \notin WakePlace
    <3>1. \E x : Goto(t, [at |-> "append", tx |-> x, to |-> handles[h]])
      BY <1>3, <2>3 DEF Request
    <3>2. call[t] = Idle
      BY <2>3 DEF Request, CanCall
    <3> QED BY <2>0, <3>1, <3>2
  <2>4. ASSUME NEW id \in TxId, Reply(t, id)
        PROVE  Goes /\ call[t].at \notin WakePlace
    BY <2>0, <2>4 DEF Reply, CanCall
  <2>5. ASSUME NEW h \in UserHandle, NEW id \in TxId, Event(t, h, id)
        PROVE  Goes /\ call[t].at \notin WakePlace
    BY <2>0, <2>5 DEF Event, CanCall
  <2>6. CASE Read(t)
    <3>1. Goes /\ call[t].at \notin WakePlace
      BY <2>0, <2>6 DEF Read, CanCall
    <3> QED BY <1>1, <3>1, AsideCovers
  <2>7. CASE ReadInterrupt(t)
    <3>1. /\ Goto(t, Idle) /\ Idle.at # "asleep" /\ call[t].at \notin WakePlace
      BY <2>7 DEF ReadInterrupt, Return, Goto, Idle, WakePlace
    <3> QED BY <1>1, <3>1, AsideCovers
  <2>8. CASE Goes /\ call[t].at \notin WakePlace
    BY <1>1, <2>8, AsideCovers
  <2> HIDE DEF Goes
  <2> QED BY <2>1, <2>2, <2>3, <2>4, <2>5, <2>6, <2>7, <2>8 DEF Begin
<1> QED BY <1>2, <1>3

\* The test of wait_event_interruptible: who falls asleep found the list empty.
LEMMA CheckCovers ==
  ASSUME TypeOK, WakesPledged, NEW t \in Thread, ReadCheck(t)
  PROVE  WakesPledged'
<1> SUFFICES ASSUME NEW u \in Thread, call'[u].at = "asleep" PROVE Covered(u)'
  BY DEF WakesPledged
<1>1. /\ UNCHANGED <<pending, done, waking>>
      /\ call[t].at = "check"
      /\ \A v \in Thread : v # t => call'[v] = call[v]
      /\ call'[t] = [at |-> IF IsEmpty(FdOf[t], call[t].on) THEN "asleep" ELSE "pop",
                     on |-> call[t].on]
  BY DEF ReadCheck, Goto, lists, TypeOK
<1>2. CASE u = t
  <2>1. call'[t].on = call[t].on /\ IsEmpty(FdOf[t], call[t].on)
    BY <1>1, <1>2
  <2> QED BY <1>1, <1>2, <2>1, NoElements DEF IsEmpty, Covered
<1>3. CASE u # t
  <2>1. call'[u] = call[u] /\ Covered(u)
    BY <1>1, <1>3 DEF WakesPledged
  <2>2. /\ \A c : Pledged(c) => Pledged(c)'
        /\ \A x : PledgedFor(x) => PledgedFor(x)'
    BY <1>1, PledgesStay DEF WakePlace
  <2> QED BY <1>1, <2>1, <2>2, StaysCovered
<1> QED BY <1>2, <1>3

\* The three appends of write(): what they fill is pledged a wake-up.
LEMMA AppendCovers ==
  ASSUME TypeOK, WakesPledged, NEW t \in Thread,
         RequestAppend(t) \/ ReplyAnswer(t) \/ EventDeliver(t)
  PROVE  WakesPledged'
<1> SUFFICES ASSUME NEW u \in Thread, call'[u].at = "asleep" PROVE Covered(u)'
  BY DEF WakesPledged
<1> DEFINE c == FdOf[u]
<1>0. c \in Ctx
  BY ConstantsAssumption
<1>1. PICK r : Goto(t, r) /\ r.at # "asleep"
  BY DEF RequestAppend, ReplyAnswer, EventDeliver
<1>2. call'[t] = r /\ \A v \in Thread : v # t => call'[v] = call[v]
  BY <1>1 DEF Goto, TypeOK
<1>3. call'[u] = call[u] /\ Covered(u)
  BY <1>1, <1>2 DEF WakesPledged
<1>4. /\ \A d : Pledged(d) => Pledged(d)'
      /\ \A x : PledgedFor(x) => PledgedFor(x)'
  <2>1. call[t].at \notin WakePlace /\ UNCHANGED waking
    BY DEF RequestAppend, ReplyAnswer, EventDeliver, WakePlace
  <2> QED BY <1>2, <2>1, PledgesStay
<1>5. CASE RequestAppend(t)
  <2>1. call'[t] = [at |-> "wake", to |-> call[t].to] /\ done' = done
    BY <1>5 DEF RequestAppend, Goto, TypeOK
  <2>2. CASE call[t].to = c
    <3>1. Pledged(c)'
      BY <2>1, <2>2 DEF Pledged
    <3> QED BY <1>3, <3>1, StaysCovered
  <2>3. CASE call[t].to # c
    <3>1. pending'[c] = pending[c]
      BY <1>0, <1>5, <2>3 DEF RequestAppend, AddTail, TypeOK
    <3> QED BY <1>3, <1>4, <2>1, <3>1, StaysCovered
  <2> QED BY <2>2, <2>3
<1>6. CASE ReplyAnswer(t)
  <2>0. PICK x : x = call[t].tx
    OBVIOUS
  <2> DEFINE e == [kind |-> "reply", tx |-> x]
  <2>1. x \in Tx /\ x.caller \in Ctx
    BY <1>6, <2>0, CallLocals DEF ReplyAnswer, TypeOK, Tx
  <2>2. e \in Entry /\ e.kind # "event" /\ e.tx = x
    BY <2>1 DEF Entry
  <2>3. Deliver(x.caller, e) /\ pending' = pending
    BY <1>6, <2>0 DEF ReplyAnswer
  <2>4. call'[t] = [at |-> "wakeCaller", tx |-> x]
    BY <1>6, <2>0 DEF ReplyAnswer, Goto, TypeOK
  <2>5. PledgedFor(x)'
    BY <2>4 DEF PledgedFor
  <2> HIDE DEF e
  <2>6. Elements(done'[c]) \subseteq Elements(done[c]) \cup {e}
    BY <1>0, <2>1, <2>2, <2>3, DeliverGains
  <2>7. \A g \in Elements(done'[c]) :
           \/ g \in Elements(done[c]) /\ (PledgedFor(g.tx) => PledgedFor(g.tx)')
           \/ g.kind # "event" /\ PledgedFor(g.tx)'
    <3> SUFFICES ASSUME NEW g \in Elements(done'[c])
                 PROVE  \/ g \in Elements(done[c]) /\ (PledgedFor(g.tx) => PledgedFor(g.tx)')
                        \/ g.kind # "event" /\ PledgedFor(g.tx)'
      OBVIOUS
    <3>1. CASE g \in Elements(done[c])
      BY <1>4, <3>1
    <3>2. CASE g = e
      BY <2>2, <2>5, <3>2
    <3> QED BY <2>6, <3>1, <3>2
  <2>8. (Pledged(c) => Pledged(c)') /\ pending'[c] = pending[c]
    BY <1>4, <2>3
  <2> QED BY <1>3, <2>7, <2>8, StaysCovered
<1>7. CASE EventDeliver(t)
  <2>1. pending' = pending
    BY <1>7 DEF EventDeliver
  <2>2. CASE done'[c] = done[c]
    BY <1>3, <1>4, <2>1, <2>2, StaysCovered
  <2>3. CASE done'[c] # done[c]
    <3> DEFINE e == [kind |-> "event", id |-> call[t].id]
    <3>1. call[t].id \in TxId /\ call[t].to \in Ctx
      BY <1>7, CallLocals DEF EventDeliver, TypeOK
    <3>2. e \in Entry
      BY <3>1 DEF Entry
    <3>3. Deliver(call[t].to, e) /\ Goto(t, [at |-> "wakeTarget", id |-> call[t].id,
                                             to |-> call[t].to])
      BY <1>7, <2>3 DEF EventDeliver
    <3> HIDE DEF e
    <3>4. call[t].to = c
      BY <1>0, <2>3, <3>1, <3>2, <3>3, DeliverGains
    <3>5. Pledged(c)'
      BY <3>3, <3>4 DEF Pledged, Goto, TypeOK
    <3> QED BY <1>3, <3>5, StaysCovered
  <2> QED BY <2>2, <2>3
<1> QED BY <1>5, <1>6, <1>7

\* An answer in the list of a sleeper's file is live: a wake-up through its
\* transaction reaches the sleeper.
LEMMA WokenThroughLive ==
  ASSUME TypeOK, RequestInv, Home, NEW c \in Ctx, NEW e \in Elements(done[c]),
         e.kind # "event"
  PROVE  WokenThrough(e.tx) = {c}
<1>1. done[c] \in Seq(Entry)
  BY DEF TypeOK
<1>2. PICK i \in 1 .. Len(done[c]) : e = done[c][i]
  BY DEF Elements
<1>3. e \in Entry
  BY <1>1, <1>2, ElementOfSeq
<1>4. e.kind \in AnswerKind /\ e.tx \in Tx
  BY <1>3, EntryKind
<1>5. Has(<<e.kind, c>>, e.tx)
  BY <1>2, <1>4, HasKinds DEF AnswerIn
<1>6. fate[e.tx] = "live"
  BY <1>4, <1>5, PlaceKinds, HeldIsLive DEF RequestInv
<1> QED BY <1>6 DEF WokenThrough, Home

\* Thread t goes on at r, and has woken the readers of a.
Woken(t, r, a) == call' = WakeUp([call EXCEPT ![t] = r], a)

LEMMA WokenCalls ==
  ASSUME TypeOK, NEW t \in Thread, NEW r, NEW a, NEW u \in Thread,
         r.at # "asleep", Woken(t, r, a), call'[u].at = "asleep"
  PROVE  /\ call'[u] = call[u] /\ FdOf[u] # a
         /\ \A v \in Thread : v # t /\ call[v].at # "asleep" => call'[v] = call[v]
<1> DEFINE f == [call EXCEPT ![t] = r]
<1>1. f[t] = r /\ \A v \in Thread : v # t => f[v] = call[v]
  BY DEF TypeOK
<1>2. call' = WakeUp(f, a)
  BY DEF Woken
<1> HIDE DEF f
<1>3. call'[u] = f[u] /\ FdOf[u] # a
  BY <1>2, WakeUpWakes
<1>4. u # t
  BY <1>1, <1>3
<1>5. \A v \in Thread : f[v].at # "asleep" => call'[v] = f[v]
  BY <1>2, WakeUpLeaves
<1> QED BY <1>1, <1>3, <1>4, <1>5

\* The wake-ups.  Who still sleeps afterwards belongs to another file, and
\* what is on its list has other wake-ups to come.
LEMMA WakeCovers ==
  ASSUME TypeOK, RequestInv, Home, WakesPledged,
         \/ \E t \in Thread : RequestWake(t) \/ ReplyWake(t) \/ EventWake(t)
         \/ \E c \in Ctx : ReleaseWake(c)
  PROVE  WakesPledged'
<1> SUFFICES ASSUME NEW u \in Thread, call'[u].at = "asleep" PROVE Covered(u)'
  BY DEF WakesPledged
<1> DEFINE c == FdOf[u]
<1>0. c \in Ctx
  BY ConstantsAssumption
<1>1. UNCHANGED <<pending, done>>
  BY DEF RequestWake, ReplyWake, EventWake, ReleaseWake, lists
<1>3. ASSUME NEW t \in Thread, RequestWake(t) \/ EventWake(t) PROVE Covered(u)'
  <2>1. /\ call[t].at \in {"wake", "wakeTarget"} /\ UNCHANGED waking
        /\ \E r : r.at # "asleep" /\ Woken(t, r, call[t].to)
    <3>1. CASE RequestWake(t)
      BY <3>1 DEF RequestWake, Woken, Idle
    <3>2. CASE EventWake(t)
      BY <3>2 DEF EventWake, Woken
    <3> QED BY <1>3, <3>1, <3>2
  <2>2. PICK a, r : a = call[t].to /\ r.at # "asleep" /\ Woken(t, r, a)
    BY <2>1
  <2>3. /\ call'[u] = call[u] /\ c # a
        /\ \A v \in Thread : v # t /\ call[v].at # "asleep" => call'[v] = call[v]
    BY <2>2, WokenCalls
  <2>4. Covered(u)
    BY <2>3 DEF WakesPledged
  <2>5. Pledged(c) => Pledged(c)'
    BY <2>2, <2>3 DEF Pledged
  <2>6. \A x : PledgedFor(x) => PledgedFor(x)'
    BY <2>1, <2>3 DEF PledgedFor
  <2> QED BY <1>1, <2>3, <2>4, <2>5, <2>6, StaysCovered
<1>4. ASSUME NEW x, NEW a \in WokenThrough(x), c # a,
             call'[u] = call[u], Pledged(c) => Pledged(c)',
             \A y : y # x /\ PledgedFor(y) => PledgedFor(y)'
      PROVE  Covered(u)'
  <2>1. Covered(u)
    BY <1>4 DEF WakesPledged
  <2>2. ASSUME NEW e \in Elements(done[c]), e.kind # "event" PROVE e.tx # x
    BY <1>0, <1>4, <2>2, WokenThroughLive
  <2>3. CASE Pledged(c)'
    BY <2>3 DEF Covered
  <2>4. CASE ~Pledged(c)' /\ call[u].on = "pending"
    BY <1>1, <1>4, <2>1, <2>4 DEF Covered
  <2>5. CASE ~Pledged(c)' /\ call[u].on # "pending"
    <3>1. \A e \in Elements(done[c]) : e.kind # "event" /\ PledgedFor(e.tx)
      BY <1>4, <2>1, <2>5 DEF Covered
    <3>2. \A e \in Elements(done[c]) : e.kind # "event" /\ PledgedFor(e.tx)'
      BY <1>4, <2>2, <3>1
    <3> QED BY <1>1, <1>4, <2>5, <3>2 DEF Covered
  <2> QED BY <2>3, <2>4, <2>5
<1>5. ASSUME NEW t \in Thread, ReplyWake(t) PROVE Covered(u)'
  <2>1. PICK a \in WokenThrough(call[t].tx) : Woken(t, Idle, a)
    BY <1>5 DEF ReplyWake, Woken
  <2>2. call[t].at = "wakeCaller" /\ UNCHANGED waking /\ Idle.at # "asleep"
    BY <1>5 DEF ReplyWake, Idle
  <2>3. PICK x : x = call[t].tx
    OBVIOUS
  <2>4. /\ call'[u] = call[u] /\ c # a
        /\ \A v \in Thread : v # t /\ call[v].at # "asleep" => call'[v] = call[v]
    BY <2>1, <2>2, WokenCalls
  <2>5. Pledged(c) => Pledged(c)'
    BY <2>2, <2>4 DEF Pledged
  <2>6. \A y : y # x /\ PledgedFor(y) => PledgedFor(y)'
    BY <2>2, <2>3, <2>4 DEF PledgedFor
  <2> QED BY <1>4, <2>1, <2>3, <2>4, <2>5, <2>6
<1>6. ASSUME NEW s \in Ctx, ReleaseWake(s) PROVE Covered(u)'
  <2>1. PICK x \in waking[s] : /\ \E a \in WokenThrough(x) : call' = WakeUp(call, a)
                               /\ waking' = [waking EXCEPT ![s] = @ \ {x}]
    BY <1>6 DEF ReleaseWake
  <2>2. PICK a \in WokenThrough(x) : call' = WakeUp(call, a)
    BY <2>1
  <2>3. call'[u] = call[u] /\ c # a
    BY <2>2, WakeUpWakes
  <2>4. \A v \in Thread : call[v].at # "asleep" => call'[v] = call[v]
    BY <2>2, WakeUpLeaves
  <2>5. Pledged(c) => Pledged(c)'
    BY <2>4 DEF Pledged
  <2>6. \A y : y # x /\ PledgedFor(y) => PledgedFor(y)'
    BY <2>1, <2>4 DEF PledgedFor, TypeOK
  <2> QED BY <1>4, <2>2, <2>3, <2>5, <2>6
<1> QED BY <1>3, <1>5, <1>6

LEMMA ContinueCovers ==
  ASSUME TypeOK, RequestInv, Home, WakesPledged, NEW t \in Thread, Continue(t)
  PROVE  WakesPledged'
<1>1. CASE \/ RegisterRole(t) \/ RegisterHandle(t) \/ UnregisterEntry(t) \/ UnregisterRole(t)
           \/ EventUnlink(t) \/ ReadAgain(t) \/ ReadDispatch(t)
  <2>1. /\ UNCHANGED <<pending, done, waking>> /\ call[t].at \notin WakePlace
        /\ \E r : Goto(t, r) /\ r.at # "asleep"
    BY <1>1 DEF RegisterRole, RegisterHandle, UnregisterEntry, UnregisterRole, EventUnlink,
       ReadAgain, ReadDispatch, Return, Goto, Idle, WakePlace, lists
  <2> QED BY <2>1, AsideCovers
<1>2. CASE ReadRequest(t)
  <2>1. /\ UNCHANGED <<done, waking>> /\ call[t].at \notin WakePlace
        /\ Goto(t, [at |-> "dispatch", tx |-> Head(pending[FdOf[t]])])
        /\ \A c \in Ctx : pending[c] = <<>> => pending'[c] = <<>>
    BY <1>2 DEF ReadRequest, WakePlace, TypeOK
  <2>2. \E r : Goto(t, r) /\ r.at # "asleep"
    BY <2>1
  <2> QED BY <2>1, <2>2, AsideCovers
<1>3. CASE ReadDone(t)
  <2> DEFINE d == FdOf[t]
  <2>1. /\ UNCHANGED <<pending, waking>> /\ call[t].at \notin WakePlace
        /\ Goto(t, Idle) /\ Idle.at # "asleep"
    BY <1>3 DEF ReadDone, Return, Goto, Idle, WakePlace
  <2>2. /\ d \in Ctx /\ done[d] \in Seq(Entry) /\ done[d] # <<>>
        /\ done'[d] = Tail(done[d]) /\ \A c \in Ctx : c # d => done'[c] = done[c]
    BY <1>3, ConstantsAssumption DEF ReadDone, TypeOK
  <2>3. \A c \in Ctx : Elements(done'[c]) \subseteq Elements(done[c])
    BY <2>2, TailShrinks
  <2> QED BY <2>1, <2>3, AsideCovers
<1> QED BY <1>1, <1>2, <1>3, CheckCovers, AppendCovers, WakeCovers DEF Continue

\* The steps of open() and release() that wake nobody.
LEMMA FileCovers ==
  ASSUME TypeOK, WakesPledged, NEW c \in Ctx,
         Open(c) \/ Close(c) \/ (Release(c) /\ ~ReleaseWake(c))
  PROVE  WakesPledged'
<1> SUFFICES ASSUME NEW u \in Thread, call'[u].at = "asleep" PROVE Covered(u)'
  BY DEF WakesPledged
<1>0. FdOf[u] \in Ctx
  BY ConstantsAssumption
<1>1. call' = call
  BY DEF Open, Close, Release, ReleaseHandle, ReleaseDone, ReleasePending, ReleaseDispatched
<1>2. Covered(u)
  BY <1>1 DEF WakesPledged
<1>3. \A d : Pledged(d) => Pledged(d)'
  BY <1>1 DEF Pledged
<1>4. ASSUME UNCHANGED waking,
             \A d \in Ctx : /\ pending[d] = <<>> => pending'[d] = <<>>
                            /\ done'[d] = done[d] \/ done'[d] = <<>>
      PROVE  Covered(u)'
  <2>1. \A x : PledgedFor(x) => PledgedFor(x)'
    BY <1>1, <1>4 DEF PledgedFor
  <2>2. Elements(done'[FdOf[u]]) \subseteq Elements(done[FdOf[u]])
    BY <1>0, <1>4, NoElements
  <2> QED BY <1>0, <1>1, <1>2, <1>3, <1>4, <2>1, <2>2, StaysCovered
<1>5. ASSUME NEW x \in Tx, NotifyClosed(c, x), waking[c] = {},
             \A d \in Ctx : pending[d] = <<>> => pending'[d] = <<>>
      PROVE  Covered(u)'
  <2> DEFINE e == [kind |-> "nodev", tx |-> x]
  <2>1. e \in Entry /\ e.kind # "event" /\ e.tx = x /\ x.caller \in Ctx
    BY DEF Entry, Tx
  <2>2. Deliver(x.caller, e)
    BY <1>5 DEF NotifyClosed
  <2>3. x \in waking'[c] /\ \A s \in Ctx : waking[s] \subseteq waking'[s]
    BY <1>5 DEF NotifyClosed, TypeOK
  <2> HIDE DEF e
  <2>4. PledgedFor(x)' /\ \A y : PledgedFor(y) => PledgedFor(y)'
    BY <1>1, <2>3 DEF PledgedFor
  <2>5. Elements(done'[FdOf[u]]) \subseteq Elements(done[FdOf[u]]) \cup {e}
    BY <1>0, <2>1, <2>2, DeliverGains
  <2>6. \A g \in Elements(done'[FdOf[u]]) :
           \/ g \in Elements(done[FdOf[u]]) /\ (PledgedFor(g.tx) => PledgedFor(g.tx)')
           \/ g.kind # "event" /\ PledgedFor(g.tx)'
    BY <2>1, <2>4, <2>5
  <2> QED BY <1>0, <1>1, <1>2, <1>3, <1>5, <2>6, StaysCovered
<1>6. CASE Open(c) \/ Close(c) \/ ReleaseHandle(c) \/ ReleaseDone(c)
  BY <1>4, <1>6 DEF Open, Close, ReleaseHandle, ReleaseDone, lists, TypeOK
<1>7. CASE ReleasePending(c)
  <2>1. CASE UNCHANGED <<pending, done, waking, fate>>
    BY <1>4, <2>1
  <2>2. CASE /\ pending[c] # <<>> /\ NotifyClosed(c, Head(pending[c]))
             /\ pending' = [pending EXCEPT ![c] = Tail(@)]
    <3>1. PICK x : x = Head(pending[c])
      OBVIOUS
    <3>2. x \in Tx
      BY <2>2, <3>1, TailType DEF TypeOK
    <3>3. \A d \in Ctx : pending[d] = <<>> => pending'[d] = <<>>
      BY <2>2 DEF TypeOK
    <3>4. NotifyClosed(c, x) /\ waking[c] = {}
      BY <1>7, <2>2, <3>1 DEF ReleasePending
    <3> QED BY <1>5, <3>2, <3>3, <3>4
  <2> QED BY <1>7, <2>1, <2>2 DEF ReleasePending
<1>8. CASE ReleaseDispatched(c)
  <2>1. CASE /\ pending' = [pending EXCEPT ![c] = <<>>]
             /\ done' = [done EXCEPT ![c] = <<>>]
             /\ UNCHANGED <<dispatched, waking>>
    BY <1>4, <2>1 DEF TypeOK
  <2>2. CASE dispatched[c] # <<>> /\ NotifyClosed(c, Head(dispatched[c])) /\ UNCHANGED pending
    <3>1. PICK x : x = Head(dispatched[c])
      OBVIOUS
    <3>2. x \in Tx
      BY <2>2, <3>1, TailType DEF TypeOK
    <3>3. NotifyClosed(c, x) /\ waking[c] = {}
      BY <1>8, <2>2, <3>1 DEF ReleaseDispatched
    <3> QED BY <1>5, <2>2, <3>2, <3>3
  <2> QED BY <1>8, <2>1, <2>2 DEF ReleaseDispatched
<1> QED BY <1>6, <1>7, <1>8 DEF Release

\* Answers are sent to tx->caller, events are not answers.
LEMMA HomeStep ==
  ASSUME TypeOK, Home, [Next]_vars
  PROVE  Home'
<1> SUFFICES ASSUME NEW c \in Ctx, NEW e \in Elements(done'[c]), e.kind # "event"
             PROVE  e.tx.caller = c
  BY DEF Home
<1>1. e \in Elements(done[c]) => e.tx.caller = c
  BY DEF Home
<1>2. ASSUME NEW d \in Ctx, NEW g \in Entry, g.kind # "event" => g.tx.caller = d, Deliver(d, g)
      PROVE  e.tx.caller = c
  BY <1>1, <1>2, DeliverGains
<1>3. ASSUME NEW d \in Ctx, NEW x \in Tx, NotifyClosed(d, x) PROVE e.tx.caller = c
  <2> DEFINE g == [kind |-> "nodev", tx |-> x]
  <2>1. PICK a : a = x.caller
    OBVIOUS
  <2>2. g \in Entry /\ a \in Ctx /\ g.tx.caller = a /\ Deliver(a, g)
    BY <1>3, <2>1 DEF Entry, Tx, NotifyClosed
  <2> HIDE DEF g
  <2> QED BY <1>2, <2>2
<1>4. CASE done' = done
  BY <1>1, <1>4
<1>5. ASSUME NEW t \in Thread, Begin(t) PROVE done' = done
  BY <1>5 DEF Begin, Register, Unregister, Request, Reply, Event, Read, ReadInterrupt, lists
<1>6. ASSUME NEW t \in Thread, Continue(t) PROVE e.tx.caller = c
  <2>1. CASE ReplyAnswer(t)
    <3> DEFINE g == [kind |-> "reply", tx |-> call[t].tx]
    <3>1. PICK a : a = call[t].tx.caller
      OBVIOUS
    <3>2. g \in Entry /\ a \in Ctx /\ g.tx.caller = a
      BY <2>1, <3>1, CallLocals DEF ReplyAnswer, TypeOK, Entry, Tx
    <3>3. Deliver(a, g)
      BY <2>1, <3>1 DEF ReplyAnswer
    <3> HIDE DEF g
    <3> QED BY <1>2, <3>2, <3>3
  <2>2. CASE EventDeliver(t)
    <3> DEFINE g == [kind |-> "event", id |-> call[t].id]
    <3>1. PICK a : a = call[t].to
      OBVIOUS
    <3>2. g \in Entry /\ a \in Ctx /\ g.kind = "event"
      BY <2>2, <3>1, CallLocals DEF EventDeliver, TypeOK, Entry
    <3>3. Deliver(a, g) \/ done' = done
      BY <2>2, <3>1 DEF EventDeliver
    <3> HIDE DEF g
    <3> QED BY <1>2, <1>4, <3>2, <3>3
  <2>3. CASE ReadDone(t)
    <3>1. /\ FdOf[t] \in Ctx /\ done[FdOf[t]] \in Seq(Entry) /\ done[FdOf[t]] # <<>>
          /\ done' = [done EXCEPT ![FdOf[t]] = Tail(@)]
      BY <2>3, ConstantsAssumption DEF ReadDone, TypeOK
    <3>2. Elements(Tail(done[FdOf[t]])) \subseteq Elements(done[FdOf[t]])
      BY <3>1, TailShrinks
    <3>3. Elements(done'[c]) \subseteq Elements(done[c])
      BY <3>1, <3>2 DEF TypeOK
    <3> QED BY <1>1, <3>3
  <2>4. CASE ~ReplyAnswer(t) /\ ~EventDeliver(t) /\ ~ReadDone(t)
    <3>1. done' = done
      BY <1>6, <2>4 DEF Continue, RegisterRole, RegisterHandle, UnregisterEntry, UnregisterRole,
         RequestAppend, RequestWake, ReplyWake, EventWake, EventUnlink, ReadCheck, ReadAgain,
         ReadRequest, ReadDispatch, lists
    <3> QED BY <1>4, <3>1
  <2> QED BY <2>1, <2>2, <2>3, <2>4
<1>7. ASSUME NEW d \in Ctx, Open(d) \/ Close(d) \/ Release(d) PROVE e.tx.caller = c
  <2>1. CASE done' = [done EXCEPT ![d] = <<>>]
    <3>1. Elements(done'[c]) \subseteq Elements(done[c])
      BY <2>1, NoElements DEF TypeOK
    <3> QED BY <1>1, <3>1
  <2>2. ASSUME NEW l \in [Ctx -> Seq(Tx)], l[d] # <<>>, NotifyClosed(d, Head(l[d]))
        PROVE  e.tx.caller = c
    <3>1. PICK x : x = Head(l[d])
      OBVIOUS
    <3>2. x \in Tx
      BY <2>2, <3>1, TailType
    <3> QED BY <1>3, <2>2, <3>1, <3>2
  <2>3. pending \in [Ctx -> Seq(Tx)] /\ dispatched \in [Ctx -> Seq(Tx)]
    BY DEF TypeOK
  <2>4. CASE Open(d) \/ ReleaseDone(d)
    BY <2>1, <2>4 DEF Open, ReleaseDone
  <2>5. CASE Close(d) \/ ReleaseHandle(d) \/ ReleaseWake(d)
    BY <1>4, <2>5 DEF Close, ReleaseHandle, ReleaseWake, lists
  <2>6. CASE ReleasePending(d)
    BY <1>4, <2>2, <2>3, <2>6 DEF ReleasePending
  <2>7. CASE ReleaseDispatched(d)
    BY <2>1, <2>2, <2>3, <2>7 DEF ReleaseDispatched
  <2> QED BY <1>7, <2>4, <2>5, <2>6, <2>7 DEF Release
<1>8. CASE UNCHANGED vars
  BY <1>4, <1>8 DEF vars, lists
<1> QED BY <1>4, <1>5, <1>6, <1>7, <1>8 DEF Next

\* A read() that sleeps has nothing to read or is about to be woken, for any
\* number of readers and writers of a file, although every wake-up comes after
\* the unlock and may be done through a transaction another reader has freed.
THEOREM NoMissedWakeUpHolds == Spec => []NoMissedWakeUp
<1>1. Init => WakesPledged /\ Home
  <2> SUFFICES ASSUME Init PROVE WakesPledged /\ Home
    OBVIOUS
  <2>1. \A c \in Ctx : Elements(done[c]) = {}
    BY NoElements DEF Init
  <2> QED BY <2>1 DEF Init, WakesPledged, Home, Idle
<1>2. TypeOK /\ RequestInv /\ WakesPledged /\ Home /\ [Next]_vars => WakesPledged' /\ Home'
  <2> SUFFICES ASSUME TypeOK, RequestInv, WakesPledged, Home, [Next]_vars
               PROVE  WakesPledged' /\ Home'
    OBVIOUS
  <2>1. CASE UNCHANGED vars
    BY <2>1, HomeStep DEF vars, lists, WakesPledged, Covered, Pledged, PledgedFor
  <2>2. ASSUME NEW c \in Ctx, ReleaseWake(c) PROVE WakesPledged'
    BY <2>2, WakeCovers
  <2> QED BY <2>1, <2>2, HomeStep, BeginCovers, ContinueCovers, FileCovers DEF Next, Release
<1>3. TypeOK /\ RequestInv /\ WakesPledged /\ Home => NoMissedWakeUp
  <2> SUFFICES ASSUME TypeOK, RequestInv, WakesPledged, Home, NEW t \in Thread,
                      call[t].at = "asleep", ~WakeDue(FdOf[t])
               PROVE  IsEmpty(FdOf[t], call[t].on)
    BY DEF NoMissedWakeUp
  <2> DEFINE c == FdOf[t]
  <2>1. c \in Ctx /\ Covered(t) /\ ~Pledged(c)
    BY ConstantsAssumption DEF WakesPledged, WakeDue, Pledged
  <2>2. CASE call[t].on = "pending"
    BY <2>1, <2>2 DEF Covered, IsEmpty
  <2>3. CASE call[t].on # "pending"
    <3>1. ASSUME NEW e \in Elements(done[c]) PROVE FALSE
      <4>1. e.kind # "event" /\ PledgedFor(e.tx)
        BY <2>1, <2>3 DEF Covered
      <4>2. WokenThrough(e.tx) = {c}
        BY <2>1, <4>1, WokenThroughLive
      <4> QED BY <4>1, <4>2 DEF PledgedFor, WakeDue
    <3>2. done[c] \in Seq(Entry)
      BY <2>1 DEF TypeOK
    <3>3. done[c] = <<>>
      <4>1. CASE done[c] # <<>>
        <5>1. Len(done[c]) \in Nat \ {0}
          BY <3>2, <4>1, EmptySeq, LenProperties
        <5>2. 1 \in 1 .. Len(done[c])
          BY <5>1
        <5> QED BY <3>1, <5>2 DEF Elements
      <4> QED BY <4>1
    <3> QED BY <2>3, <3>3 DEF IsEmpty
  <2> QED BY <2>2, <2>3
<1> QED BY <1>1, <1>2, <1>3, RequestInvariant, PTL DEF Spec
=============================================================================
