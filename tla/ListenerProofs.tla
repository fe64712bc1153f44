--------------------------- MODULE ListenerProofs ---------------------------
(***************************************************************************)
(* Proofs about Listener, for any files, threads, handles and nodes.       *)
(***************************************************************************)
EXTENDS Listener, SequenceTheorems, FiniteSetTheorems, TLAPS

-----------------------------------------------------------------------------
(* The lists.                                                              *)

Injective(s) == \A i, j \in 1 .. Len(s) : s[i] = s[j] => i = j

\* list_add_tail adds its node and nothing else; a node that is not on the list
\* is on it once afterwards.
LEMMA AppendElements ==
  ASSUME NEW S, NEW s \in Seq(S), NEW x \in S
  PROVE  /\ Append(s, x) \in Seq(S)
         /\ Elements(Append(s, x)) = Elements(s) \cup {x}
         /\ Injective(s) /\ x \notin Elements(s) => Injective(Append(s, x))
<1>1. /\ Append(s, x) \in Seq(S)
      /\ Len(Append(s, x)) = Len(s) + 1
      /\ \A i \in 1 .. Len(s) : Append(s, x)[i] = s[i]
      /\ Append(s, x)[Len(s) + 1] = x
  BY AppendProperties
<1>2. Len(s) \in Nat
  BY LenProperties
<1>3. Elements(Append(s, x)) = Elements(s) \cup {x}
  BY <1>1, <1>2 DEF Elements
<1>4. Injective(s) /\ x \notin Elements(s) => Injective(Append(s, x))
  BY <1>1, <1>2 DEF Elements, Injective
<1> QED BY <1>1, <1>3, <1>4

LEMMA WithoutInSeq ==
  ASSUME NEW S, NEW s \in Seq(S), NEW n \in 1 .. Len(s)
  PROVE  Without(s, n) \in Seq(S)
<1>1. Len(s) \in Nat
  BY LenProperties
<1>2. SubSeq(s, 1, n - 1) \in Seq(S) /\ SubSeq(s, n + 1, Len(s)) \in Seq(S)
  BY <1>1, SubSeqProperties
<1> QED BY <1>2, ConcatProperties DEF Without

\* list_del takes its node off and leaves the others.
LEMMA WithoutElements ==
  ASSUME NEW S, NEW s \in Seq(S), NEW n \in 1 .. Len(s), Injective(s)
  PROVE  /\ Without(s, n) \in Seq(S)
         /\ Elements(Without(s, n)) = Elements(s) \ {s[n]}
         /\ Injective(Without(s, n))
<1> DEFINE w == Without(s, n)
<1>1. Len(s) \in Nat
  BY LenProperties
<1>2. /\ SubSeq(s, 1, n - 1) \in Seq(S)
      /\ Len(SubSeq(s, 1, n - 1)) = n - 1
      /\ \A i \in 1 .. n - 1 : SubSeq(s, 1, n - 1)[i] = s[i]
  BY <1>1, SubSeqProperties
<1>3. /\ SubSeq(s, n + 1, Len(s)) \in Seq(S)
      /\ Len(SubSeq(s, n + 1, Len(s))) = Len(s) - n
      /\ \A i \in 1 .. Len(s) - n : SubSeq(s, n + 1, Len(s))[i] = s[n + i]
  BY <1>1, SubSeqProperties
<1>4. /\ w \in Seq(S)
      /\ Len(w) = Len(s) - 1
      /\ \A i \in 1 .. Len(s) - 1 : w[i] = IF i < n THEN s[i] ELSE s[i + 1]
  <2> DEFINE a == SubSeq(s, 1, n - 1)
             b == SubSeq(s, n + 1, Len(s))
  <2>0. w = a \o b /\ a \in Seq(S) /\ b \in Seq(S) /\ Len(a) = n - 1 /\ Len(b) = Len(s) - n
    BY <1>2, <1>3 DEF Without
  <2> HIDE DEF a, b, w
  <2>1. /\ w \in Seq(S)
        /\ Len(w) = (n - 1) + (Len(s) - n)
        /\ \A i \in 1 .. (n - 1) + (Len(s) - n) :
              w[i] = IF i <= n - 1 THEN a[i] ELSE b[i - (n - 1)]
    <3>1. /\ a \o b \in Seq(S)
          /\ Len(a \o b) = Len(a) + Len(b)
          /\ \A i \in 1 .. Len(a) + Len(b) :
                (a \o b)[i] = IF i <= Len(a) THEN a[i] ELSE b[i - Len(a)]
      BY <2>0, ConcatProperties
    <3> QED BY <2>0, <3>1
  <2>2. ASSUME NEW i \in 1 .. Len(s) - 1
        PROVE  w[i] = IF i < n THEN s[i] ELSE s[i + 1]
    <3>0. i \in 1 .. (n - 1) + (Len(s) - n)
      BY <1>1
    <3>1. CASE i <= n - 1
      BY <3>0, <3>1, <2>1, <1>1, <1>2 DEF a
    <3>2. CASE i > n - 1
      <4>1. i - (n - 1) \in 1 .. Len(s) - n /\ n + (i - (n - 1)) = i + 1
        BY <3>2, <1>1
      <4> QED BY <3>0, <4>1, <3>2, <2>1, <1>1, <1>3, SMTT(20) DEF b
    <3> QED BY <3>1, <3>2, <1>1
  <2> QED BY <2>1, <2>2, <1>1
<1> HIDE DEF w
<1>5. Elements(w) = Elements(s) \ {s[n]}
  <2>1. ASSUME NEW x \in Elements(w) PROVE x \in Elements(s) \ {s[n]}
    BY <2>1, <1>1, <1>4 DEF Elements, Injective
  <2>2. ASSUME NEW x \in Elements(s) \ {s[n]} PROVE x \in Elements(w)
    <3>1. PICK i \in 1 .. Len(s) : x = s[i] /\ i # n
      BY <2>2 DEF Elements
    <3>2. CASE i < n
      BY <3>1, <3>2, <1>1, <1>4 DEF Elements
    <3>3. CASE i > n
      <4>1. i - 1 \in 1 .. Len(s) - 1 /\ w[i - 1] = s[i]
        BY <3>1, <3>3, <1>1, <1>4
      <4> QED BY <3>1, <4>1, <1>4 DEF Elements
    <3> QED BY <3>1, <3>2, <3>3, <1>1
  <2> QED BY <2>1, <2>2
<1>6. Injective(w)
  BY <1>1, <1>4, SMTT(20) DEF Injective
<1> QED BY <1>4, <1>5, <1>6 DEF w

\* The loop of release() takes the first node off the file's list.
LEMMA TailElements ==
  ASSUME NEW S, NEW s \in Seq(S), s # <<>>, Injective(s)
  PROVE  /\ Head(s) \in S
         /\ Tail(s) \in Seq(S)
         /\ Elements(s) = Elements(Tail(s)) \cup {Head(s)}
         /\ Head(s) \notin Elements(Tail(s))
         /\ Injective(Tail(s))
<1>1. /\ Len(s) \in Nat \ {0}
      /\ Head(s) \in S /\ Head(s) = s[1]
      /\ Tail(s) \in Seq(S)
      /\ Len(Tail(s)) = Len(s) - 1
      /\ \A i \in 1 .. Len(Tail(s)) : Tail(s)[i] = s[i + 1]
  BY EmptySeq, HeadTailProperties, LenProperties
<1>2. Head(s) \notin Elements(Tail(s)) /\ Injective(Tail(s))
  BY <1>1 DEF Elements, Injective
<1>3. Elements(Tail(s)) \cup {Head(s)} \subseteq Elements(s)
  BY <1>1 DEF Elements
<1>4. ASSUME NEW i \in 1 .. Len(s) PROVE s[i] \in Elements(Tail(s)) \cup {Head(s)}
  <2>1. CASE i = 1
    BY <2>1, <1>1
  <2>2. CASE i > 1
    <3>1. i - 1 \in 1 .. Len(Tail(s)) /\ Tail(s)[i - 1] = s[i]
      BY <2>2, <1>1
    <3> QED BY <3>1 DEF Elements
  <2> QED BY <2>1, <2>2
<1> QED BY <1>1, <1>2, <1>3, <1>4 DEF Elements

-----------------------------------------------------------------------------
(* Type correctness.                                                       *)

\* A thread's locals are those of the ioctl it is in.
LEMMA CallLocals ==
  ASSUME NEW r \in Call
  PROVE  /\ r.at \in {"backlink", "unhook"} => r \in [at : {"backlink", "unhook"}, sub : Sub]
         /\ r.at = "broadcast" =>
              r \in [at : {"broadcast"}, handle : Handle, next : Nat \ {0},
                     event : 1 .. MaxEvents, missed : SUBSET Nat]
<1>1. CASE r = Idle
  BY <1>1 DEF Idle
<1>2. CASE r \in [at : {"backlink", "unhook"}, sub : Sub]
  BY <1>2
<1>3. CASE r \in [at : {"broadcast"}, handle : Handle, next : Nat \ {0},
                  event : 1 .. MaxEvents, missed : SUBSET Nat]
  BY <1>3
<1> QED BY <1>1, <1>2, <1>3 DEF Call

\* Types of the state of subscribe, unsubscribe, broadcast and release.
THEOREM TypeCorrect == Spec => []TypeOK
<1>1. Init => TypeOK
  <2>1. \A S : <<>> \in Seq(S)
    BY EmptySeq
  <2> QED BY <2>1, ConstantsAssumption DEF Init, TypeOK, Call, Life
<1>2. TypeOK /\ [Next]_vars => TypeOK'
  <2> SUFFICES ASSUME TypeOK, [Next]_vars PROVE TypeOK'
    OBVIOUS
  <2> USE DEF TypeOK
  <2>1. ASSUME NEW c \in Ctx, Open(c) PROVE TypeOK'
    <3>1. \A S : <<>> \in Seq(S)
      BY EmptySeq
    <3> QED BY <2>1, <3>1 DEF Open, Life
  <2>2. ASSUME NEW t \in Thread, NEW h \in Handle, Subscribe(t, h) PROVE TypeOK'
    <3>1. PICK s \in Sub :
            /\ node' = [node EXCEPT ![s] = [ctx |-> FdOf[t], handle |-> h]]
            /\ subscribers' = [subscribers EXCEPT ![h] = Append(@, s)]
            /\ call' = [call EXCEPT ![t] = [at |-> "backlink", sub |-> s]]
      BY <2>2 DEF Subscribe
    <3>2. Append(subscribers[h], s) \in Seq(Sub)
      BY AppendProperties
    <3>3. call' \in [Thread -> Call]
      BY <3>1 DEF Call
    <3>4. node' \in [Sub -> Node \cup {Free}]
      BY <3>1, ConstantsAssumption DEF Node
    <3> QED BY <2>2, <3>1, <3>2, <3>3, <3>4 DEF Subscribe
  <2>3. ASSUME NEW t \in Thread, SubscribeBack(t) PROVE TypeOK'
    <3>1. call[t].sub \in Sub
      BY <2>3, CallLocals DEF SubscribeBack
    <3>2. Append(subscribed[FdOf[t]], call[t].sub) \in Seq(Sub)
      BY <3>1, AppendProperties, ConstantsAssumption
    <3>3. call' \in [Thread -> Call]
      BY <2>3 DEF SubscribeBack, Return, Call
    <3> QED BY <2>3, <3>2, <3>3, ConstantsAssumption DEF SubscribeBack
  <2>4. ASSUME NEW t \in Thread, NEW h \in Handle, Unsubscribe(t, h) PROVE TypeOK'
    <3> DEFINE mine == subscribed[FdOf[t]]
    <3>1. PICK i \in 1 .. Len(mine) :
            /\ subscribed' = [subscribed EXCEPT ![FdOf[t]] = Without(@, i)]
            /\ call' = [call EXCEPT ![t] = [at |-> "unhook", sub |-> mine[i]]]
      BY <2>4 DEF Unsubscribe
    <3>2. mine \in Seq(Sub)
      BY ConstantsAssumption
    <3>3. Without(mine, i) \in Seq(Sub) /\ mine[i] \in Sub
      BY <3>2, WithoutInSeq, ElementOfSeq
    <3>4. call' \in [Thread -> Call]
      BY <3>1, <3>3 DEF Call
    <3>5. subscribed' \in [Ctx -> Seq(Sub)]
      BY <3>1, <3>3, ConstantsAssumption
    <3> QED BY <2>4, <3>4, <3>5 DEF Unsubscribe
  <2>5. ASSUME NEW s \in Sub, Unhook(s)
        PROVE  /\ subscribers' \in [Handle -> Seq(Sub)]
               /\ node' \in [Sub -> Node \cup {Free}]
    <3> DEFINE h == node[s].handle
    <3>1. PICK i \in 1 .. Len(subscribers[h]) :
            subscribers' = [subscribers EXCEPT ![h] = Without(@, i)]
      BY <2>5 DEF Unhook
    <3>2. h \in Handle => Without(subscribers[h], i) \in Seq(Sub)
      BY <3>1, WithoutInSeq
    <3> HIDE DEF h
    <3>3. subscribers' \in [Handle -> Seq(Sub)]
      BY <3>1, <3>2
    <3> QED BY <2>5, <3>3 DEF Unhook
  <2>6. ASSUME NEW t \in Thread, UnsubscribeHook(t) PROVE TypeOK'
    <3>1. call[t].sub \in Sub
      BY <2>6, CallLocals DEF UnsubscribeHook
    <3>2. call' \in [Thread -> Call]
      BY <2>6 DEF UnsubscribeHook, Return, Call
    <3>3. Unhook(call[t].sub)
      BY <2>6 DEF UnsubscribeHook
    <3>4. /\ subscribers' \in [Handle -> Seq(Sub)]
          /\ node' \in [Sub -> Node \cup {Free}]
      BY <2>5, <3>1, <3>3
    <3> QED BY <2>6, <3>2, <3>4 DEF UnsubscribeHook
  <2>7. ASSUME NEW t \in Thread, NEW h \in Handle, Broadcast(t, h) PROVE TypeOK'
    <3>1. sent + 1 \in 1 .. MaxEvents
      BY <2>7, ConstantsAssumption DEF Broadcast
    <3>2. call' \in [Thread -> Call]
      BY <2>7, <3>1 DEF Broadcast, Call
    <3>3. sent' \in 0 .. MaxEvents /\ mutex' \in [Handle -> Thread \cup {NoThread}]
      BY <2>7, <3>1, ConstantsAssumption DEF Broadcast
    <3> QED BY <2>7, <3>2, <3>3 DEF Broadcast
  <2>8. ASSUME NEW t \in Thread, BroadcastDeliver(t) PROVE TypeOK'
    <3> DEFINE h == call[t].handle
               i == call[t].next
               c == node[subscribers[h][i]].ctx
               e == [handle |-> h, event |-> call[t].event]
               Ev == [handle : Handle, event : 1 .. MaxEvents]
               B == [at : {"broadcast"}, handle : Handle, next : Nat \ {0},
                     event : 1 .. MaxEvents, missed : SUBSET Nat]
    <3>0. call[t] \in B
      BY <2>8, CallLocals DEF BroadcastDeliver
    <3>1. h \in Handle /\ i \in Nat \ {0} /\ e \in Ev
      BY <3>0
    <3>2. inbox' = [inbox EXCEPT ![c] = Append(@, e)]
      BY <2>8 DEF BroadcastDeliver
    <3>3. c \in Ctx => Append(inbox[c], e) \in Seq(Ev)
      BY <3>1, AppendProperties
    <3>4. [call[t] EXCEPT !.next = i + 1] \in Call
      <4>0. ASSUME NEW r \in B, NEW k \in Nat \ {0} PROVE [r EXCEPT !.next = k] \in B
        OBVIOUS
      <4>1. [call[t] EXCEPT !.next = i + 1] \in B
        <5>1. i + 1 \in Nat \ {0}
          BY <3>1
        <5> HIDE DEF i
        <5> QED BY <3>0, <5>1, <4>0
      <4> QED BY <4>1 DEF Call
    <3>5. call' \in [Thread -> Call]
      BY <2>8, <3>4 DEF BroadcastDeliver
    <3> HIDE DEF c, e
    <3>6. inbox' \in [Ctx -> Seq(Ev)]
      BY <3>2, <3>3
    <3> QED BY <2>8, <3>5, <3>6 DEF BroadcastDeliver
  <2>9. ASSUME NEW t \in Thread, BroadcastEnd(t) PROVE TypeOK'
    <3>1. call' \in [Thread -> Call]
      BY <2>9 DEF BroadcastEnd, Return, Call
    <3> QED BY <2>9, <3>1 DEF BroadcastEnd
  <2>15. ASSUME NEW t \in Thread, BroadcastMiss(t) PROVE TypeOK'
    <3> DEFINE B == [at : {"broadcast"}, handle : Handle, next : Nat \ {0},
                     event : 1 .. MaxEvents, missed : SUBSET Nat]
               i == call[t].next
    <3>1. call[t] \in B
      BY <2>15, CallLocals DEF BroadcastMiss
    <3>2. i \in Nat \ {0} /\ i + 1 \in Nat \ {0}
      BY <3>1
    <3>3. call'[t] = [call[t] EXCEPT !.next = i + 1, !.missed = @ \cup {i}]
          /\ \A u \in Thread : u # t => call'[u] = call[u]
      BY <2>15 DEF BroadcastMiss
    <3>4. DOMAIN call' = Thread /\ call' = [u \in Thread |-> call'[u]]
      BY <2>15 DEF BroadcastMiss
    <3>5. ASSUME NEW r \in B, NEW k \in Nat \ {0}, NEW j \in Nat
          PROVE  [r EXCEPT !.next = k, !.missed = @ \cup {j}] \in B
      OBVIOUS
    <3>6. [call[t] EXCEPT !.next = i + 1, !.missed = @ \cup {i}] \in B
      <4> HIDE DEF i
      <4> QED BY <3>1, <3>2, <3>5
    <3>7. call'[t] \in Call
      BY <3>3, <3>6 DEF Call
    <3>8. call' \in [Thread -> Call]
      BY <3>3, <3>4, <3>7
    <3> QED BY <2>15, <3>8 DEF BroadcastMiss
  <2>10. ASSUME NEW c \in Ctx, Close(c) PROVE TypeOK'
    BY <2>10 DEF Close, Life
  <2>11. ASSUME NEW c \in Ctx, ReleaseNext(c) PROVE TypeOK'
    <3>1. Head(subscribed[c]) \in Sub /\ Tail(subscribed[c]) \in Seq(Sub)
      BY <2>11, HeadTailProperties DEF ReleaseNext
    <3> QED BY <2>11, <3>1 DEF ReleaseNext
  <2>12. ASSUME NEW c \in Ctx, ReleaseHook(c) PROVE TypeOK'
    <3>1. removing[c] \in Sub
      BY <2>12 DEF ReleaseHook
    <3> QED BY <2>5, <2>12, <3>1 DEF ReleaseHook
  <2>13. ASSUME NEW c \in Ctx, ReleaseEnd(c) PROVE TypeOK'
    BY <2>13 DEF ReleaseEnd, Life
  <2>14. ASSUME UNCHANGED vars PROVE TypeOK'
    BY <2>14 DEF vars
  <2> QED
    BY <2>1, <2>2, <2>3, <2>4, <2>6, <2>7, <2>8, <2>9, <2>10, <2>11, <2>12,
       <2>13, <2>14, <2>15 DEF Next, Begin, Continue, Release
<1> QED BY <1>1, <1>2, PTL DEF Spec

-----------------------------------------------------------------------------
(* The inductive invariant: who holds a node.                              *)

InList(c, s) == s \in Elements(subscribed[c])
InCall(t, s) == call[t].at \in {"backlink", "unhook"} /\ call[t].sub = s

\* The node is allocated, belongs to the file at c and is on its handle's list.
Hooked(c, s) ==
    node[s] \in Node /\ node[s].ctx = c /\ s \in Elements(subscribers[node[s].handle])

HandleLists ==
    \A h \in Handle :
        /\ Injective(subscribers[h])
        /\ \A s \in Elements(subscribers[h]) : node[s] \in Node /\ node[s].handle = h
FileLists ==
    \A c \in Ctx :
        Injective(subscribed[c]) /\ \A s \in Elements(subscribed[c]) : Hooked(c, s)
CallsHold ==
    \A t \in Thread, s \in Sub : InCall(t, s) =>
        /\ Hooked(FdOf[t], s)
        /\ ~InList(FdOf[t], s)
        /\ \A u \in Thread : InCall(u, s) => u = t
ReleasesHold ==
    \A c \in Ctx, s \in Sub : removing[c] = s => Hooked(c, s) /\ ~InList(c, s)
HeldBy(c, s) ==
    \/ InList(c, s)
    \/ removing[c] = s
    \/ \E t \in Thread : FdOf[t] = c /\ InCall(t, s)
NodesAreHeld ==
    \A s \in Sub : node[s] \in Node => HeldBy(node[s].ctx, s)

\* Calls are made on open files, and a freed file has no subscriptions.
LifeInv ==
    /\ \A t \in Thread : call[t] # Idle => life[FdOf[t]] = "open"
    /\ \A c \in Ctx : removing[c] # NoSub => life[c] = "release"
    /\ \A c \in Ctx : life[c] = "closed" => subscribed[c] = <<>>

LinkInv == HandleLists /\ FileLists /\ CallsHold /\ ReleasesHold /\ NodesAreHeld /\ LifeInv

LEMMA FreeIsNoNode == Free \notin Node
BY DEF Free, Node

LEMMA ElementsInSet ==
  ASSUME NEW S, NEW s \in Seq(S)
  PROVE  Elements(s) \subseteq S
BY ElementOfSeq DEF Elements

LEMMA EmptyList == Elements(<<>>) = {} /\ Injective(<<>>)
BY DEF Elements, Injective

LEMMA LinkInvInit == Init => LinkInv
<1> SUFFICES ASSUME Init PROVE LinkInv
  OBVIOUS
<1>1. \A s \in Sub : node[s] \notin Node
  BY FreeIsNoNode DEF Init
<1>2. \A t \in Thread, s \in Sub : ~InCall(t, s)
  BY DEF Init, InCall, Idle
<1>3. HandleLists /\ FileLists
  BY EmptyList DEF Init, HandleLists, FileLists
<1>4. ReleasesHold /\ LifeInv
  BY ConstantsAssumption DEF Init, ReleasesHold, LifeInv
<1> QED BY <1>1, <1>2, <1>3, <1>4 DEF LinkInv, CallsHold, NodesAreHeld

\* What list_del from a handle's list and kfree leave of the rest.
LEMMA UnhookStep ==
  ASSUME TypeOK, HandleLists, NEW s \in Sub, node[s] \in Node, Unhook(s)
  PROVE  /\ HandleLists'
         /\ node' = [node EXCEPT ![s] = Free]
         /\ \A c \in Ctx, x \in Sub \ {s} : Hooked(c, x) => Hooked(c, x)'
<1> DEFINE h == node[s].handle
<1>0. h \in Handle /\ s \in Sub
  BY DEF Node
<1>1. PICK i \in 1 .. Len(subscribers[h]) :
        subscribers[h][i] = s /\ subscribers' = [subscribers EXCEPT ![h] = Without(@, i)]
  BY DEF Unhook
<1>2. subscribers[h] \in Seq(Sub) /\ Injective(subscribers[h])
  BY <1>0 DEF TypeOK, HandleLists
<1>3. /\ Elements(Without(subscribers[h], i)) = Elements(subscribers[h]) \ {s}
      /\ Injective(Without(subscribers[h], i))
  BY <1>1, <1>2, WithoutElements
<1>4. node' = [node EXCEPT ![s] = Free] /\ node \in [Sub -> Node \cup {Free}]
  BY DEF Unhook, TypeOK
<1>5. \A g \in Handle : subscribers'[g] =
        IF g = h THEN Without(subscribers[h], i) ELSE subscribers[g]
  BY <1>0, <1>1 DEF TypeOK
<1>6. \A g \in Handle : Elements(subscribers'[g]) = Elements(subscribers[g]) \ {s}
  <2> SUFFICES ASSUME NEW g \in Handle
               PROVE  Elements(subscribers'[g]) = Elements(subscribers[g]) \ {s}
    OBVIOUS
  <2>1. CASE g = h
    BY <2>1, <1>3, <1>5
  <2>2. CASE g # h
    <3>1. s \notin Elements(subscribers[g])
      BY <2>2 DEF HandleLists
    <3> QED BY <2>2, <3>1, <1>5
  <2> QED BY <2>1, <2>2
<1>7. \A g \in Handle : Injective(subscribers'[g])
  BY <1>3, <1>5 DEF HandleLists
<1>8. \A g \in Handle : Elements(subscribers[g]) \subseteq Sub
  BY ElementsInSet DEF TypeOK
<1> HIDE DEF h
<1>9. HandleLists'
  BY <1>4, <1>6, <1>7, <1>8 DEF HandleLists
<1>10. \A c \in Ctx, x \in Sub \ {s} : Hooked(c, x) => Hooked(c, x)'
  BY <1>4, <1>6 DEF Hooked, Node
<1> QED BY <1>4, <1>9, <1>10

LEMMA SubscribeStep ==
  ASSUME TypeOK, LinkInv, NEW t \in Thread, NEW h \in Handle, Subscribe(t, h)
  PROVE  LinkInv'
<1> USE DEF LinkInv
<1>1. PICK s \in Sub :
        /\ node[s] = Free
        /\ node' = [node EXCEPT ![s] = [ctx |-> FdOf[t], handle |-> h]]
        /\ subscribers' = [subscribers EXCEPT ![h] = Append(@, s)]
        /\ call' = [call EXCEPT ![t] = [at |-> "backlink", sub |-> s]]
  BY DEF Subscribe
<1>2. node[s] \notin Node /\ node'[s] \in Node
      /\ node'[s].ctx = FdOf[t] /\ node'[s].handle = h
  BY <1>1, FreeIsNoNode, ConstantsAssumption DEF TypeOK, Node
<1>3. \A x \in Sub \ {s} : node'[x] = node[x]
  BY <1>1 DEF TypeOK
<1>4. subscribers[h] \in Seq(Sub) /\ Injective(subscribers[h])
      /\ s \notin Elements(subscribers[h])
  BY <1>2 DEF TypeOK, HandleLists
<1>5. /\ Elements(subscribers'[h]) = Elements(subscribers[h]) \cup {s}
      /\ Injective(subscribers'[h])
      /\ \A g \in Handle \ {h} : subscribers'[g] = subscribers[g]
  BY <1>1, <1>4, AppendElements DEF TypeOK
<1>6. \A g \in Handle : Elements(subscribers[g]) \subseteq Sub \ {s}
  BY <1>2, ElementsInSet DEF TypeOK, HandleLists
<1>7. \A c \in Ctx, x \in Sub : Hooked(c, x) => x # s /\ Hooked(c, x)'
  BY <1>2, <1>3, <1>5, <1>6 DEF Hooked, Node
<1>8. Hooked(FdOf[t], s)'
  BY <1>2, <1>5 DEF Hooked
<1>9. /\ \A c \in Ctx : ~InList(c, s) /\ removing[c] # s
      /\ \A u \in Thread : ~InCall(u, s)
  BY <1>7, ConstantsAssumption DEF FileLists, InList, CallsHold, ReleasesHold
<1>10. UNCHANGED <<life, subscribed, removing>> /\ call[t] = Idle /\ life[FdOf[t]] = "open"
  BY DEF Subscribe, CanCall
<1>11. \A u \in Thread, x \in Sub :
          InCall(u, x)' <=> IF u = t THEN x = s ELSE InCall(u, x)
  BY <1>1 DEF InCall, TypeOK
<1>12. HandleLists'
  BY <1>2, <1>3, <1>5, <1>6 DEF HandleLists
<1>13. \A c \in Ctx : Elements(subscribed[c]) \subseteq Sub
  BY ElementsInSet DEF TypeOK
<1>14. FileLists'
  BY <1>7, <1>10, <1>13 DEF FileLists
<1>15. CallsHold'
  <2>1. \A c \in Ctx, x \in Sub : InList(c, x)' <=> InList(c, x)
    BY <1>10 DEF InList
  <2>2. ~InCall(t, s)
    BY <1>9
  <2> QED BY <1>7, <1>8, <1>9, <1>11, <2>1, ConstantsAssumption DEF CallsHold
<1>16. ReleasesHold'
  BY <1>7, <1>10 DEF ReleasesHold, InList
<1>17. NodesAreHeld'
  <2> SUFFICES ASSUME NEW x \in Sub, node'[x] \in Node
               PROVE  HeldBy(node[x].ctx, x)'
    BY DEF NodesAreHeld
  <2>1. CASE x = s
    BY <2>1, <1>2, <1>11 DEF HeldBy
  <2>2. CASE x # s
    <3>1. node'[x] = node[x] /\ node[x] \in Node
      BY <2>2, <1>3
    <3>2. \A u \in Thread : InCall(u, x) => InCall(u, x)'
      BY <1>10, <1>11 DEF InCall, Idle
    <3> QED BY <3>1, <3>2, <1>10 DEF NodesAreHeld, HeldBy, InList
  <2> QED BY <2>1, <2>2
<1>18. LifeInv'
  BY <1>1, <1>10 DEF LifeInv, TypeOK
<1> QED BY <1>12, <1>14, <1>15, <1>16, <1>17, <1>18

LEMMA SubscribeBackStep ==
  ASSUME TypeOK, LinkInv, NEW t \in Thread, SubscribeBack(t)
  PROVE  LinkInv'
<1> USE DEF LinkInv
<1> DEFINE s == call[t].sub
           c == FdOf[t]
<1>1. c \in Ctx /\ s \in Sub /\ InCall(t, s)
  BY CallLocals, ConstantsAssumption DEF SubscribeBack, TypeOK, InCall
<1>2. Hooked(c, s) /\ ~InList(c, s) /\ \A u \in Thread : InCall(u, s) => u = t
  BY <1>1 DEF CallsHold
<1>3. /\ subscribed' = [subscribed EXCEPT ![c] = Append(@, s)]
      /\ call' = [call EXCEPT ![t] = Idle]
      /\ UNCHANGED <<life, node, subscribers, removing>>
  BY DEF SubscribeBack, Return
<1>4. life[c] = "open" /\ removing[c] = NoSub
  BY <1>1 DEF LifeInv, InCall, Idle, TypeOK
<1> HIDE DEF s, c
<1>5. subscribed[c] \in Seq(Sub) /\ Injective(subscribed[c])
  BY <1>1 DEF TypeOK, FileLists
<1>6. /\ Elements(subscribed'[c]) = Elements(subscribed[c]) \cup {s}
      /\ Injective(subscribed'[c])
      /\ \A d \in Ctx \ {c} : subscribed'[d] = subscribed[d]
  BY <1>1, <1>2, <1>3, <1>5, AppendElements DEF TypeOK, InList
<1>7. \A d \in Ctx, x \in Sub :
        /\ Hooked(d, x)' <=> Hooked(d, x)
        /\ InList(d, x)' <=> InList(d, x) \/ (d = c /\ x = s)
  BY <1>3, <1>6 DEF Hooked, InList
<1>8. \A u \in Thread, x \in Sub : InCall(u, x)' <=> InCall(u, x) /\ u # t
  BY <1>3 DEF InCall, Idle, TypeOK
<1>9. HandleLists'
  BY <1>3 DEF HandleLists
<1>10. FileLists'
  <2>1. \A d \in Ctx : Elements(subscribed[d]) \subseteq Sub
    BY ElementsInSet DEF TypeOK
  <2> QED BY <1>1, <1>2, <1>6, <1>7, <2>1 DEF FileLists, InList
<1>11. CallsHold'
  BY <1>2, <1>7, <1>8, ConstantsAssumption DEF CallsHold
<1>12. ReleasesHold'
  BY <1>1, <1>3, <1>4, <1>7, ConstantsAssumption DEF ReleasesHold
<1>13. NodesAreHeld'
  <2>1. node[s].ctx = c
    BY <1>2 DEF Hooked
  <2>2. \A x \in Sub : node[x] \in Node => node[x].ctx \in Ctx
    BY DEF Node
  <2>3. \A x \in Sub : InCall(t, x) => x = s
    BY DEF InCall, s
  <2> QED BY <2>1, <2>2, <2>3, <1>3, <1>7, <1>8 DEF NodesAreHeld, HeldBy
<1>14. LifeInv'
  BY <1>1, <1>3, <1>4, <1>6 DEF LifeInv, TypeOK
<1> QED BY <1>9, <1>10, <1>11, <1>12, <1>13, <1>14

LEMMA UnsubscribeStep ==
  ASSUME TypeOK, LinkInv, NEW t \in Thread, NEW h \in Handle, Unsubscribe(t, h)
  PROVE  LinkInv'
<1> USE DEF LinkInv
<1> DEFINE c == FdOf[t]
<1>1. PICK i \in 1 .. Len(subscribed[c]) :
        /\ subscribed' = [subscribed EXCEPT ![c] = Without(@, i)]
        /\ call' = [call EXCEPT ![t] = [at |-> "unhook", sub |-> subscribed[c][i]]]
  BY DEF Unsubscribe
<1> DEFINE s == subscribed[c][i]
<1>2. c \in Ctx /\ subscribed[c] \in Seq(Sub) /\ Injective(subscribed[c])
  BY ConstantsAssumption DEF TypeOK, FileLists
<1>3. s \in Sub /\ InList(c, s) /\ Hooked(c, s)
  BY <1>2, ElementOfSeq DEF InList, Elements, FileLists
<1>4. /\ call[t] = Idle /\ life[c] = "open"
      /\ UNCHANGED <<life, node, subscribers, removing>>
  BY DEF Unsubscribe, CanCall
<1>5. call' = [call EXCEPT ![t] = [at |-> "unhook", sub |-> s]]
  BY <1>1
<1>6. /\ Elements(subscribed'[c]) = Elements(subscribed[c]) \ {s}
      /\ Injective(subscribed'[c])
      /\ \A d \in Ctx \ {c} : subscribed'[d] = subscribed[d]
  BY <1>1, <1>2, WithoutElements DEF TypeOK
<1> HIDE DEF s, c
<1>7. \A d \in Ctx, x \in Sub :
        /\ Hooked(d, x)' <=> Hooked(d, x)
        /\ InList(d, x)' <=> InList(d, x) /\ ~(d = c /\ x = s)
  BY <1>4, <1>6 DEF Hooked, InList
<1>8. \A u \in Thread, x \in Sub :
        InCall(u, x)' <=> IF u = t THEN x = s ELSE InCall(u, x)
  BY <1>5 DEF InCall, TypeOK
<1>9. \A d \in Ctx : Elements(subscribed[d]) \subseteq Sub
  BY ElementsInSet DEF TypeOK
<1>10. \A u \in Thread : ~InCall(u, s)
  <2> SUFFICES ASSUME NEW u \in Thread, InCall(u, s) PROVE FALSE
    OBVIOUS
  <2>1. Hooked(FdOf[u], s) /\ ~InList(FdOf[u], s)
    BY <1>3 DEF CallsHold
  <2> QED BY <2>1, <1>3 DEF Hooked
<1>11. HandleLists'
  BY <1>4 DEF HandleLists
<1>12. FileLists'
  BY <1>2, <1>6, <1>7, <1>9 DEF FileLists
<1>13. CallsHold'
  <2> SUFFICES ASSUME NEW u \in Thread, NEW x \in Sub, InCall(u, x)'
               PROVE  /\ Hooked(FdOf[u], x)'
                      /\ ~InList(FdOf[u], x)'
                      /\ \A v \in Thread : InCall(v, x)' => v = u
    BY DEF CallsHold
  <2>1. CASE u = t
    BY <2>1, <1>2, <1>3, <1>7, <1>8, <1>10 DEF c
  <2>2. CASE u # t
    <3>1. InCall(u, x) /\ x # s /\ FdOf[u] \in Ctx
      BY <2>2, <1>8, <1>10, ConstantsAssumption
    <3> QED BY <3>1, <1>7, <1>8 DEF CallsHold
  <2> QED BY <2>1, <2>2
<1>14. ReleasesHold'
  BY <1>4, <1>7 DEF ReleasesHold
<1>15. NodesAreHeld'
  <2>1. node[s].ctx = c /\ FdOf[t] = c
    BY <1>3 DEF Hooked, c
  <2>2. \A x \in Sub : node[x] \in Node => node[x].ctx \in Ctx
    BY DEF Node
  <2>3. \A x \in Sub : ~InCall(t, x)
    BY <1>4 DEF InCall, Idle
  <2>4. \A u \in Thread, x \in Sub : InCall(u, x) => InCall(u, x)'
    BY <1>8, <2>3
  <2> SUFFICES ASSUME NEW x \in Sub, node[x] \in Node
               PROVE  HeldBy(node[x].ctx, x)'
    BY <1>4 DEF NodesAreHeld
  <2>6. CASE x = s
    <3>1. InCall(t, x)'
      BY <2>6, <1>8
    <3> QED BY <3>1, <2>1, <2>6, <1>4 DEF HeldBy
  <2>7. CASE x # s
    <3>1. HeldBy(node[x].ctx, x) /\ node[x].ctx \in Ctx
      BY <2>2 DEF NodesAreHeld
    <3>2. CASE InList(node[x].ctx, x)
      <4>1. InList(node[x].ctx, x)'
        BY <3>1, <3>2, <2>7, <1>4, <1>7
      <4> QED BY <4>1, <1>4 DEF HeldBy
    <3>3. CASE removing[node[x].ctx] = x
      BY <3>3, <1>4 DEF HeldBy
    <3>4. CASE \E u \in Thread : FdOf[u] = node[x].ctx /\ InCall(u, x)
      BY <3>4, <2>4, <1>4 DEF HeldBy
    <3> QED BY <3>1, <3>2, <3>3, <3>4 DEF HeldBy
  <2> QED BY <2>6, <2>7
<1>16. LifeInv'
  <2>1. \A u \in Thread : call'[u] # Idle => life[FdOf[u]] = "open"
    BY <1>4, <1>5 DEF LifeInv, TypeOK, c
  <2>2. \A d \in Ctx : life[d] = "closed" => subscribed'[d] = <<>>
    BY <1>4, <1>6 DEF LifeInv
  <2> QED BY <1>4, <2>1, <2>2 DEF LifeInv
<1> QED BY <1>11, <1>12, <1>13, <1>14, <1>15, <1>16

\* The second half of an unsubscription: nobody else holds the node.
LEMMA UnsubscribeHookStep ==
  ASSUME TypeOK, LinkInv, NEW t \in Thread, UnsubscribeHook(t)
  PROVE  LinkInv'
<1> USE DEF LinkInv
<1> DEFINE s == call[t].sub
           c == FdOf[t]
<1>1. c \in Ctx /\ s \in Sub /\ InCall(t, s) /\ Unhook(s)
  BY CallLocals, ConstantsAssumption DEF UnsubscribeHook, TypeOK, InCall
<1>2. Hooked(c, s) /\ ~InList(c, s) /\ \A u \in Thread : InCall(u, s) => u = t
  BY <1>1 DEF CallsHold
<1>3. /\ call' = [call EXCEPT ![t] = Idle]
      /\ UNCHANGED <<life, subscribed, removing>>
  BY DEF UnsubscribeHook, Return
<1>4. life[c] = "open" /\ removing[c] = NoSub
  BY <1>1 DEF LifeInv, InCall, Idle, TypeOK
<1>5. \A x \in Sub : InCall(t, x) => x = s
  BY DEF InCall
<1> HIDE DEF s, c
<1>6. node[s] \in Node /\ node[s].ctx = c
  BY <1>2 DEF Hooked
<1>7. /\ HandleLists'
      /\ node' = [node EXCEPT ![s] = Free]
      /\ \A d \in Ctx, x \in Sub \ {s} : Hooked(d, x) => Hooked(d, x)'
  BY <1>1, <1>6, UnhookStep
<1>8. \A d \in Ctx, x \in Sub : InList(d, x)' <=> InList(d, x)
  BY <1>3 DEF InList
<1>9. \A u \in Thread, x \in Sub : InCall(u, x)' <=> InCall(u, x) /\ u # t
  BY <1>3 DEF InCall, Idle, TypeOK
<1>10. \A d \in Ctx : Elements(subscribed[d]) \subseteq Sub \ {s}
  <2> SUFFICES ASSUME NEW d \in Ctx, InList(d, s) PROVE FALSE
    BY ElementsInSet DEF TypeOK, InList
  <2>1. Hooked(d, s)
    BY DEF FileLists, InList
  <2> QED BY <2>1, <1>2, <1>6 DEF Hooked
<1>11. \A d \in Ctx : removing[d] # s
  <2> SUFFICES ASSUME NEW d \in Ctx, removing[d] = s PROVE FALSE
    OBVIOUS
  <2>1. d = c
    BY <1>1, <1>6 DEF ReleasesHold, Hooked
  <2> QED BY <2>1, <1>1, <1>4, ConstantsAssumption
<1>12. FileLists'
  BY <1>3, <1>7, <1>10 DEF FileLists
<1>13. CallsHold'
  <2>1. \A u \in Thread \ {t}, x \in Sub : InCall(u, x) => x # s
    BY <1>2
  <2> QED BY <1>7, <1>8, <1>9, <2>1, ConstantsAssumption DEF CallsHold
<1>14. ReleasesHold'
  BY <1>3, <1>7, <1>8, <1>11 DEF ReleasesHold
<1>15. NodesAreHeld'
  <2> SUFFICES ASSUME NEW x \in Sub, node'[x] \in Node
               PROVE  HeldBy(node[x].ctx, x)'
    BY DEF NodesAreHeld
  <2>1. x # s /\ node'[x] = node[x]
    BY <1>1, <1>7, FreeIsNoNode DEF TypeOK
  <2>2. node[x].ctx \in Ctx
    BY <2>1 DEF Node
  <2>3. ~InCall(t, x)
    BY <2>1, <1>5
  <2>4. HeldBy(node[x].ctx, x)
    BY <2>1 DEF NodesAreHeld
  <2>5. InList(node[x].ctx, x)' <=> InList(node[x].ctx, x)
    BY <2>1, <2>2, <1>3 DEF InList
  <2>6. \A u \in Thread : InCall(u, x) => InCall(u, x)'
    BY <2>3, <1>9
  <2> QED BY <2>1, <2>4, <2>6, <1>3 DEF HeldBy, InList
<1>16. LifeInv'
  BY <1>3 DEF LifeInv, TypeOK
<1> QED BY <1>7, <1>12, <1>13, <1>14, <1>15, <1>16

LEMMA ReleaseNextStep ==
  ASSUME TypeOK, LinkInv, NEW c \in Ctx, ReleaseNext(c)
  PROVE  LinkInv'
<1> USE DEF LinkInv
<1> DEFINE s == Head(subscribed[c])
<1>1. /\ life[c] = "release" /\ removing[c] = NoSub /\ subscribed[c] # <<>>
      /\ removing' = [removing EXCEPT ![c] = s]
      /\ subscribed' = [subscribed EXCEPT ![c] = Tail(@)]
      /\ UNCHANGED <<life, node, subscribers, call>>
  BY DEF ReleaseNext
<1>2. subscribed[c] \in Seq(Sub) /\ Injective(subscribed[c])
  BY DEF TypeOK, FileLists
<1>3. /\ s \in Sub
      /\ Elements(subscribed[c]) = Elements(Tail(subscribed[c])) \cup {s}
      /\ s \notin Elements(Tail(subscribed[c]))
      /\ Injective(Tail(subscribed[c]))
  BY <1>1, <1>2, TailElements
<1> HIDE DEF s
<1>4. InList(c, s) /\ Hooked(c, s)
  BY <1>3 DEF InList, FileLists
<1>5. \A d \in Ctx : /\ subscribed'[d] = IF d = c THEN Tail(subscribed[c]) ELSE subscribed[d]
                     /\ removing'[d] = IF d = c THEN s ELSE removing[d]
  BY <1>1 DEF TypeOK
<1>6. \A d \in Ctx, x \in Sub :
        /\ Hooked(d, x)' <=> Hooked(d, x)
        /\ InList(d, x)' <=> InList(d, x) /\ ~(d = c /\ x = s)
  BY <1>1, <1>3, <1>5 DEF Hooked, InList
<1>7. \A u \in Thread, x \in Sub : InCall(u, x)' <=> InCall(u, x)
  BY <1>1 DEF InCall
<1>8. \A d \in Ctx : Elements(subscribed[d]) \subseteq Sub
  BY ElementsInSet DEF TypeOK
<1>9. HandleLists'
  BY <1>1 DEF HandleLists
<1>10. FileLists'
  BY <1>3, <1>5, <1>6, <1>8 DEF FileLists
<1>11. CallsHold'
  BY <1>6, <1>7, ConstantsAssumption DEF CallsHold
<1>12. ReleasesHold'
  BY <1>4, <1>5, <1>6 DEF ReleasesHold
<1>13. NodesAreHeld'
  <2> SUFFICES ASSUME NEW x \in Sub, node[x] \in Node
               PROVE  HeldBy(node[x].ctx, x)'
    BY <1>1 DEF NodesAreHeld
  <2>1. HeldBy(node[x].ctx, x) /\ node[x].ctx \in Ctx
    BY DEF NodesAreHeld, Node
  <2>2. CASE x = s
    <3>1. node[x].ctx = c
      BY <2>2, <1>4 DEF Hooked
    <3>2. removing'[c] = x
      BY <2>2, <1>5
    <3> QED BY <3>1, <3>2, <1>1 DEF HeldBy
  <2>3. CASE x # s
    <3>1. removing[node[x].ctx] = x => removing'[node[x].ctx] = x
      BY <2>1, <1>1, <1>5, ConstantsAssumption
    <3>2. InList(node[x].ctx, x) => InList(node[x].ctx, x)'
      BY <2>1, <2>3, <1>1, <1>6
    <3>3. \A u \in Thread : InCall(u, x) => InCall(u, x)'
      BY <1>7
    <3> QED BY <2>1, <3>1, <3>2, <3>3, <1>1 DEF HeldBy
  <2> QED BY <2>2, <2>3
<1>14. LifeInv'
  BY <1>1, <1>5 DEF LifeInv
<1> QED BY <1>9, <1>10, <1>11, <1>12, <1>13, <1>14

LEMMA ReleaseHookStep ==
  ASSUME TypeOK, LinkInv, NEW c \in Ctx, ReleaseHook(c)
  PROVE  LinkInv'
<1> USE DEF LinkInv
<1> DEFINE s == removing[c]
<1>1. /\ s \in Sub /\ Unhook(s)
      /\ removing' = [removing EXCEPT ![c] = NoSub]
      /\ UNCHANGED <<life, subscribed, call>>
  BY DEF ReleaseHook, TypeOK
<1>2. Hooked(c, s) /\ ~InList(c, s) /\ life[c] = "release"
  BY <1>1, ConstantsAssumption DEF ReleasesHold, LifeInv
<1> HIDE DEF s
<1>3. node[s] \in Node /\ node[s].ctx = c
  BY <1>2 DEF Hooked
<1>4. /\ HandleLists'
      /\ node' = [node EXCEPT ![s] = Free]
      /\ \A d \in Ctx, x \in Sub \ {s} : Hooked(d, x) => Hooked(d, x)'
  BY <1>1, <1>3, UnhookStep
<1>5. \A d \in Ctx, x \in Sub : InList(d, x)' <=> InList(d, x)
  BY <1>1 DEF InList
<1>6. \A u \in Thread, x \in Sub : InCall(u, x)' <=> InCall(u, x)
  BY <1>1 DEF InCall
<1>7. \A d \in Ctx : Elements(subscribed[d]) \subseteq Sub \ {s}
  <2> SUFFICES ASSUME NEW d \in Ctx, InList(d, s) PROVE FALSE
    BY ElementsInSet DEF TypeOK, InList
  <2>1. Hooked(d, s)
    BY DEF FileLists, InList
  <2> QED BY <2>1, <1>2, <1>3 DEF Hooked
<1>8. \A u \in Thread : ~InCall(u, s)
  <2> SUFFICES ASSUME NEW u \in Thread, InCall(u, s) PROVE FALSE
    OBVIOUS
  <2>1. FdOf[u] = c
    BY <1>1, <1>3 DEF CallsHold, Hooked
  <2>2. life[c] = "open"
    BY <2>1 DEF LifeInv, InCall, Idle
  <2> QED BY <2>2, <1>2
<1>9. \A d \in Ctx : removing'[d] = IF d = c THEN NoSub ELSE removing[d]
  BY <1>1 DEF TypeOK
<1>10. \A d \in Ctx, x \in Sub : removing'[d] = x => removing[d] = x /\ x # s
  <2> SUFFICES ASSUME NEW d \in Ctx, NEW x \in Sub, removing'[d] = x
               PROVE  removing[d] = x /\ x # s
    OBVIOUS
  <2>1. d # c /\ removing[d] = x
    BY <1>9, ConstantsAssumption
  <2>2. node[x].ctx = d
    BY <2>1 DEF ReleasesHold, Hooked
  <2> QED BY <2>1, <2>2, <1>3
<1>11. FileLists'
  BY <1>1, <1>4, <1>7 DEF FileLists
<1>12. CallsHold'
  BY <1>4, <1>5, <1>6, <1>8, ConstantsAssumption DEF CallsHold
<1>13. ReleasesHold'
  BY <1>4, <1>5, <1>10 DEF ReleasesHold
<1>14. NodesAreHeld'
  <2> SUFFICES ASSUME NEW x \in Sub, node'[x] \in Node
               PROVE  HeldBy(node[x].ctx, x)'
    BY DEF NodesAreHeld
  <2>1. x # s /\ node'[x] = node[x]
    BY <1>1, <1>4, FreeIsNoNode DEF TypeOK
  <2>2. HeldBy(node[x].ctx, x) /\ node[x].ctx \in Ctx
    BY <2>1 DEF NodesAreHeld, Node
  <2>3. removing[node[x].ctx] = x => removing'[node[x].ctx] = x
    BY <2>1, <2>2, <1>9 DEF s
  <2> QED BY <2>1, <2>2, <2>3, <1>1, <1>6 DEF HeldBy, InList
<1>15. LifeInv'
  BY <1>1, <1>9 DEF LifeInv
<1> QED BY <1>4, <1>11, <1>12, <1>13, <1>14, <1>15

\* A step that moves no node keeps the invariant if it keeps LifeInv.
LEMMA NoNodeMoves ==
  ASSUME LinkInv, LifeInv',
         UNCHANGED <<node, subscribers, subscribed, removing>>,
         \A t \in Thread, s \in Sub : InCall(t, s)' <=> InCall(t, s)
  PROVE  LinkInv'
<1>1. \A c \in Ctx, s \in Sub :
        (InList(c, s)' <=> InList(c, s)) /\ (Hooked(c, s)' <=> Hooked(c, s))
  BY DEF InList, Hooked
<1>2. HandleLists' /\ FileLists'
  BY DEF LinkInv, HandleLists, FileLists, Hooked
<1>3. CallsHold'
  BY <1>1, ConstantsAssumption DEF LinkInv, CallsHold
<1>4. ReleasesHold'
  BY <1>1 DEF LinkInv, ReleasesHold
<1>5. NodesAreHeld'
  BY DEF LinkInv, NodesAreHeld, HeldBy, InList
<1> QED BY <1>2, <1>3, <1>4, <1>5 DEF LinkInv

LEMMA LinkInvariant == Spec => []LinkInv
<1>1. Init => LinkInv
  BY LinkInvInit
<1>2. TypeOK /\ LinkInv /\ [Next]_vars => LinkInv'
  <2> SUFFICES ASSUME TypeOK, LinkInv, [Next]_vars PROVE LinkInv'
    OBVIOUS
  <2>1. ASSUME NEW c \in Ctx, Open(c) PROVE LinkInv'
    <3>1. /\ life[c] = "closed" /\ life' = [life EXCEPT ![c] = "open"]
          /\ subscribed' = [subscribed EXCEPT ![c] = <<>>]
          /\ UNCHANGED <<node, subscribers, call, removing>>
      BY <2>1 DEF Open
    <3>2. subscribed' = subscribed
      BY <3>1 DEF LinkInv, LifeInv, TypeOK
    <3>3. LifeInv'
      BY <3>1, <3>2 DEF LinkInv, LifeInv, TypeOK
    <3> QED BY <3>1, <3>2, <3>3, NoNodeMoves DEF InCall
  <2>2. ASSUME NEW t \in Thread, NEW h \in Handle, Broadcast(t, h) PROVE LinkInv'
    <3>1. LifeInv'
      BY <2>2 DEF Broadcast, CanCall, LinkInv, LifeInv, TypeOK
    <3>2. \A u \in Thread, s \in Sub : InCall(u, s)' <=> InCall(u, s)
      BY <2>2 DEF Broadcast, CanCall, InCall, Idle, TypeOK
    <3> QED BY <2>2, <3>1, <3>2, NoNodeMoves DEF Broadcast
  <2>3. ASSUME NEW t \in Thread, BroadcastDeliver(t) PROVE LinkInv'
    <3>1. call[t].at = "broadcast" /\ call'[t].at = "broadcast"
          /\ \A u \in Thread \ {t} : call'[u] = call[u]
      <4>1. call[t] \in [at : {"broadcast"}, handle : Handle, next : Nat \ {0},
                         event : 1 .. MaxEvents, missed : SUBSET Nat]
        BY <2>3, CallLocals DEF BroadcastDeliver, TypeOK
      <4>2. call' = [call EXCEPT ![t].next = call[t].next + 1]
        BY <2>3 DEF BroadcastDeliver
      <4>3. [call[t] EXCEPT !.next = call[t].next + 1].at = "broadcast"
        BY <4>1
      <4> QED BY <4>1, <4>2, <4>3 DEF TypeOK
    <3>2. UNCHANGED <<life, node, subscribers, subscribed, removing>>
      BY <2>3 DEF BroadcastDeliver
    <3>3. LifeInv'
      BY <3>1, <3>2 DEF LinkInv, LifeInv, Idle
    <3>4. \A u \in Thread, s \in Sub : InCall(u, s)' <=> InCall(u, s)
      BY <3>1 DEF InCall
    <3> QED BY <3>2, <3>3, <3>4, NoNodeMoves
  <2>8. ASSUME NEW t \in Thread, BroadcastMiss(t) PROVE LinkInv'
    <3>1. call[t].at = "broadcast" /\ call'[t].at = "broadcast"
          /\ \A u \in Thread \ {t} : call'[u] = call[u]
      <4>1. call[t] \in [at : {"broadcast"}, handle : Handle, next : Nat \ {0},
                         event : 1 .. MaxEvents, missed : SUBSET Nat]
        BY <2>8, CallLocals DEF BroadcastMiss, TypeOK
      <4> QED BY <2>8, <4>1 DEF BroadcastMiss, TypeOK
    <3>2. UNCHANGED <<life, node, subscribers, subscribed, removing>>
      BY <2>8 DEF BroadcastMiss
    <3>3. LifeInv'
      BY <3>1, <3>2 DEF LinkInv, LifeInv, Idle
    <3>4. \A u \in Thread, s \in Sub : InCall(u, s)' <=> InCall(u, s)
      BY <3>1 DEF InCall
    <3> QED BY <3>2, <3>3, <3>4, NoNodeMoves
  <2>4. ASSUME NEW t \in Thread, BroadcastEnd(t) PROVE LinkInv'
    <3>1. LifeInv'
      BY <2>4 DEF BroadcastEnd, Return, LinkInv, LifeInv, TypeOK
    <3>2. \A u \in Thread, s \in Sub : InCall(u, s)' <=> InCall(u, s)
      BY <2>4 DEF BroadcastEnd, Return, InCall, Idle, TypeOK
    <3> QED BY <2>4, <3>1, <3>2, NoNodeMoves DEF BroadcastEnd
  <2>5. ASSUME NEW c \in Ctx, Close(c) PROVE LinkInv'
    <3>1. LifeInv'
      BY <2>5 DEF Close, LinkInv, LifeInv, TypeOK
    <3> QED BY <2>5, <3>1, NoNodeMoves DEF Close, InCall
  <2>6. ASSUME NEW c \in Ctx, ReleaseEnd(c) PROVE LinkInv'
    <3>1. \A t \in Thread : FdOf[t] = c => call[t] = Idle
      BY <2>6 DEF ReleaseEnd, LinkInv, LifeInv
    <3>2. LifeInv'
      BY <2>6, <3>1, ConstantsAssumption DEF ReleaseEnd, LinkInv, LifeInv, TypeOK
    <3> QED BY <2>6, <3>2, NoNodeMoves DEF ReleaseEnd, InCall
  <2>7. ASSUME UNCHANGED vars PROVE LinkInv'
    <3>1. LifeInv'
      BY <2>7 DEF vars, LinkInv, LifeInv
    <3> QED BY <2>7, <3>1, NoNodeMoves DEF vars, InCall
  <2> QED
    BY <2>1, <2>2, <2>3, <2>4, <2>5, <2>6, <2>7, <2>8, SubscribeStep,
       SubscribeBackStep, UnsubscribeStep, UnsubscribeHookStep, ReleaseNextStep,
       ReleaseHookStep
       DEF Next, Begin, Continue, Release
<1> QED BY <1>1, <1>2, TypeCorrect, PTL DEF Spec

-----------------------------------------------------------------------------
\* A node on a handle's list is allocated and its file is not freed: a
\* broadcast, at any point of any subscription or release, delivers to memory
\* that is still there.
THEOREM SubscribersAreAliveHolds == Spec => []SubscribersAreAlive
<1>1. TypeOK /\ LinkInv => SubscribersAreAlive
  <2> SUFFICES ASSUME TypeOK, LinkInv, NEW h \in Handle,
                      NEW s \in Elements(subscribers[h])
               PROVE  node[s] # Free /\ life[node[s].ctx] # "closed"
    BY DEF SubscribersAreAlive
  <2>1. s \in Sub /\ node[s] \in Node
    BY ElementsInSet DEF TypeOK, LinkInv, HandleLists
  <2> DEFINE c == node[s].ctx
  <2>2. c \in Ctx /\ HeldBy(c, s)
    BY <2>1 DEF LinkInv, NodesAreHeld, Node
  <2> HIDE DEF c
  <2>3. ASSUME InList(c, s) PROVE life[c] # "closed"
    BY <2>2, <2>3, EmptyList DEF InList, LinkInv, LifeInv
  <2>4. ASSUME removing[c] = s PROVE life[c] # "closed"
    BY <2>1, <2>2, <2>4, ConstantsAssumption DEF LinkInv, LifeInv
  <2>5. ASSUME NEW t \in Thread, FdOf[t] = c, InCall(t, s) PROVE life[c] # "closed"
    BY <2>5 DEF InCall, Idle, LinkInv, LifeInv
  <2>6. life[c] # "closed"
    BY <2>2, <2>3, <2>4, <2>5 DEF HeldBy
  <2> QED BY <2>1, <2>6, FreeIsNoNode DEF c
<1> QED BY <1>1, TypeCorrect, LinkInvariant, PTL

\* The file's list, its calls and its release together name exactly the nodes
\* of the file that are on some handle's list.
THEOREM ListsAgreeHolds == Spec => []ListsAgree
<1>1. TypeOK /\ LinkInv => ListsAgree
  <2> SUFFICES ASSUME TypeOK, LinkInv, NEW c \in Ctx
               PROVE  Elements(subscribed[c]) \cup Held(c) =
                        {s \in Sub : node[s] # Free /\ node[s].ctx = c
                            /\ \E h \in Handle : s \in Elements(subscribers[h])}
    BY DEF ListsAgree
  <2> DEFINE H == {s \in Sub : node[s] # Free /\ node[s].ctx = c
                      /\ \E h \in Handle : s \in Elements(subscribers[h])}
  <2>1. \A s : s \in Held(c) <=>
          \/ \E t \in Thread : FdOf[t] = c /\ InCall(t, s)
          \/ removing[c] = s /\ s # NoSub
    BY DEF Held, InCall
  <2>2. ASSUME NEW s \in Elements(subscribed[c]) \cup Held(c) PROVE s \in H
    <3>1. s \in Sub
      <4>1. \A t \in Thread : InCall(t, s) => s \in Sub
        BY CallLocals DEF InCall, TypeOK
      <4>2. removing[c] \in Sub \cup {NoSub} /\ Elements(subscribed[c]) \subseteq Sub
        BY ElementsInSet DEF TypeOK
      <4> QED BY <2>1, <2>2, <4>1, <4>2
    <3>2. Hooked(c, s)
      BY <2>1, <2>2, <3>1 DEF LinkInv, FileLists, CallsHold, ReleasesHold
    <3> QED BY <3>1, <3>2, FreeIsNoNode DEF Hooked, Node
  <2>3. ASSUME NEW s \in H PROVE s \in Elements(subscribed[c]) \cup Held(c)
    <3>1. node[s] \in Node /\ node[s].ctx = c /\ s # NoSub
      BY ConstantsAssumption DEF TypeOK
    <3>2. HeldBy(c, s)
      BY <3>1 DEF LinkInv, NodesAreHeld
    <3> QED BY <2>1, <3>1, <3>2 DEF HeldBy, InList
  <2> QED BY <2>2, <2>3
<1> QED BY <1>1, TypeCorrect, LinkInvariant, PTL
-----------------------------------------------------------------------------
(* The inductive invariant: how far a broadcast is.                        *)

Casting(t) == call[t].at = "broadcast"

\* The places of the handle's list the broadcast has served that are c's.
Passed(t, c) ==
    {i \in 1 .. call[t].next - 1 :
        i \notin call[t].missed /\ node[subscribers[call[t].handle][i]].ctx = c}

\* The broadcasting thread holds the mutex, and it alone sends its event.
CastsLocked ==
    \A t \in Thread : Casting(t) =>
        /\ mutex[call[t].handle] = t
        /\ call[t].event <= sent
        /\ call[t].next <= Len(subscribers[call[t].handle]) + 1
        /\ call[t].missed \subseteq 1 .. call[t].next - 1
CastsDistinct ==
    \A t, u \in Thread :
        Casting(t) /\ Casting(u) /\ call[t].event = call[u].event => t = u

\* No file has an event that is still to come, from its handle or from any.
EventsSent ==
    \A c \in Ctx : \A i \in 1 .. Len(inbox[c]) :
        /\ inbox[c][i].event <= sent
        /\ \A t \in Thread : (Casting(t) /\ inbox[c][i].handle = call[t].handle) =>
              inbox[c][i].event <= call[t].event

\* A file has the event once for each of its places that were served.
CastsCounted ==
    \A t \in Thread, c \in Ctx : Casting(t) =>
        Received(c, call[t].event) = Cardinality(Passed(t, c))

CastInv == CastsLocked /\ CastsDistinct /\ EventsSent /\ EventsInOrder /\ CastsCounted

\* What a broadcasting thread knows of its locals and of the file's events.
LEMMA CastLocals ==
  ASSUME TypeOK, NEW t \in Thread, Casting(t)
  PROVE  /\ call[t] \in [at : {"broadcast"}, handle : Handle, next : Nat \ {0},
                         event : 1 .. MaxEvents, missed : SUBSET Nat]
         /\ call[t].handle \in Handle /\ call[t].next \in Nat \ {0}
         /\ call[t].event \in Nat
<1>1. call[t] \in [at : {"broadcast"}, handle : Handle, next : Nat \ {0},
                   event : 1 .. MaxEvents, missed : SUBSET Nat]
  BY CallLocals DEF TypeOK, Casting
<1> QED BY <1>1, ConstantsAssumption

LEMMA InboxTypes ==
  ASSUME TypeOK, NEW c \in Ctx
  PROVE  /\ Len(inbox[c]) \in Nat /\ DOMAIN inbox[c] = 1 .. Len(inbox[c])
         /\ \A i \in 1 .. Len(inbox[c]) :
              inbox[c][i].handle \in Handle /\ inbox[c][i].event \in Nat
<1> DEFINE Ev == [handle : Handle, event : 1 .. MaxEvents]
<1>1. inbox[c] \in Seq(Ev)
  BY DEF TypeOK
<1>2. \A i \in 1 .. Len(inbox[c]) : inbox[c][i] \in Ev
  BY <1>1, ElementOfSeq
<1>3. Len(inbox[c]) \in Nat /\ DOMAIN inbox[c] = 1 .. Len(inbox[c])
  BY <1>1, LenProperties
<1> QED BY <1>2, <1>3, ConstantsAssumption

\* What a step leaves alone when it neither delivers nor begins a broadcast:
\* the broadcasts in progress, their mutexes and the lists they walk.
CastsUndisturbed ==
    /\ sent' = sent
    /\ \A t \in Thread : Casting(t)' =>
          /\ Casting(t) /\ call'[t] = call[t]
          /\ mutex'[call[t].handle] = mutex[call[t].handle]
          /\ subscribers'[call[t].handle] = subscribers[call[t].handle]
          /\ \A s \in Elements(subscribers[call[t].handle]) : node'[s].ctx = node[s].ctx

LEMMA UndisturbedPassed ==
  ASSUME TypeOK, CastsLocked, CastsUndisturbed, NEW t \in Thread, Casting(t)', NEW c \in Ctx
  PROVE  Passed(t, c)' = Passed(t, c)
<1> DEFINE h == call[t].handle
<1>1. /\ Casting(t) /\ call'[t] = call[t] /\ subscribers'[h] = subscribers[h]
      /\ \A s \in Elements(subscribers[h]) : node'[s].ctx = node[s].ctx
  BY DEF CastsUndisturbed
<1>2. call[t].next \in Nat /\ call[t].next <= Len(subscribers[h]) + 1 /\ Len(subscribers[h]) \in Nat
  BY <1>1, CastLocals, LenProperties DEF CastsLocked, TypeOK
<1>3. \A i \in 1 .. call[t].next - 1 : subscribers[h][i] \in Elements(subscribers[h])
  BY <1>2 DEF Elements
<1> QED BY <1>1, <1>3 DEF Passed

\* Such a step keeps the invariant, and so does one that also empties the
\* events of a file that is not on any handle's list.
LEMMA UndisturbedStep ==
  ASSUME TypeOK, TypeOK', CastInv, CastsUndisturbed,
         \A c \in Ctx : \/ inbox'[c] = inbox[c]
                        \/ /\ inbox'[c] = <<>>
                           /\ \A t \in Thread : Casting(t) => Passed(t, c) = {}
  PROVE  CastInv'
<1>1. \A t \in Thread : Casting(t)' =>
        /\ Casting(t) /\ call'[t] = call[t]
        /\ mutex'[call[t].handle] = mutex[call[t].handle]
        /\ subscribers'[call[t].handle] = subscribers[call[t].handle]
  BY DEF CastsUndisturbed
<1>2. sent' = sent
  BY DEF CastsUndisturbed
<1>3. CastsLocked' /\ CastsDistinct'
  BY <1>1, <1>2 DEF CastInv, CastsLocked, CastsDistinct
<1>4. \A c \in Ctx : inbox'[c] = <<>> => Len(inbox'[c]) = 0
  BY EmptySeq
<1>5. EventsSent'
  BY <1>1, <1>2, <1>4 DEF CastInv, EventsSent
<1>6. EventsInOrder'
  <2> SUFFICES ASSUME NEW c \in Ctx, NEW h \in Handle
               PROVE  (\A i, j \in Events(c, h) :
                         i < j => inbox[c][i].event <= inbox[c][j].event)'
    BY DEF EventsInOrder
  <2>1. inbox'[c] = <<>> => Events(c, h)' = {}
    BY <1>4, EmptySeq DEF Events
  <2>2. inbox'[c] = inbox[c] => Events(c, h)' = Events(c, h)
    BY DEF Events
  <2> QED BY <2>1, <2>2 DEF CastInv, EventsInOrder
<1>7. CastsCounted'
  <2> SUFFICES ASSUME NEW t \in Thread, NEW c \in Ctx, Casting(t)'
               PROVE  (Received(c, call[t].event) = Cardinality(Passed(t, c)))'
    BY DEF CastsCounted
  <2>1. Passed(t, c)' = Passed(t, c) /\ Casting(t) /\ call'[t] = call[t]
    BY <1>1, UndisturbedPassed DEF CastInv
  <2>2. CASE inbox'[c] = inbox[c]
    BY <2>1, <2>2 DEF CastInv, CastsCounted, Received
  <2>3. CASE inbox'[c] = <<>> /\ Passed(t, c) = {}
    <3>1. {i \in DOMAIN inbox'[c] : inbox'[c][i].event = call'[t].event} = {}
      BY <2>3, <1>4, EmptySeq
    <3> QED BY <2>1, <2>3, <3>1 DEF Received
  <2> QED BY <2>1, <2>2, <2>3
<1> QED BY <1>3, <1>5, <1>6, <1>7 DEF CastInv

\* A handle's list loses a node only to whoever gets its mutex, so the walk of
\* a broadcast in progress is not disturbed.
LEMMA UnhookUndisturbed ==
  ASSUME TypeOK, LinkInv, CastInv, NEW s \in Sub, Unhook(s), node[s] \in Node,
         UNCHANGED <<mutex, sent>>,
         \A t \in Thread : Casting(t)' => Casting(t) /\ call'[t] = call[t]
  PROVE  CastsUndisturbed
<1> DEFINE h == node[s].handle
<1>1. h \in Handle /\ mutex[h] = NoThread /\ node' = [node EXCEPT ![s] = Free]
  BY DEF Unhook, Node
<1>2. PICK i \in 1 .. Len(subscribers[h]) :
        subscribers' = [subscribers EXCEPT ![h] = Without(@, i)]
  BY DEF Unhook
<1> SUFFICES ASSUME NEW t \in Thread, Casting(t)'
             PROVE  /\ subscribers'[call[t].handle] = subscribers[call[t].handle]
                    /\ \A x \in Elements(subscribers[call[t].handle]) :
                          node'[x].ctx = node[x].ctx
  BY DEF CastsUndisturbed
<1> DEFINE k == call[t].handle
<1>3. k \in Handle /\ mutex[k] = t
  BY CastLocals DEF CastInv, CastsLocked
<1>4. k # h
  BY <1>1, <1>3, ConstantsAssumption
<1>5. \A x \in Elements(subscribers[k]) : x \in Sub /\ node[x].handle = k
  BY <1>3, ElementsInSet DEF LinkInv, HandleLists, TypeOK
<1>6. \A x \in Elements(subscribers[k]) : x # s
  BY <1>4, <1>5
<1> HIDE DEF k, h
<1>7. subscribers'[k] = subscribers[k]
  BY <1>1, <1>2, <1>3, <1>4 DEF TypeOK
<1>8. \A x \in Elements(subscribers[k]) : node'[x].ctx = node[x].ctx
  BY <1>1, <1>5, <1>6 DEF TypeOK
<1> QED BY <1>7, <1>8 DEF k

LEMMA BroadcastStep ==
  ASSUME TypeOK, TypeOK', CastInv, NEW t \in Thread, NEW h \in Handle, Broadcast(t, h)
  PROVE  CastInv'
<1> DEFINE new == [at |-> "broadcast", handle |-> h, next |-> 1, event |-> sent + 1,
                 missed |-> {}]
<1>1. /\ mutex[h] = NoThread /\ mutex' = [mutex EXCEPT ![h] = t]
      /\ sent' = sent + 1
      /\ call' = [call EXCEPT ![t] = new]
      /\ UNCHANGED <<node, subscribers, inbox>>
  BY DEF Broadcast
<1>2. sent \in Nat
  BY ConstantsAssumption DEF TypeOK
<1>3. call'[t] = new /\ \A u \in Thread : u # t => call'[u] = call[u]
  BY <1>1 DEF TypeOK
<1>4. /\ new.at = "broadcast" /\ new.handle = h
      /\ new.next = 1 /\ new.event = sent + 1 /\ new.missed = {}
  OBVIOUS
<1> HIDE DEF new
<1>5. mutex'[h] = t /\ \A k \in Handle : k # h => mutex'[k] = mutex[k]
  BY <1>1 DEF TypeOK
<1>6. \A u \in Thread : (u # t /\ Casting(u)) =>
        /\ call[u].handle \in Handle /\ mutex[call[u].handle] = u
        /\ call[u].handle # h
        /\ call[u].event \in Nat /\ call[u].event <= sent
  BY <1>1, CastLocals, ConstantsAssumption DEF CastInv, CastsLocked
<1>7. CastsLocked'
  <2> SUFFICES ASSUME NEW u \in Thread, Casting(u)'
               PROVE  /\ mutex'[call'[u].handle] = u
                      /\ call'[u].event <= sent'
                      /\ call'[u].next <= Len(subscribers'[call'[u].handle]) + 1
                      /\ call'[u].missed \subseteq 1 .. call'[u].next - 1
    BY DEF CastsLocked
  <2>1. CASE u = t
    <3>1. Len(subscribers[h]) \in Nat
      BY LenProperties DEF TypeOK
    <3> QED BY <2>1, <3>1, <1>1, <1>2, <1>3, <1>4, <1>5
  <2>2. CASE u # t
    <3>1. Casting(u) /\ call'[u] = call[u]
      BY <2>2, <1>3 DEF Casting
    <3>2. mutex'[call'[u].handle] = u /\ call'[u].event <= sent'
      BY <2>2, <3>1, <1>1, <1>2, <1>5, <1>6
    <3> QED BY <2>2, <3>1, <3>2, <1>1 DEF CastInv, CastsLocked
  <2> QED BY <2>1, <2>2
<1>8. CastsDistinct'
  <2>1. \A u \in Thread : (u # t /\ Casting(u)') => Casting(u) /\ call'[u].event <= sent
        /\ call'[u].event \in Nat
    BY <1>3, <1>6 DEF Casting
  <2>2. call'[t].event = sent + 1
    BY <1>3, <1>4
  <2>3. \A u \in Thread : (u # t /\ Casting(u)') => call'[u].event # call'[t].event
    BY <2>1, <2>2, <1>2
  <2>4. \A u, v \in Thread :
          (u # t /\ v # t /\ Casting(u)' /\ Casting(v)' /\ call'[u].event = call'[v].event)
             => u = v
    BY <1>3 DEF CastInv, CastsDistinct, Casting
  <2> QED BY <2>3, <2>4 DEF CastsDistinct
<1>9. \A c \in Ctx : \A i \in 1 .. Len(inbox[c]) :
        inbox[c][i].event \in Nat /\ inbox[c][i].event <= sent
  BY InboxTypes DEF CastInv, EventsSent
<1>10. EventsSent'
  <2> SUFFICES ASSUME NEW c \in Ctx, NEW i \in 1 .. Len(inbox[c])
               PROVE  /\ inbox[c][i].event <= sent'
                      /\ \A u \in Thread : (Casting(u)' /\ inbox[c][i].handle = call'[u].handle)
                            => inbox[c][i].event <= call'[u].event
    BY <1>1 DEF EventsSent
  <2>1. inbox[c][i].event <= sent' /\ inbox[c][i].event <= call'[t].event
    BY <1>1, <1>2, <1>3, <1>4, <1>9
  <2>2. \A u \in Thread : (u # t /\ Casting(u)' /\ inbox[c][i].handle = call'[u].handle)
                            => inbox[c][i].event <= call'[u].event
    BY <1>3 DEF CastInv, EventsSent, Casting
  <2> QED BY <2>1, <2>2
<1>11. EventsInOrder'
  BY <1>1 DEF CastInv, EventsInOrder, Events
<1>12. CastsCounted'
  <2> SUFFICES ASSUME NEW u \in Thread, NEW c \in Ctx, Casting(u)'
               PROVE  (Received(c, call[u].event) = Cardinality(Passed(u, c)))'
    BY DEF CastsCounted
  <2>1. CASE u = t
    <3>1. Passed(u, c)' = {}
      BY <2>1, <1>3, <1>4 DEF Passed
    <3>2. {i \in DOMAIN inbox'[c] : inbox'[c][i].event = call'[u].event} = {}
      <4>1. DOMAIN inbox'[c] = 1 .. Len(inbox[c])
        BY <1>1, InboxTypes
      <4> QED BY <2>1, <4>1, <1>1, <1>2, <1>3, <1>4, <1>9
    <3> QED BY <3>1, <3>2 DEF Received
  <2>2. CASE u # t
    <3>1. Casting(u) /\ call'[u] = call[u]
      BY <2>2, <1>3 DEF Casting
    <3>2. Passed(u, c)' = Passed(u, c)
      BY <3>1, <1>1 DEF Passed
    <3>3. Received(c, call[u].event)' = Received(c, call[u].event)
      BY <3>1, <1>1 DEF Received
    <3> QED BY <3>1, <3>2, <3>3 DEF CastInv, CastsCounted
  <2> QED BY <2>1, <2>2
<1> QED BY <1>7, <1>8, <1>10, <1>11, <1>12 DEF CastInv

\* What a delivery does: one more event for one file, whose place is passed.
LEMMA DeliverEffect ==
  ASSUME TypeOK, LinkInv, CastInv, NEW t \in Thread, BroadcastDeliver(t)
  PROVE  LET h == call[t].handle
             p == call[t].next
             d == node[subscribers[h][p]].ctx
         IN  /\ Casting(t) /\ h \in Handle /\ p \in Nat /\ p <= Len(subscribers[h])
             /\ d \in Ctx
             /\ \A c \in Ctx : c # d => inbox'[c] = inbox[c]
             /\ Len(inbox'[d]) = Len(inbox[d]) + 1
             /\ \A i \in 1 .. Len(inbox[d]) : inbox'[d][i] = inbox[d][i]
             /\ inbox'[d][Len(inbox[d]) + 1].handle = h
             /\ inbox'[d][Len(inbox[d]) + 1].event = call[t].event
             /\ \A u \in Thread : u # t => call'[u] = call[u]
             /\ call'[t].at = "broadcast" /\ call'[t].handle = h
             /\ call'[t].next = p + 1 /\ call'[t].event = call[t].event
       /\ call'[t].missed = call[t].missed
             /\ call'[t].missed = call[t].missed
<1> DEFINE h == call[t].handle
           p == call[t].next
           d == node[subscribers[h][p]].ctx
           e == [handle |-> h, event |-> call[t].event]
           B == [at : {"broadcast"}, handle : Handle, next : Nat \ {0},
                 event : 1 .. MaxEvents, missed : SUBSET Nat]
<1>1. Casting(t) /\ p <= Len(subscribers[h])
  BY DEF BroadcastDeliver, Casting
<1>2. call[t] \in B /\ h \in Handle /\ p \in Nat \ {0}
  BY <1>1, CastLocals
<1>3. subscribers[h] \in Seq(Sub) /\ Len(subscribers[h]) \in Nat
  BY <1>2, LenProperties DEF TypeOK
<1>4. subscribers[h][p] \in Elements(subscribers[h])
  BY <1>1, <1>2, <1>3 DEF Elements
<1>5. d \in Ctx
  BY <1>2, <1>4 DEF LinkInv, HandleLists, Node
<1>6. inbox' = [inbox EXCEPT ![d] = Append(@, e)]
  BY DEF BroadcastDeliver
<1>7. call' = [call EXCEPT ![t].next = p + 1]
  BY DEF BroadcastDeliver
<1>8. \A r \in B : \A k : [r EXCEPT !.next = k].at = "broadcast"
        /\ [r EXCEPT !.next = k].handle = r.handle
        /\ [r EXCEPT !.next = k].next = k /\ [r EXCEPT !.next = k].event = r.event
        /\ [r EXCEPT !.next = k].missed = r.missed
  OBVIOUS
<1>9. call'[t] = [call[t] EXCEPT !.next = p + 1]
      /\ \A u \in Thread : u # t => call'[u] = call[u]
  BY <1>7 DEF TypeOK
<1>10. /\ call'[t].at = "broadcast" /\ call'[t].handle = h
       /\ call'[t].next = p + 1 /\ call'[t].event = call[t].event
       /\ call'[t].missed = call[t].missed
  BY <1>2, <1>8, <1>9
<1>11. e \in [handle : Handle, event : 1 .. MaxEvents] /\ e.handle = h /\ e.event = call[t].event
  BY <1>2
<1> HIDE DEF d, e, h, p, B
<1>12. /\ \A c \in Ctx : c # d => inbox'[c] = inbox[c]
       /\ inbox'[d] = Append(inbox[d], e)
       /\ inbox[d] \in Seq([handle : Handle, event : 1 .. MaxEvents])
  BY <1>5, <1>6 DEF TypeOK
<1>13. /\ Len(Append(inbox[d], e)) = Len(inbox[d]) + 1
       /\ \A i \in 1 .. Len(inbox[d]) : Append(inbox[d], e)[i] = inbox[d][i]
       /\ Append(inbox[d], e)[Len(inbox[d]) + 1] = e
  BY <1>11, <1>12, AppendProperties
<1>14. /\ Casting(t) /\ h \in Handle /\ p \in Nat /\ p <= Len(subscribers[h])
       /\ d \in Ctx
       /\ \A c \in Ctx : c # d => inbox'[c] = inbox[c]
       /\ Len(inbox'[d]) = Len(inbox[d]) + 1
       /\ \A i \in 1 .. Len(inbox[d]) : inbox'[d][i] = inbox[d][i]
       /\ inbox'[d][Len(inbox[d]) + 1].handle = h
       /\ inbox'[d][Len(inbox[d]) + 1].event = call[t].event
       /\ \A u \in Thread : u # t => call'[u] = call[u]
       /\ call'[t].at = "broadcast" /\ call'[t].handle = h
       /\ call'[t].next = p + 1 /\ call'[t].event = call[t].event
       /\ call'[t].missed = call[t].missed
  BY <1>1, <1>2, <1>5, <1>9, <1>10, <1>11, <1>12, <1>13
<1> QED BY <1>14 DEF d, h, p

\* Two broadcasts in progress are of two handles, and of two events.
LEMMA OtherCasts ==
  ASSUME TypeOK, CastInv, NEW t \in Thread, NEW u \in Thread, Casting(t), Casting(u), u # t
  PROVE  call[u].handle # call[t].handle /\ call[u].event # call[t].event
BY DEF CastInv, CastsLocked, CastsDistinct

LEMMA DeliverStep ==
  ASSUME TypeOK, TypeOK', LinkInv, CastInv, NEW t \in Thread, BroadcastDeliver(t)
  PROVE  CastInv'
<1> DEFINE h == call[t].handle
           p == call[t].next
           d == node[subscribers[h][p]].ctx
           L == Len(inbox[d])
<1>1. /\ Casting(t) /\ h \in Handle /\ p \in Nat /\ p <= Len(subscribers[h])
      /\ d \in Ctx
      /\ \A c \in Ctx : c # d => inbox'[c] = inbox[c]
      /\ Len(inbox'[d]) = L + 1
      /\ \A i \in 1 .. L : inbox'[d][i] = inbox[d][i]
      /\ inbox'[d][L + 1].handle = h
      /\ inbox'[d][L + 1].event = call[t].event
      /\ \A u \in Thread : u # t => call'[u] = call[u]
      /\ call'[t].at = "broadcast" /\ call'[t].handle = h
      /\ call'[t].next = p + 1 /\ call'[t].event = call[t].event
      /\ call'[t].missed = call[t].missed
  BY DeliverEffect
<1>2. UNCHANGED <<node, subscribers, mutex, sent>>
  BY DEF BroadcastDeliver
<1>3. L \in Nat /\ DOMAIN inbox[d] = 1 .. L /\ DOMAIN inbox'[d] = 1 .. L + 1
  <2>1. inbox'[d] \in Seq([handle : Handle, event : 1 .. MaxEvents])
    BY <1>1 DEF TypeOK
  <2>2. DOMAIN inbox'[d] = 1 .. Len(inbox'[d])
    BY <2>1, LenProperties
  <2> QED BY <1>1, <2>2, InboxTypes
<1>4. \A u \in Thread : (Casting(u)' <=> Casting(u)) /\ call'[u].handle = call[u].handle
                        /\ call'[u].event = call[u].event
  BY <1>1 DEF Casting
<1>5. \A u \in Thread : (u # t /\ Casting(u)) =>
        call[u].handle # h /\ call[u].event # call[t].event
  BY <1>1, OtherCasts
<1>6. call[t].event <= sent /\ mutex[h] = t
  BY <1>1 DEF CastInv, CastsLocked
<1> HIDE DEF d, L, h, p
<1>7. CastsLocked'
  <2> SUFFICES ASSUME NEW u \in Thread, Casting(u)'
               PROVE  /\ mutex'[call'[u].handle] = u
                      /\ call'[u].event <= sent'
                      /\ call'[u].next <= Len(subscribers'[call'[u].handle]) + 1
                      /\ call'[u].missed \subseteq 1 .. call'[u].next - 1
    BY DEF CastsLocked
  <2>1. CASE u = t
    <3>1. Len(subscribers[h]) \in Nat
      BY <1>1, LenProperties DEF TypeOK
    <3>2. call'[t].missed \subseteq 1 .. call'[t].next - 1
      <4>1. call[t].missed \subseteq 1 .. p - 1
        BY <1>1 DEF CastInv, CastsLocked, p
      <4>2. 1 .. p - 1 \subseteq 1 .. p /\ (p + 1) - 1 = p
        BY <1>1
      <4> QED BY <4>1, <4>2, <1>1
    <3>3. call'[t].next <= Len(subscribers'[call'[t].handle]) + 1
      BY <3>1, <1>1, <1>2
    <3> QED BY <2>1, <3>2, <3>3, <1>1, <1>2, <1>6
  <2>2. CASE u # t
    BY <2>2, <1>1, <1>2, <1>4 DEF CastInv, CastsLocked
  <2> QED BY <2>1, <2>2
<1>8. CastsDistinct'
  BY <1>4 DEF CastInv, CastsDistinct
<1>9. EventsSent'
  <2> SUFFICES ASSUME NEW c \in Ctx, NEW i \in 1 .. Len(inbox'[c])
               PROVE  /\ inbox'[c][i].event <= sent'
                      /\ \A u \in Thread : (Casting(u)' /\ inbox'[c][i].handle = call'[u].handle)
                            => inbox'[c][i].event <= call'[u].event
    BY DEF EventsSent
  <2>1. CASE c # d \/ i # L + 1
    <3>1. i \in 1 .. Len(inbox[c]) /\ inbox'[c][i] = inbox[c][i]
      BY <2>1, <1>1, <1>3 DEF L
    <3> QED BY <3>1, <1>2, <1>4 DEF CastInv, EventsSent
  <2>2. CASE c = d /\ i = L + 1
    <3>1. call[t].event \in Nat
      BY <1>1, CastLocals
    <3>2. inbox'[c][i].event = call[t].event /\ inbox'[c][i].handle = h
      BY <2>2, <1>1
    <3>3. \A u \in Thread : (Casting(u)' /\ h = call'[u].handle) => u = t
      BY <1>4, <1>5
    <3> QED BY <3>1, <3>2, <3>3, <1>2, <1>4, <1>6
  <2> QED BY <2>1, <2>2
<1>10. EventsInOrder'
  <2> SUFFICES ASSUME NEW c \in Ctx, NEW k \in Handle,
                      NEW i \in Events(c, k)', NEW j \in Events(c, k)', i < j
               PROVE  inbox'[c][i].event <= inbox'[c][j].event
    BY DEF EventsInOrder
  <2>1. CASE c # d
    BY <2>1, <1>1 DEF CastInv, EventsInOrder, Events
  <2>2. CASE c = d
    <3>1. i \in 1 .. L + 1 /\ j \in 1 .. L + 1 /\ inbox'[d][i].handle = k /\ inbox'[d][j].handle = k
      BY <2>2, <1>3 DEF Events
    <3>2. i \in 1 .. L /\ inbox'[d][i] = inbox[d][i]
      BY <3>1, <1>1, <1>3
    <3>3. CASE j = L + 1
      <4>1. k = h /\ inbox'[d][j].event = call[t].event
        BY <3>1, <3>3, <1>1
      <4>2. inbox[d][i].event <= call[t].event
        <5>1. i \in 1 .. Len(inbox[d]) /\ inbox[d][i].handle = call[t].handle
          BY <3>1, <3>2, <4>1 DEF L, h
        <5> QED BY <5>1, <1>1 DEF CastInv, EventsSent
      <4> QED BY <2>2, <3>2, <4>1, <4>2
    <3>4. CASE j # L + 1
      <4>1. j \in 1 .. L /\ inbox'[d][j] = inbox[d][j]
        BY <3>1, <3>4, <1>1, <1>3
      <4>2. i \in Events(d, k) /\ j \in Events(d, k)
        BY <3>1, <3>2, <4>1, <1>3 DEF Events
      <4> QED BY <2>2, <3>2, <4>1, <4>2, <1>1 DEF CastInv, EventsInOrder
    <3> QED BY <3>3, <3>4
  <2> QED BY <2>1, <2>2
<1>11. CastsCounted'
  <2> SUFFICES ASSUME NEW u \in Thread, NEW c \in Ctx, Casting(u)'
               PROVE  Received(c, call[u].event)' = Cardinality(Passed(u, c))'
    BY DEF CastsCounted
  <2>1. Casting(u) /\ Received(c, call[u].event) = Cardinality(Passed(u, c))
    BY <1>4 DEF CastInv, CastsCounted
  <2> DEFINE R == {i \in DOMAIN inbox[c] : inbox[c][i].event = call[u].event}
             Rn == {i \in DOMAIN inbox'[c] : inbox'[c][i].event = call'[u].event}
  <2>2. Received(c, call[u].event) = Cardinality(R)
        /\ Received(c, call[u].event)' = Cardinality(Rn)
    BY DEF Received
  <2>3. CASE u # t
    <3>1. Passed(u, c)' = Passed(u, c)
      BY <2>3, <1>1, <1>2 DEF Passed
    <3>2. Rn = R
      <4>1. CASE c # d
        BY <4>1, <1>1, <1>4
      <4>2. CASE c = d
        <5>1. inbox'[d][L + 1].event # call[u].event
          BY <2>1, <2>3, <1>1, <1>5
        <5> QED BY <4>2, <5>1, <1>1, <1>3, <1>4
      <4> QED BY <4>1, <4>2
    <3> QED BY <2>1, <2>2, <3>1, <3>2
  <2>4. CASE u = t /\ c # d
    <3>1. Rn = R
      BY <2>4, <1>1
    <3>2. node[subscribers[h][p]].ctx = d
      BY DEF d
    <3>3. Passed(t, c) =
            {i \in 1 .. p - 1 : i \notin call[t].missed /\ node[subscribers[h][i]].ctx = c}
      BY DEF Passed, p, h
    <3>4. Passed(t, c)' =
            {i \in 1 .. p : i \notin call[t].missed /\ node[subscribers[h][i]].ctx = c}
      BY <1>1, <1>2 DEF Passed
    <3>5. Passed(t, c)' = Passed(t, c)
      BY <2>4, <3>2, <3>3, <3>4, <1>1
    <3> QED BY <2>1, <2>2, <2>4, <3>1, <3>5
  <2>5. CASE u = t /\ c = d
    <3>1. Rn = R \cup {L + 1} /\ L + 1 \notin R /\ R \subseteq 1 .. L
      BY <2>5, <1>1, <1>3
    <3>2. node[subscribers[h][p]].ctx = d /\ p > 0 /\ p \notin call[t].missed
      <4>1. p \in Nat \ {0} /\ call[t].missed \subseteq 1 .. p - 1
        BY <1>1, CastLocals DEF p, CastInv, CastsLocked
      <4> QED BY <4>1 DEF d
    <3>3. Passed(t, c) =
            {i \in 1 .. p - 1 : i \notin call[t].missed /\ node[subscribers[h][i]].ctx = c}
      BY DEF Passed, p, h
    <3>4. Passed(t, c)' =
            {i \in 1 .. p : i \notin call[t].missed /\ node[subscribers[h][i]].ctx = c}
      BY <1>1, <1>2 DEF Passed
    <3>5. Passed(t, c)' = Passed(t, c) \cup {p} /\ p \notin Passed(t, c)
          /\ Passed(t, c) \subseteq 1 .. p
      BY <2>5, <3>2, <3>3, <3>4, <1>1
    <3>6. IsFiniteSet(R) /\ IsFiniteSet(Passed(t, c))
      <4>1. IsFiniteSet(1 .. L) /\ IsFiniteSet(1 .. p)
        BY <1>1, <1>3, FS_Interval
      <4> QED BY <4>1, <3>1, <3>5, FS_Subset
    <3>7. Cardinality(Rn) = Cardinality(R) + 1
          /\ Cardinality(Passed(t, c)') = Cardinality(Passed(t, c)) + 1
      BY <3>1, <3>5, <3>6, FS_AddElement
    <3> QED BY <2>1, <2>2, <2>5, <3>7
  <2> QED BY <2>3, <2>4, <2>5
<1> QED BY <1>7, <1>8, <1>9, <1>10, <1>11 DEF CastInv

\* A failed allocation: the place is passed and not served, no file gets anything.
LEMMA MissStep ==
  ASSUME TypeOK, CastInv, NEW t \in Thread, BroadcastMiss(t)
  PROVE  CastInv'
<1> DEFINE h == call[t].handle
           p == call[t].next
           B == [at : {"broadcast"}, handle : Handle, next : Nat \ {0},
                 event : 1 .. MaxEvents, missed : SUBSET Nat]
<1>1. Casting(t) /\ p <= Len(subscribers[h])
      /\ call' = [call EXCEPT ![t].next = p + 1, ![t].missed = @ \cup {p}]
      /\ UNCHANGED <<node, subscribers, mutex, sent, inbox>>
  BY DEF BroadcastMiss, Casting
<1>2. call[t] \in B /\ h \in Handle /\ p \in Nat \ {0} /\ Len(subscribers[h]) \in Nat
  BY <1>1, CastLocals, LenProperties DEF TypeOK
<1>3. call'[t] = [call[t] EXCEPT !.next = p + 1, !.missed = @ \cup {p}]
      /\ \A u \in Thread : u # t => call'[u] = call[u]
  BY <1>1 DEF TypeOK
<1>4. ASSUME NEW r \in B, NEW k, NEW j
      PROVE  LET new == [r EXCEPT !.next = k, !.missed = @ \cup {j}]
             IN  /\ new.at = "broadcast" /\ new.handle = r.handle /\ new.event = r.event
                 /\ new.next = k /\ new.missed = r.missed \cup {j}
  OBVIOUS
<1> HIDE DEF p
<1>5. /\ call'[t].at = "broadcast" /\ call'[t].handle = h /\ call'[t].event = call[t].event
      /\ call'[t].next = p + 1 /\ call'[t].missed = call[t].missed \cup {p}
  BY <1>2, <1>3, <1>4
<1>6. \A u \in Thread : (Casting(u)' <=> Casting(u)) /\ call'[u].handle = call[u].handle
                        /\ call'[u].event = call[u].event
  BY <1>1, <1>3, <1>5 DEF Casting
<1> HIDE DEF h
<1>7. CastsLocked'
  <2> SUFFICES ASSUME NEW u \in Thread, Casting(u)'
               PROVE  /\ mutex'[call'[u].handle] = u
                      /\ call'[u].event <= sent'
                      /\ call'[u].next <= Len(subscribers'[call'[u].handle]) + 1
                      /\ call'[u].missed \subseteq 1 .. call'[u].next - 1
    BY DEF CastsLocked
  <2>1. CASE u = t
    <3>1. mutex[h] = t /\ call[t].event <= sent /\ call[t].missed \subseteq 1 .. p - 1
      BY <1>1 DEF CastInv, CastsLocked, h, p
    <3>2. call'[t].missed \subseteq 1 .. call'[t].next - 1
      <4>1. call[t].missed \cup {p} \subseteq 1 .. p /\ (p + 1) - 1 = p
        BY <1>2, <3>1
      <4> QED BY <4>1, <1>5
    <3>3. call'[t].next <= Len(subscribers'[call'[t].handle]) + 1
      BY <1>1, <1>2, <1>5 DEF h, p
    <3>4. mutex'[call'[t].handle] = t /\ call'[t].event <= sent'
      BY <3>1, <1>1, <1>5
    <3> QED BY <2>1, <3>2, <3>3, <3>4
  <2>2. CASE u # t
    BY <2>2, <1>1, <1>3, <1>6 DEF CastInv, CastsLocked
  <2> QED BY <2>1, <2>2
<1>8. CastsDistinct'
  BY <1>6 DEF CastInv, CastsDistinct
<1>9. EventsSent'
  <2>1. inbox' = inbox /\ sent' = sent
    BY <1>1
  <2>2. \A c \in Ctx : \A i \in 1 .. Len(inbox[c]) :
          /\ inbox[c][i].event <= sent
          /\ \A u \in Thread : (Casting(u) /\ inbox[c][i].handle = call[u].handle) =>
                inbox[c][i].event <= call[u].event
    BY DEF CastInv, EventsSent
  <2> QED BY ONLY <2>1, <2>2, <1>6 DEF EventsSent
<1>10. EventsInOrder'
  BY <1>1 DEF CastInv, EventsInOrder, Events
<1>11. CastsCounted'
  <2> SUFFICES ASSUME NEW u \in Thread, NEW c \in Ctx, Casting(u)'
               PROVE  Received(c, call[u].event)' = Cardinality(Passed(u, c))'
    BY DEF CastsCounted
  <2>1. Casting(u) /\ Received(c, call[u].event) = Cardinality(Passed(u, c))
    BY <1>6 DEF CastInv, CastsCounted
  <2>2. Received(c, call[u].event)' = Received(c, call[u].event)
    BY <1>1, <1>6 DEF Received
  <2>3. CASE u # t
    <3>1. Passed(u, c)' = Passed(u, c)
      BY <2>3, <1>1, <1>3 DEF Passed
    <3> QED BY <2>1, <2>2, <3>1
  <2>4. CASE u = t
    <3>1. Passed(t, c) =
            {i \in 1 .. p - 1 : i \notin call[t].missed /\ node[subscribers[h][i]].ctx = c}
      BY DEF Passed, p, h
    <3>2. Passed(t, c)' =
            {i \in 1 .. p : i \notin call[t].missed \cup {p} /\ node[subscribers[h][i]].ctx = c}
      <4>1. (p + 1) - 1 = p
        BY <1>2
      <4>2. UNCHANGED <<node, subscribers>>
        BY <1>1
      <4> QED BY <4>1, <4>2, <1>5 DEF Passed
    <3>3. Passed(t, c)' = Passed(t, c)
      BY <3>1, <3>2, <1>2
    <3> QED BY <2>1, <2>2, <2>4, <3>3
  <2> QED BY <2>3, <2>4
<1> QED BY <1>7, <1>8, <1>9, <1>10, <1>11 DEF CastInv

LEMMA CastInvariant == Spec => []CastInv
<1>1. Init => CastInv
  <2> SUFFICES ASSUME Init PROVE CastInv
    OBVIOUS
  <2>1. \A t \in Thread : ~Casting(t)
    BY DEF Init, Casting, Idle
  <2>2. \A c \in Ctx : DOMAIN inbox[c] = {} /\ 1 .. Len(inbox[c]) = {}
    BY EmptySeq DEF Init
  <2>3. EventsInOrder
    BY <2>2 DEF EventsInOrder, Events
  <2> QED BY <2>1, <2>2, <2>3 DEF CastInv, CastsLocked, CastsDistinct, EventsSent, CastsCounted
<1>2. TypeOK /\ TypeOK' /\ LinkInv /\ SubscribersAreAlive /\ CastInv /\ [Next]_vars => CastInv'
  <2> SUFFICES ASSUME TypeOK, TypeOK', LinkInv, SubscribersAreAlive, CastInv, [Next]_vars
               PROVE  CastInv'
    OBVIOUS
  <2>1. ASSUME UNCHANGED <<node, subscribers, mutex, sent, inbox>>,
               \A t \in Thread : Casting(t)' => Casting(t) /\ call'[t] = call[t]
        PROVE  CastInv'
    <3>1. CastsUndisturbed
      BY <2>1 DEF CastsUndisturbed
    <3> QED BY <2>1, <3>1, UndisturbedStep
  <2>2. ASSUME NEW t \in Thread, NEW h \in Handle, Subscribe(t, h) PROVE CastInv'
    <3>1. PICK s \in Sub :
            /\ node[s] = Free
            /\ node' = [node EXCEPT ![s] = [ctx |-> FdOf[t], handle |-> h]]
            /\ subscribers' = [subscribers EXCEPT ![h] = Append(@, s)]
            /\ call' = [call EXCEPT ![t] = [at |-> "backlink", sub |-> s]]
      BY <2>2 DEF Subscribe
    <3>2. mutex[h] = NoThread /\ UNCHANGED <<mutex, sent, inbox>>
      BY <2>2 DEF Subscribe
    <3>3. \A u \in Thread : Casting(u)' => Casting(u) /\ call'[u] = call[u]
      <4>1. [at |-> "backlink", sub |-> s].at # "broadcast"
        OBVIOUS
      <4>2. call'[t] = [at |-> "backlink", sub |-> s]
        BY <3>1 DEF TypeOK
      <4>3. \A u \in Thread : u # t => call'[u] = call[u]
        BY <3>1 DEF TypeOK
      <4> QED BY <4>1, <4>2, <4>3 DEF Casting
    <3>4. ASSUME NEW u \in Thread, Casting(u)
          PROVE  /\ subscribers'[call[u].handle] = subscribers[call[u].handle]
                 /\ \A x \in Elements(subscribers[call[u].handle]) : node'[x].ctx = node[x].ctx
      <4>1. call[u].handle \in Handle /\ call[u].handle # h
        BY <3>2, <3>4, CastLocals, ConstantsAssumption DEF CastInv, CastsLocked
      <4>2. \A x \in Elements(subscribers[call[u].handle]) : x \in Sub /\ x # s
        BY <3>1, <4>1, ElementsInSet, FreeIsNoNode DEF LinkInv, HandleLists, TypeOK
      <4> QED BY <3>1, <4>1, <4>2 DEF TypeOK
    <3>5. CastsUndisturbed
      BY <3>2, <3>3, <3>4 DEF CastsUndisturbed
    <3> QED BY <3>2, <3>5, UndisturbedStep
  <2>3. ASSUME NEW t \in Thread, SubscribeBack(t) PROVE CastInv'
    <3>1. \A u \in Thread : Casting(u)' => Casting(u) /\ call'[u] = call[u]
      BY <2>3 DEF SubscribeBack, Return, Casting, Idle, TypeOK
    <3> QED BY <2>1, <2>3, <3>1 DEF SubscribeBack
  <2>4. ASSUME NEW t \in Thread, NEW h \in Handle, Unsubscribe(t, h) PROVE CastInv'
    <3>1. PICK s : call' = [call EXCEPT ![t] = [at |-> "unhook", sub |-> s]]
      BY <2>4 DEF Unsubscribe
    <3>2. [at |-> "unhook", sub |-> s].at # "broadcast"
      OBVIOUS
    <3>3. call'[t] = [at |-> "unhook", sub |-> s]
      BY <3>1 DEF TypeOK
    <3>4. \A u \in Thread : u # t => call'[u] = call[u]
      BY <3>1 DEF TypeOK
    <3>5. \A u \in Thread : Casting(u)' => Casting(u) /\ call'[u] = call[u]
      BY <3>2, <3>3, <3>4 DEF Casting
    <3> QED BY <2>1, <2>4, <3>5 DEF Unsubscribe
  <2>5. ASSUME NEW t \in Thread, UnsubscribeHook(t) PROVE CastInv'
    <3>1. \A u \in Thread : Casting(u)' => Casting(u) /\ call'[u] = call[u]
      BY <2>5 DEF UnsubscribeHook, Return, Casting, Idle, TypeOK
    <3>2. call[t].sub \in Sub /\ node[call[t].sub] \in Node
      BY <2>5, CallLocals DEF UnsubscribeHook, LinkInv, CallsHold, InCall, Hooked, TypeOK
    <3>3. CastsUndisturbed /\ inbox' = inbox
      BY <2>5, <3>1, <3>2, UnhookUndisturbed DEF UnsubscribeHook
    <3> QED BY <3>3, UndisturbedStep
  <2>6. ASSUME NEW c \in Ctx, ReleaseHook(c) PROVE CastInv'
    <3>1. removing[c] \in Sub /\ node[removing[c]] \in Node
      BY <2>6 DEF ReleaseHook, LinkInv, ReleasesHold, Hooked, TypeOK
    <3>2. CastsUndisturbed /\ inbox' = inbox
      BY <2>6, <3>1, UnhookUndisturbed DEF ReleaseHook, Casting
    <3> QED BY <3>2, UndisturbedStep
  <2>7. ASSUME NEW c \in Ctx, Open(c) PROVE CastInv'
    <3>1. /\ UNCHANGED <<node, subscribers, mutex, call, sent>>
          /\ life[c] = "closed" /\ inbox' = [inbox EXCEPT ![c] = <<>>]
      BY <2>7 DEF Open
    <3>2. CastsUndisturbed
      BY <3>1 DEF CastsUndisturbed, Casting
    <3>3. \A t \in Thread : Casting(t) => Passed(t, c) = {}
      <4> SUFFICES ASSUME NEW t \in Thread, Casting(t), NEW i \in Passed(t, c) PROVE FALSE
        OBVIOUS
      <4> DEFINE h == call[t].handle
      <4>1. h \in Handle /\ call[t].next \in Nat /\ call[t].next <= Len(subscribers[h]) + 1
        BY CastLocals DEF CastInv, CastsLocked
      <4>2. Len(subscribers[h]) \in Nat
        BY <4>1, LenProperties DEF TypeOK
      <4>3. i \in 1 .. Len(subscribers[h]) /\ node[subscribers[h][i]].ctx = c
        BY <4>1, <4>2 DEF Passed
      <4>4. subscribers[h][i] \in Elements(subscribers[h])
        BY <4>3 DEF Elements
      <4> QED BY <3>1, <4>1, <4>3, <4>4 DEF SubscribersAreAlive
    <3>4. \A b \in Ctx : \/ inbox'[b] = inbox[b]
                         \/ /\ inbox'[b] = <<>>
                            /\ \A t \in Thread : Casting(t) => Passed(t, b) = {}
      BY <3>1, <3>3 DEF TypeOK
    <3> QED BY <3>2, <3>4, UndisturbedStep
  <2>8. ASSUME NEW t \in Thread, BroadcastEnd(t) PROVE CastInv'
    <3>1. \A u \in Thread : Casting(u)' => Casting(u) /\ call'[u] = call[u] /\ u # t
      BY <2>8 DEF BroadcastEnd, Return, Casting, Idle, TypeOK
    <3>2. mutex' = [mutex EXCEPT ![call[t].handle] = NoThread] /\ Casting(t)
          /\ UNCHANGED <<node, subscribers, sent, inbox>>
      BY <2>8 DEF BroadcastEnd, Casting
    <3>3. \A u \in Thread : Casting(u)' => call[u].handle # call[t].handle
                              /\ call[u].handle \in Handle
      BY <3>1, <3>2, OtherCasts, CastLocals
    <3>4. CastsUndisturbed
      BY <3>1, <3>2, <3>3 DEF CastsUndisturbed, TypeOK
    <3> QED BY <3>2, <3>4, UndisturbedStep
  <2>9. ASSUME UNCHANGED <<node, subscribers, mutex, sent, inbox, call>> PROVE CastInv'
    BY <2>1, <2>9 DEF Casting
  <2> QED
    BY <2>2, <2>3, <2>4, <2>5, <2>6, <2>7, <2>8, <2>9, BroadcastStep, DeliverStep,
       MissStep
       DEF Next, Begin, Continue, Release, Close, ReleaseNext, ReleaseEnd, vars
<1> QED BY <1>1, <1>2, TypeCorrect, LinkInvariant, SubscribersAreAliveHolds, PTL DEF Spec

\* A file gets the events of one handle in the order they were broadcast, even
\* when several threads broadcast at once.
THEOREM EventsInOrderHolds == Spec => []EventsInOrder
<1>1. CastInv => EventsInOrder
  BY DEF CastInv
<1> QED BY <1>1, CastInvariant, PTL

\* A broadcast that ends has given each open file the event once for each of
\* its subscriptions to the handle that the allocation succeeded for: no other
\* was skipped and none served twice, whatever other threads subscribed,
\* unsubscribed or closed meanwhile.
THEOREM BroadcastReachesAllHolds == Spec => BroadcastReachesAll
<1> DEFINE A == \A t \in Thread :
                  (call[t].at = "broadcast" /\ call'[t] = Idle) =>
                      \A c \in Ctx : life[c] = "open" =>
                          Received(c, call[t].event) = Served(t, c)
<1>1. TypeOK /\ LinkInv /\ CastInv /\ [Next]_vars => [A]_vars
  <2> SUFFICES ASSUME TypeOK, LinkInv, CastInv, Next,
                      NEW t \in Thread, Casting(t), call'[t] = Idle, NEW c \in Ctx
               PROVE  Received(c, call[t].event) = Served(t, c)
    BY DEF Casting
  <2> DEFINE h == call[t].handle
  <2>1. call'[t] # call[t] /\ call[t] # Idle
    BY DEF Casting, Idle
  <2>2. BroadcastEnd(t)
    <3>1. \A u \in Thread, k \in Handle :
            ~(CanCall(t) \/ Subscribe(t, k) \/ Unsubscribe(t, k) \/ Broadcast(t, k))
      BY <2>1 DEF CanCall, Subscribe, Unsubscribe, Broadcast
    <3>2. ~SubscribeBack(t) /\ ~UnsubscribeHook(t)
      BY DEF SubscribeBack, UnsubscribeHook, Casting
    <3>3. ~BroadcastDeliver(t) /\ ~BroadcastMiss(t)
      <4>1. BroadcastDeliver(t) => call'[t].at = "broadcast"
        BY DeliverEffect
      <4>2. BroadcastMiss(t) => call'[t].at = "broadcast"
        <5>1. call[t] \in [at : {"broadcast"}, handle : Handle, next : Nat \ {0},
                           event : 1 .. MaxEvents, missed : SUBSET Nat]
          BY CastLocals
        <5> QED BY <5>1 DEF BroadcastMiss, TypeOK
      <4> QED BY <4>1, <4>2 DEF Idle
    <3>4. \A u \in Thread, k \in Handle : u # t =>
            ~(Subscribe(u, k) \/ Unsubscribe(u, k) \/ Broadcast(u, k))
      BY <2>1 DEF Subscribe, Unsubscribe, Broadcast, TypeOK
    <3>5. \A u \in Thread : u # t =>
            ~(SubscribeBack(u) \/ UnsubscribeHook(u) \/ BroadcastDeliver(u) \/ BroadcastMiss(u)
               \/ BroadcastEnd(u))
      BY <2>1 DEF SubscribeBack, UnsubscribeHook, BroadcastDeliver, BroadcastMiss, BroadcastEnd,
                  Return, TypeOK
    <3>6. \A b \in Ctx : ~(Open(b) \/ Close(b) \/ Release(b))
      BY <2>1 DEF Open, Close, Release, ReleaseNext, ReleaseHook, ReleaseEnd
    <3> QED BY <3>1, <3>2, <3>3, <3>4, <3>5, <3>6 DEF Next, Begin, Continue
  <2>3. /\ h \in Handle /\ call[t].next \in Nat
        /\ call[t].next <= Len(subscribers[h]) + 1 /\ call[t].next > Len(subscribers[h])
    BY <2>2, CastLocals DEF CastInv, CastsLocked, BroadcastEnd
  <2>4. Len(subscribers[h]) \in Nat /\ DOMAIN subscribers[h] = 1 .. Len(subscribers[h])
    BY <2>3, LenProperties DEF TypeOK
  <2>5. call[t].next - 1 = Len(subscribers[h])
    BY <2>3, <2>4
  <2>6. Passed(t, c) = {i \in DOMAIN subscribers[h] \ call[t].missed :
                          node[subscribers[h][i]].ctx = c}
    BY <2>4, <2>5 DEF Passed
  <2> QED BY <2>6 DEF Served, CastInv, CastsCounted
<1>2. Spec => [][A]_vars
  BY <1>1, TypeCorrect, LinkInvariant, CastInvariant, PTL DEF Spec
<1> QED BY <1>2 DEF BroadcastReachesAll
=============================================================================
