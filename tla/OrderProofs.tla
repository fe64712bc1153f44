----------------------------- MODULE OrderProofs -----------------------------
(***************************************************************************)
(* Proofs about what becomes of a request in the driver (Dwq) when the     *)
(* programs behave: answers reach their caller and nothing is lost         *)
(* (OrderlySpec), and the requests of a client are served in order (one    *)
(* writer and one reader to a file).                                       *)
(***************************************************************************)
EXTENDS RequestProofs

-----------------------------------------------------------------------------
(* Programs that behave (OrderlySpec): the file of a request on its way     *)
(* stays open, and so does the context a writer has looked up until it has  *)
(* appended to it.  So nothing is appended to a list that is being drained  *)
(* or to memory that was freed.                                             *)

TravelKind == {"pending", "dispatched"} \cup HandKind
Travels(x) == \E p \in Place : p[1] \in TravelKind /\ Has(p, x)

CallersWait ==
    \A x \in Tx : Travels(x) => life[x.caller] = "open" /\ x.gen = gen[x.caller]

AnswersHome ==
    \A c \in Ctx, x \in Tx : \A k \in AnswerKind :
        AnswerIn(done[c], k, x) => x.caller = c /\ x.gen = gen[c]

TargetsStay ==
    \A t \in Thread : call[t].at \in {"append", "event"} =>
        life[call[t].to] \in {"open", "unregister", "freeDone"}

Draining(c) == life[c] \in {"drainPending", "drainDispatched"}
DrainedStay ==
    \A c \in Ctx : /\ Draining(c) => done[c] = <<>>
                   /\ life[c] = "drainDispatched" => pending[c] = <<>>

OrderInv == CallersWait /\ AnswersHome /\ TargetsStay /\ DrainedStay /\ NothingLost

LEMMA TravelsIsTravelling ==
  ASSUME NEW x \in Tx, Travels(x)
  PROVE  x \in Travelling
<1>1. PICK p \in Place : p[1] \in TravelKind /\ Has(p, x)
  BY DEF Travels
<1>2. CASE \E c \in Ctx : p = <<"pending", c>> \/ p = <<"dispatched", c>>
  BY <1>1, <1>2, HasKinds DEF Travelling
<1>3. CASE \E c \in Ctx, k \in AnswerKind : p = <<k, c>>
  BY <1>1, <1>3, KindFacts DEF TravelKind
<1>4. CASE \E t \in Thread, k \in HandKind : p = <<k, t>>
  <2>1. PICK t \in Thread, k \in HandKind : p = <<k, t>>
    BY <1>4
  <2>2. Carries(call[t], k, x)
    BY <1>1, <2>1, HasKinds
  <2>3. x \in InHand(t)
    BY <2>2 DEF Carries, InHand, HandKind
  <2> QED BY <2>3 DEF Travelling
<1> QED BY <1>2, <1>3, <1>4, PlaceKinds

\* A request that travels came from where it travelled, or is new; one that is
\* answered was answered before, or travelled and is answered to its caller.
LEMMA Ways ==
  ASSUME RequestStep, NEW x \in Tx
  PROVE  /\ Travels(x)' => \/ Travels(x)
                           \/ life'[x.caller] = "open" /\ x.gen = gen'[x.caller]
         /\ \A c \in Ctx : \A k \in AnswerKind :
               Has(<<k, c>>, x)' => Has(<<k, c>>, x) \/ (Travels(x) /\ c = x.caller)
<1> DEFINE Good ==
        /\ Travels(x)' => \/ Travels(x)
                          \/ life'[x.caller] = "open" /\ x.gen = gen'[x.caller]
        /\ \A c \in Ctx : \A k \in AnswerKind :
              Has(<<k, c>>, x)' => Has(<<k, c>>, x) \/ (Travels(x) /\ c = x.caller)
<1>1. \A c \in Ctx, k \in AnswerKind : <<k, c>> \in Place
  BY PlaceKinds
<1>2. ASSUME NEW X, NEW q, Moved(X, q), x \notin X PROVE Good
  <2>1. \A r \in Place : Has(r, x)' <=> Has(r, x)
    BY <1>2 DEF Moved
  <2>2. Travels(x)' <=> Travels(x)
    BY <2>1 DEF Travels
  <2> QED BY <1>1, <2>1, <2>2
<1>3. ASSUME NEW X, Moved(X, Nowhere), x \in X PROVE Good
  <2>1. \A r \in Place : ~Has(r, x)'
    BY <1>3, PlaceKinds DEF Moved
  <2> QED BY <1>1, <2>1 DEF Travels
<1>4. ASSUME NEW from, from \subseteq TravelKind, NEW k, NEW a, NEW f,
             Effect({x}, from, <<k, a>>, f), k \in AnswerKind => a = x.caller
      PROVE  Good
  <2>1. Travels(x)
    BY <1>4 DEF Effect, Travels
  <2>2. \A r \in Place : Has(r, x)' => r = <<k, a>>
    BY <1>4 DEF Effect, Moved
  <2>3. \A c, j : <<j, c>> = <<k, a>> => j = k /\ c = a
    OBVIOUS
  <2> QED BY <1>1, <1>4, <2>1, <2>2, <2>3
<1>5. ASSUME NEW q, NEW f, Submitted(x, q, f), q = Nowhere \/ \E t : q = <<"append", t>>
      PROVE  Good
  <2>1. \A r \in Place : Has(r, x)' => r = q
    BY <1>5 DEF Submitted, Moved
  <2>2. \A c \in Ctx, k \in AnswerKind : <<k, c>> # q
    BY <1>5, KindFacts DEF Nowhere
  <2> QED BY <1>1, <1>5, <2>1, <2>2 DEF Submitted
<1> HIDE DEF Good
<1>6. ASSUME NEW X, NEW from, NEW q, NEW f, Effect(X, from, q, f), x \notin X PROVE Good
  BY <1>2, <1>6 DEF Effect
<1>7. ASSUME NEW X, NEW from, NEW f, Effect(X, from, Nowhere, f) PROVE Good
  BY <1>2, <1>3, <1>7 DEF Effect
<1>8. ASSUME NEW y \in Tx, NEW from, from \subseteq TravelKind, NEW k, NEW a, NEW f,
             Effect({y}, from, <<k, a>>, f), k \in AnswerKind => a = y.caller
      PROVE  Good
  BY <1>4, <1>6, <1>8
<1>9. ASSUME NEW y \in Tx, NEW q, NEW f, Submitted(y, q, f),
             q = Nowhere \/ \E t : q = <<"append", t>>
      PROVE  Good
  <2>1. CASE y = x
    BY <1>5, <1>9, <2>1
  <2>2. CASE y # x
    BY <1>2, <1>9, <2>2 DEF Submitted
  <2> QED BY <2>1, <2>2
<1>10. /\ {"append"} \subseteq TravelKind /\ {"pending"} \subseteq TravelKind
       /\ {"dispatch"} \subseteq TravelKind /\ {"dispatched"} \subseteq TravelKind
       /\ {"answer"} \subseteq TravelKind /\ {"pending", "dispatched"} \subseteq TravelKind
       /\ "pending" \notin AnswerKind /\ "dispatch" \notin AnswerKind
       /\ "dispatched" \notin AnswerKind /\ "answer" \notin AnswerKind
  BY DEF TravelKind, HandKind, AnswerKind
<1>11. Moved({}, Nowhere) => Good
  BY <1>2
<1>12. \A y \in Tx :
          /\ \A c : Effect({y}, {"append"}, <<"pending", c>>, "live") => Good
          /\ \A t : Effect({y}, {"pending"}, <<"dispatch", t>>, "live") => Good
          /\ \A c : Effect({y}, {"dispatch"}, <<"dispatched", c>>, "live") => Good
          /\ \A t : Effect({y}, {"dispatched"}, <<"answer", t>>, "live") => Good
          /\ Effect({y}, {"answer"}, <<"reply", y.caller>>, "live") => Good
          /\ Effect({y}, {"pending", "dispatched"}, <<"nodev", y.caller>>, "live") => Good
  BY <1>8, <1>10
<1>13. Good
  BY <1>7, <1>9, <1>11, <1>12 DEF RequestStep
<1> QED BY <1>13 DEF Good

LEMMA LifeStep ==
  ASSUME TypeOK, [Next]_vars, NEW c \in Ctx
  PROVE  /\ life[c] = "open" => life'[c] \in {"open", "unregister"}
         /\ life[c] = "unregister" => life'[c] \in {"unregister", "freeDone"}
         /\ life[c] = "freeDone" => life'[c] \in {"freeDone", "drainPending"}
         /\ gen'[c] # gen[c] => life[c] = "closed" /\ done'[c] = <<>>
<1>1. ASSUME NEW t \in Thread, Begin(t) \/ Continue(t) PROVE UNCHANGED <<life, gen>>
  BY <1>1 DEF Begin, Register, Unregister, Request, Reply, Event, Read, ReadInterrupt,
     Continue, RegisterRole, RegisterHandle, UnregisterEntry, UnregisterRole,
     RequestAppend, RequestWake, ReplyAnswer, ReplyWake, EventDeliver, EventWake,
     EventUnlink, ReadCheck, ReadAgain, ReadRequest, ReadDispatch, ReadDone
<1>2. CASE UNCHANGED vars
  BY <1>2 DEF vars
<1>3. ASSUME NEW d \in Ctx, Open(d)
      PROVE  /\ life[d] = "closed" /\ done'[d] = <<>>
             /\ d # c => life'[c] = life[c] /\ gen'[c] = gen[c]
  BY <1>3 DEF Open, TypeOK
<1>4. ASSUME NEW d \in Ctx, Close(d) \/ Release(d)
      PROVE  /\ gen' = gen
             /\ d # c => life'[c] = life[c]
             /\ life[c] = "open" => life'[c] \in {"open", "unregister"}
             /\ life[c] = "unregister" => life'[c] \in {"unregister", "freeDone"}
             /\ life[c] = "freeDone" => life'[c] \in {"freeDone", "drainPending"}
  <2>1. CASE Close(d)
    BY <2>1 DEF Close, TypeOK
  <2>2. CASE ReleaseHandle(d) \/ ReleaseDone(d)
    BY <2>2 DEF ReleaseHandle, ReleaseDone, TypeOK
  <2>3. CASE ReleasePending(d)
    BY <2>3 DEF ReleasePending, TypeOK
  <2>4. CASE ReleaseDispatched(d)
    BY <2>4 DEF ReleaseDispatched, TypeOK
  <2>5. CASE ReleaseWake(d)
    BY <2>5 DEF ReleaseWake
  <2> QED BY <1>4, <2>1, <2>2, <2>3, <2>4, <2>5 DEF Release
<1> QED BY <1>1, <1>2, <1>3, <1>4 DEF Next

LEMMA CallersWaitStep ==
  ASSUME TypeOK, CallersWait, ClosesWhenAnswered, RequestStep, [Next]_vars
  PROVE  CallersWait'
<1> SUFFICES ASSUME NEW x \in Tx, Travels(x)'
             PROVE  life'[x.caller] = "open" /\ x.gen = gen'[x.caller]
  BY DEF CallersWait
<1>1. CASE Travels(x)
  <2>1. x.caller \in Ctx /\ life[x.caller] = "open" /\ x.gen = gen[x.caller]
    BY <1>1 DEF CallersWait, Tx
  <2>2. x \in Outstanding(x.caller)
    BY <1>1, TravelsIsTravelling DEF Outstanding
  <2>3. life'[x.caller] # "unregister"
    BY <2>1, <2>2 DEF ClosesWhenAnswered
  <2> QED BY <2>1, <2>3, LifeStep
<1> QED BY <1>1, Ways

LEMMA AnswersHomeStep ==
  ASSUME TypeOK, CallersWait, AnswersHome, RequestStep, [Next]_vars
  PROVE  AnswersHome'
<1> SUFFICES ASSUME NEW c \in Ctx, NEW x \in Tx, NEW k \in AnswerKind,
                    AnswerIn(done'[c], k, x)
             PROVE  x.caller = c /\ x.gen = gen'[c]
  BY DEF AnswersHome
<1>1. Has(<<k, c>>, x)'
  BY HasKinds
<1>2. x.caller = c /\ x.gen = gen[c]
  <2>1. CASE Has(<<k, c>>, x)
    BY <2>1, HasKinds DEF AnswersHome
  <2>2. CASE Travels(x) /\ c = x.caller
    BY <2>2 DEF CallersWait
  <2> QED BY <1>1, <2>1, <2>2, Ways
<1>3. done'[c] # <<>>
  BY NoElements
<1> QED BY <1>2, <1>3, LifeStep

\* A thread is about to append because it was, or because it has looked up an
\* entry of the table.
LEMMA LookupStep ==
  ASSUME TypeOK, [Next]_vars, NEW t \in Thread, call'[t].at \in {"append", "event"}
  PROVE  \/ call'[t] = call[t]
         \/ /\ life' = life
            /\ \E h \in Handle : handles[h] # NoCtx /\ call'[t].to = handles[h]
<1>1. \A f, c : WakeUp(f, c)[t].at \in {"append", "event"} => WakeUp(f, c)[t] = f[t]
  BY DEF WakeUp
<1>2. CASE UNCHANGED vars
  BY <1>2 DEF vars
<1>3. ASSUME NEW u \in Thread, NEW r, r.at \notin {"append", "event"},
             \/ call' = [call EXCEPT ![u] = r]
             \/ \E c : call' = WakeUp([call EXCEPT ![u] = r], c)
      PROVE  call'[t] = call[t]
  <2> DEFINE g == [call EXCEPT ![u] = r]
  <2>1. g[t] = r \/ g[t] = call[t]
    BY DEF TypeOK
  <2>2. call' = g \/ \E c : call' = WakeUp(g, c)
    BY <1>3
  <2> HIDE DEF g
  <2>3. call'[t] = g[t]
    BY <1>1, <2>2
  <2> QED BY <1>3, <2>1, <2>3
<1>4. ASSUME NEW u \in Thread, Begin(u)
      PROVE  \/ call'[t] = call[t]
             \/ /\ life' = life
                /\ \E h \in Handle : handles[h] # NoCtx /\ call'[t].to = handles[h]
  <2>1. CASE \E h \in UserHandle : Request(u, h)
    BY <2>1 DEF Request, Goto, TypeOK, UserHandle, Handle
  <2>2. CASE \E h \in UserHandle, id \in TxId : Event(u, h, id)
    BY <2>2 DEF Event, Goto, TypeOK, UserHandle, Handle
  <2>3. CASE (\E h \in UserHandle : Register(u, h)) \/ Unregister(u) \/ Read(u)
    <3>1. CASE \E h \in UserHandle : Register(u, h)
      BY <1>3, <3>1 DEF Register, Goto
    <3>2. CASE Unregister(u)
      BY <1>3, <3>2 DEF Unregister, Goto
    <3>3. CASE Read(u)
      BY <1>3, <3>3 DEF Read, Goto
    <3> QED BY <2>3, <3>1, <3>2, <3>3
  <2>4. CASE \E id \in TxId : Reply(u, id)
    BY <1>3, <2>4 DEF Reply, Goto
  <2>5. CASE ReadInterrupt(u)
    BY <1>3, <2>5 DEF ReadInterrupt, Return, Idle
  <2> QED BY <1>4, <2>1, <2>2, <2>3, <2>4, <2>5 DEF Begin
<1>5. ASSUME NEW u \in Thread, Continue(u) PROVE call'[t] = call[t]
  <2>1. CASE RequestWake(u) \/ ReplyWake(u)
    <3>1. Idle.at \notin {"append", "event"}
      BY DEF Idle
    <3>2. \E c : call' = WakeUp([call EXCEPT ![u] = Idle], c)
      BY <2>1 DEF RequestWake, ReplyWake
    <3> QED BY <1>3, <3>1, <3>2
  <2>2. CASE EventWake(u)
    <3>1. [at |-> "unlink", id |-> call[u].id].at \notin {"append", "event"}
      OBVIOUS
    <3>2. \E c : call' = WakeUp([call EXCEPT ![u] = [at |-> "unlink", id |-> call[u].id]], c)
      BY <2>2 DEF EventWake
    <3> QED BY <1>3, <3>1, <3>2
  <2>3. CASE RequestAppend(u) \/ ReplyAnswer(u) \/ EventDeliver(u)
    <3>1. \E r : Goto(u, r) /\ r.at \in {"wake", "wakeCaller", "wakeTarget", "unlink"}
      <4>1. CASE RequestAppend(u)
        BY <4>1 DEF RequestAppend
      <4>2. CASE ReplyAnswer(u)
        BY <4>2 DEF ReplyAnswer
      <4>3. CASE EventDeliver(u)
        <5>1. CASE Goto(u, [at |-> "wakeTarget", id |-> call[u].id, to |-> call[u].to])
          BY <5>1
        <5>2. CASE Goto(u, [at |-> "unlink", id |-> call[u].id])
          BY <5>2
        <5> QED BY <4>3, <5>1, <5>2 DEF EventDeliver
      <4> QED BY <2>3, <4>1, <4>2, <4>3
    <3> QED BY <1>3, <3>1 DEF Goto
  <2>4. CASE RegisterRole(u) \/ UnregisterEntry(u) \/ ReadCheck(u) \/ ReadRequest(u)
    BY <1>3, <2>4 DEF RegisterRole, UnregisterEntry, ReadCheck, ReadRequest, Goto
  <2>5. CASE \/ RegisterHandle(u) \/ UnregisterRole(u) \/ EventUnlink(u)
             \/ ReadAgain(u) \/ ReadDispatch(u) \/ ReadDone(u)
    BY <1>3, <2>5 DEF RegisterHandle, UnregisterRole, EventUnlink, ReadAgain, ReadDispatch,
       ReadDone, Return, Idle
  <2> QED BY <1>5, <2>1, <2>2, <2>3, <2>4, <2>5 DEF Continue
<1>6. ASSUME NEW c \in Ctx, Open(c) \/ Close(c) \/ Release(c) PROVE call'[t] = call[t]
  <2>1. call' = call \/ \E d : call' = WakeUp(call, d)
    BY <1>6 DEF Open, Close, Release, ReleaseHandle, ReleaseDone, ReleasePending,
       ReleaseDispatched, ReleaseWake
  <2> QED BY <1>1, <2>1
<1> QED BY <1>2, <1>4, <1>5, <1>6 DEF Next

LEMMA TargetsStayStep ==
  ASSUME TypeOK, EntriesAreOpen, TargetsStay, LookupsLandFirst, [Next]_vars
  PROVE  TargetsStay'
<1> SUFFICES ASSUME NEW t \in Thread, call'[t].at \in {"append", "event"}
             PROVE  life'[call'[t].to] \in {"open", "unregister", "freeDone"}
  BY DEF TargetsStay
<1>1. CASE call'[t] = call[t]
  <2>1. call[t].to \in Ctx /\ life[call[t].to] \in {"open", "unregister", "freeDone"}
    BY <1>1, CallLocals DEF TypeOK, TargetsStay
  <2>2. ~(life[call[t].to] = "freeDone" /\ life'[call[t].to] = "drainPending")
    BY <1>1, <2>1 DEF LookupsLandFirst
  <2> QED BY <1>1, <2>1, <2>2, LifeStep
<1>2. CASE /\ life' = life
           /\ \E h \in Handle : handles[h] # NoCtx /\ call'[t].to = handles[h]
  BY <1>2 DEF EntriesAreOpen
<1> QED BY <1>1, <1>2, LookupStep
\* What a thread answers, or appends, it holds until then.
LEMMA AnsweredIsOpen ==
  ASSUME TypeOK, CallsAreOpen, CallersWait
  PROVE  /\ \A t \in Thread : call[t].at = "answer" =>
               call[t].tx \in Tx /\ call[t].tx.caller \in Ctx /\ life[call[t].tx.caller] = "open"
         /\ \A c \in Ctx : pending[c] # <<>> =>
               Head(pending[c]).caller \in Ctx /\ life[Head(pending[c]).caller] = "open"
         /\ \A c \in Ctx : dispatched[c] # <<>> =>
               Head(dispatched[c]).caller \in Ctx /\ life[Head(dispatched[c]).caller] = "open"
<1>1. \A x \in Tx : x.caller \in Ctx
  BY DEF Tx
<1>2. ASSUME NEW x \in Tx, NEW p \in Place, p[1] \in TravelKind, Has(p, x)
      PROVE  x.caller \in Ctx /\ life[x.caller] = "open"
  BY <1>1, <1>2 DEF CallersWait, Travels
<1>3. ASSUME NEW t \in Thread, call[t].at = "answer"
      PROVE  call[t].tx \in Tx /\ call[t].tx.caller \in Ctx /\ life[call[t].tx.caller] = "open"
  <2>1. call[t].tx \in Tx
    BY <1>3, CallLocals DEF TypeOK
  <2>2. Has(<<"answer", t>>, call[t].tx) /\ <<"answer", t>> \in Place
    BY <1>3, HasKinds, KindFacts, PlaceKinds DEF Carries
  <2> QED BY <1>2, <2>1, <2>2, KindFacts DEF TravelKind
<1>4. ASSUME NEW s \in Seq(Tx), s # <<>> PROVE Head(s) \in Tx /\ Head(s) \in Elements(s)
  <2>1. Len(s) \in Nat \ {0} /\ Head(s) = s[1]
    BY <1>4, EmptySeq, HeadTailProperties
  <2> QED BY <2>1, ElementOfSeq DEF Elements
<1>5. ASSUME NEW c \in Ctx, pending[c] # <<>>
      PROVE  Head(pending[c]).caller \in Ctx /\ life[Head(pending[c]).caller] = "open"
  <2>1. Head(pending[c]) \in Tx /\ Head(pending[c]) \in Elements(pending[c])
    BY <1>4, <1>5 DEF TypeOK
  <2> QED BY <1>2, <2>1, HasKinds, PlaceKinds DEF TravelKind
<1>6. ASSUME NEW c \in Ctx, dispatched[c] # <<>>
      PROVE  Head(dispatched[c]).caller \in Ctx /\ life[Head(dispatched[c]).caller] = "open"
  <2>1. Head(dispatched[c]) \in Tx /\ Head(dispatched[c]) \in Elements(dispatched[c])
    BY <1>4, <1>6 DEF TypeOK
  <2> QED BY <1>2, <2>1, HasKinds, PlaceKinds DEF TravelKind
<1> QED BY <1>3, <1>5, <1>6

\* A thread is in the driver only on behalf of an open file.
LEMMA ContinueIsOpen ==
  ASSUME CallsAreOpen, NEW t \in Thread, Continue(t)
  PROVE  FdOf[t] \in Ctx /\ life[FdOf[t]] = "open"
<1>1. call[t] # Idle
  BY DEF Idle, Continue, RegisterRole, RegisterHandle, UnregisterEntry, UnregisterRole,
     RequestAppend, RequestWake, ReplyAnswer, ReplyWake, EventDeliver, EventWake,
     EventUnlink, ReadCheck, ReadAgain, ReadRequest, ReadDispatch, ReadDone
<1> QED BY <1>1, ConstantsAssumption DEF CallsAreOpen

LEMMA DrainedStayStep ==
  ASSUME TypeOK, CallsAreOpen, CallersWait, TargetsStay, DrainedStay, [Next]_vars
  PROVE  DrainedStay'
<1> DEFINE Good(c) == /\ Draining(c)' => done'[c] = <<>>
                      /\ life'[c] = "drainDispatched" => pending'[c] = <<>>
<1> SUFFICES ASSUME NEW c \in Ctx PROVE Good(c)
  BY DEF DrainedStay
<1>1. /\ Draining(c) => done[c] = <<>>
      /\ life[c] = "drainDispatched" => pending[c] = <<>>
  BY DEF DrainedStay
<1>2. ASSUME life'[c] = life[c], done'[c] = done[c] \/ ~Draining(c),
             pending'[c] = pending[c] \/ life[c] # "drainDispatched"
      PROVE  Good(c)
  BY <1>1, <1>2 DEF Draining
<1>3. ASSUME NEW d \in Ctx, NEW e, Deliver(d, e), ~Draining(d)
      PROVE  done'[c] = done[c] \/ ~Draining(c)
  BY <1>3 DEF Deliver, AddTail, TypeOK
<1>4. CASE UNCHANGED vars
  BY <1>2, <1>4 DEF vars, lists
<1>5. ASSUME NEW t \in Thread, Begin(t) PROVE Good(c)
  <2>1. UNCHANGED <<life, pending, done>>
    BY <1>5 DEF Begin, Register, Unregister, Request, Reply, Event, Read, ReadInterrupt, lists
  <2> QED BY <1>2, <2>1
<1>6. ASSUME NEW t \in Thread, Continue(t) PROVE Good(c)
  <2>1. FdOf[t] \in Ctx /\ life[FdOf[t]] = "open" /\ life' = life
    <3>1. life' = life
      BY <1>6 DEF Continue, RegisterRole, RegisterHandle, UnregisterEntry, UnregisterRole,
         RequestAppend, RequestWake, ReplyAnswer, ReplyWake, EventDeliver, EventWake,
         EventUnlink, ReadCheck, ReadAgain, ReadRequest, ReadDispatch, ReadDone
    <3> QED BY <1>6, <3>1, ContinueIsOpen
  <2>2. CASE RequestAppend(t)
    <3>1. call[t].to \in Ctx /\ life[call[t].to] # "drainDispatched"
      BY <2>2, CallLocals DEF RequestAppend, TypeOK, TargetsStay
    <3> QED BY <1>2, <2>1, <2>2, <3>1 DEF RequestAppend, AddTail, TypeOK
  <2>3. CASE ReplyAnswer(t)
    <3>1. call[t].tx.caller \in Ctx /\ ~Draining(call[t].tx.caller)
      BY <2>3, AnsweredIsOpen DEF ReplyAnswer, Draining
    <3>2. done'[c] = done[c] \/ ~Draining(c)
      BY <1>3, <2>3, <3>1 DEF ReplyAnswer
    <3> QED BY <1>2, <2>1, <2>3, <3>2 DEF ReplyAnswer
  <2>4. CASE EventDeliver(t)
    <3>1. call[t].to \in Ctx /\ ~Draining(call[t].to)
      BY <2>4, CallLocals DEF EventDeliver, TypeOK, TargetsStay, Draining
    <3>2. done'[c] = done[c] \/ ~Draining(c)
      BY <1>3, <2>4, <3>1 DEF EventDeliver
    <3> QED BY <1>2, <2>1, <2>4, <3>2 DEF EventDeliver
  <2>5. CASE ReadRequest(t) \/ ReadDone(t)
    BY <1>2, <2>1, <2>5 DEF ReadRequest, ReadDone, Draining, TypeOK
  <2>6. CASE UNCHANGED <<pending, done>>
    BY <1>2, <2>1, <2>6
  <2> QED BY <1>6, <2>2, <2>3, <2>4, <2>5, <2>6
          DEF Continue, RegisterRole, RegisterHandle, UnregisterEntry, UnregisterRole,
              RequestWake, ReplyWake, EventWake, EventUnlink, ReadCheck, ReadAgain,
              ReadDispatch, lists
<1>7. ASSUME NEW d \in Ctx, Open(d) PROVE Good(c)
  BY <1>1, <1>7 DEF Open, TypeOK, Draining
<1>8. ASSUME NEW d \in Ctx, Close(d) \/ ReleaseHandle(d) \/ ReleaseDone(d) PROVE Good(c)
  BY <1>1, <1>8 DEF Close, ReleaseHandle, ReleaseDone, TypeOK, Draining, lists
<1>9. ASSUME NEW d \in Ctx, NEW x, NotifyClosed(d, x), x.caller \in Ctx, life[x.caller] = "open"
      PROVE  done'[c] = done[c] \/ ~Draining(c)
  BY <1>3, <1>9 DEF NotifyClosed, Draining
<1>10. ASSUME NEW d \in Ctx, ReleasePending(d) PROVE Good(c)
  <2>1. CASE pending[d] # <<>> /\ NotifyClosed(d, Head(pending[d]))
    <3>1. done'[c] = done[c] \/ ~Draining(c)
      BY <1>9, <2>1, AnsweredIsOpen
    <3> QED BY <1>2, <1>10, <2>1, <3>1 DEF ReleasePending, TypeOK
  <2>2. CASE pending[d] = <<>>
    BY <1>1, <1>10, <2>2 DEF ReleasePending, TypeOK, Draining
  <2> QED BY <1>10, <2>1, <2>2 DEF ReleasePending
<1>11. ASSUME NEW d \in Ctx, ReleaseDispatched(d) PROVE Good(c)
  <2>1. CASE dispatched[d] # <<>> /\ NotifyClosed(d, Head(dispatched[d]))
    <3>1. done'[c] = done[c] \/ ~Draining(c)
      BY <1>9, <2>1, AnsweredIsOpen
    <3> QED BY <1>2, <1>11, <2>1, <3>1 DEF ReleaseDispatched, TypeOK
  <2>2. CASE dispatched[d] = <<>>
    BY <1>1, <1>11, <2>2 DEF ReleaseDispatched, TypeOK, Draining
  <2> QED BY <1>11, <2>1, <2>2 DEF ReleaseDispatched
<1>12. ASSUME NEW d \in Ctx, ReleaseWake(d) PROVE Good(c)
  BY <1>2, <1>12 DEF ReleaseWake, lists
<1> HIDE DEF Good
<1> QED BY <1>4, <1>5, <1>6, <1>7, <1>8, <1>10, <1>11, <1>12 DEF Next, Release

LEMMA NothingLostStep ==
  ASSUME TypeOK, CallsAreOpen, CallersWait, TargetsStay, DrainedStay, NothingLost, [Next]_vars
  PROVE  NothingLost'
<1> SUFFICES ASSUME NEW x \in Tx PROVE fate'[x] # "lost"
  BY DEF NothingLost
<1>1. fate[x] # "lost"
  BY DEF NothingLost
<1>2. ASSUME NEW X, NEW f, Mark(X, f), f # "lost" \/ X = {} PROVE fate'[x] # "lost"
  BY <1>1, <1>2 DEF Mark
<1>3. ASSUME NEW d, NEW y, MarkIfFreed(d, y), life[d] # "closed" PROVE fate'[x] # "lost"
  BY <1>2, <1>3 DEF MarkIfFreed
<1>4. CASE UNCHANGED fate
  BY <1>1, <1>4
<1>5. ASSUME NEW t \in Thread, Begin(t) PROVE fate'[x] # "lost"
  <2>1. CASE \E h \in UserHandle : Request(t, h)
    BY <1>2, <2>1 DEF Request
  <2> QED BY <1>4, <1>5, <2>1
          DEF Begin, Register, Unregister, Reply, Event, Read, ReadInterrupt
<1>6. ASSUME NEW t \in Thread, Continue(t) PROVE fate'[x] # "lost"
  <2>1. CASE RequestAppend(t)
    <3>1. life[call[t].to] # "closed"
      BY <2>1 DEF RequestAppend, TargetsStay
    <3> QED BY <1>3, <2>1, <3>1 DEF RequestAppend
  <2>2. CASE ReplyAnswer(t)
    <3>1. life[call[t].tx.caller] # "closed"
      BY <2>2, AnsweredIsOpen DEF ReplyAnswer
    <3> QED BY <1>3, <2>2, <3>1 DEF ReplyAnswer
  <2>3. CASE EventUnlink(t)
    BY <1>1, <1>2, <2>3 DEF EventUnlink
  <2>4. CASE ReadDone(t)
    BY <1>2, <2>4 DEF ReadDone
  <2> QED BY <1>4, <1>6, <2>1, <2>2, <2>3, <2>4
          DEF Continue, RegisterRole, RegisterHandle, UnregisterEntry, UnregisterRole,
              RequestWake, ReplyWake, EventWake, EventDeliver, ReadCheck, ReadAgain,
              ReadRequest, ReadDispatch
<1>7. ASSUME NEW d \in Ctx, Open(d) \/ Close(d) \/ ReleaseHandle(d) \/ ReleaseDone(d)
                               \/ ReleaseWake(d)
      PROVE  fate'[x] # "lost"
  BY <1>2, <1>4, <1>7 DEF Open, Close, ReleaseHandle, ReleaseDone, ReleaseWake
<1>8. ASSUME NEW d \in Ctx, ReleasePending(d) PROVE fate'[x] # "lost"
  <2>1. CASE pending[d] # <<>> /\ NotifyClosed(d, Head(pending[d]))
    <3>1. life[Head(pending[d]).caller] # "closed"
      BY <2>1, AnsweredIsOpen
    <3> QED BY <1>3, <2>1, <3>1 DEF NotifyClosed
  <2> QED BY <1>4, <1>8, <2>1 DEF ReleasePending
<1>9. ASSUME NEW d \in Ctx, ReleaseDispatched(d) PROVE fate'[x] # "lost"
  <2>1. CASE dispatched[d] # <<>> /\ NotifyClosed(d, Head(dispatched[d]))
    <3>1. life[Head(dispatched[d]).caller] # "closed"
      BY <2>1, AnsweredIsOpen
    <3> QED BY <1>3, <2>1, <3>1 DEF NotifyClosed
  <2>2. CASE Mark(Elements(pending[d]) \cup Answered(Elements(done[d])), "lost")
    <3>1. pending[d] = <<>> /\ done[d] = <<>>
      BY <1>9 DEF ReleaseDispatched, DrainedStay, Draining
    <3>2. Elements(pending[d]) \cup Answered(Elements(done[d])) = {}
      BY <3>1, NoElements DEF Answered
    <3> QED BY <1>2, <2>2, <3>2
  <2> QED BY <1>9, <2>1, <2>2 DEF ReleaseDispatched
<1>10. CASE UNCHANGED vars
  BY <1>4, <1>10 DEF vars
<1> QED BY <1>5, <1>6, <1>7, <1>8, <1>9, <1>10 DEF Next, Release

LEMMA OrderInvInit ==
  ASSUME Init
  PROVE  OrderInv
<1>1. /\ \A c \in Ctx : pending[c] = <<>> /\ dispatched[c] = <<>> /\ done[c] = <<>>
      /\ \A t \in Thread : call[t].at = "idle"
      /\ \A x \in Tx : fate[x] = "none"
      /\ \A c \in Ctx : life[c] = "closed"
  BY DEF Init, Idle
<1>2. \A x \in Tx : ~Travels(x)
  <2>1. \A x \in Tx, c \in Ctx : ~Has(<<"pending", c>>, x) /\ ~Has(<<"dispatched", c>>, x)
    BY <1>1, NoElements, HasKinds
  <2>2. \A x \in Tx, t \in Thread, k \in HandKind : ~Has(<<k, t>>, x)
    BY <1>1, HasKinds DEF Carries, HandKind
  <2>3. \A r \in Place : r[1] \in TravelKind =>
            \/ \E c \in Ctx : r = <<"pending", c>> \/ r = <<"dispatched", c>>
            \/ \E t \in Thread, k \in HandKind : r = <<k, t>>
    BY PlaceKinds, KindFacts DEF TravelKind
  <2> QED BY <2>1, <2>2, <2>3 DEF Travels
<1>3. AnswersHome
  BY <1>1, NoElements DEF AnswersHome
<1> QED BY <1>1, <1>2, <1>3 DEF OrderInv, CallersWait, TargetsStay, DrainedStay, NothingLost

LEMMA OrderInvStep ==
  ASSUME TypeOK, Opened, RequestInv, EntriesAreOpen, OrderInv, [Next]_vars,
         ClosesWhenAnswered, LookupsLandFirst
  PROVE  OrderInv'
<1>1. RequestStep
  BY EveryStepMoves DEF RequestOK
<1> QED BY <1>1, CallersWaitStep, AnswersHomeStep, TargetsStayStep, DrainedStayStep,
           NothingLostStep DEF OrderInv, RequestInv

LEMMA OrderInvariant == OrderlySpec => [](TypeOK /\ OrderInv)
<1>1. Init => OrderInv
  BY OrderInvInit
<1>2. (TypeOK /\ Opened /\ RequestInv /\ EntriesAreOpen /\ OrderInv /\ [Next /\ Orderly]_vars)
        => OrderInv'
  <2> SUFFICES ASSUME TypeOK, Opened, RequestInv, EntriesAreOpen, OrderInv,
                      [Next /\ Orderly]_vars
               PROVE  OrderInv'
    OBVIOUS
  <2>1. ClosesWhenAnswered /\ LookupsLandFirst
    <3>1. CASE UNCHANGED vars
      BY <3>1 DEF vars, ClosesWhenAnswered, LookupsLandFirst
    <3> QED BY <3>1 DEF Orderly
  <2> QED BY <2>1, OrderInvStep
<1>3. OrderlySpec => [](TypeOK /\ Opened /\ RequestInv)
  BY OrderlyIsSpec, RequestInvariant, PTL
<1> QED BY <1>1, <1>2, <1>3, EntriesAreOpenHolds, PTL DEF OrderlySpec

\* tx->caller is a bare pointer, and the address may be handed out again; yet
\* as long as clients close their files only when they have been answered, an
\* answer is found only by the file whose request it answers.
THEOREM AnswersReachTheCallerHolds == OrderlySpec => []AnswersReachTheCaller
<1>1. TypeOK /\ OrderInv => AnswersReachTheCaller
  <2> SUFFICES ASSUME TypeOK, AnswersHome, NEW c \in Ctx, NEW x \in Answered(Elements(done[c]))
               PROVE  x.caller = c /\ x.gen = gen[c]
    BY DEF OrderInv, AnswersReachTheCaller
  <2>1. done[c] \in Seq(Entry)
    BY DEF TypeOK
  <2>2. PICK i \in 1 .. Len(done[c]) : done[c][i].kind # "event" /\ done[c][i].tx = x
    BY DEF Answered, Elements
  <2>3. x \in Tx /\ done[c][i].kind \in AnswerKind
    BY <2>1, <2>2, ElementOfSeq, EntryKind
  <2>4. AnswerIn(done[c], done[c][i].kind, x)
    BY <2>2 DEF AnswerIn
  <2> QED BY <2>3, <2>4 DEF AnswersHome
<1> QED BY <1>1, OrderInvariant, PTL

\* With such programs no interleaving of write(), read() and dwq_release drops
\* a request: none is appended to a list after the release has drained it.
THEOREM NothingLostHolds == OrderlySpec => []NothingLost
BY OrderInvariant, PTL DEF OrderInv


-----------------------------------------------------------------------------
(* Files whose requests one thread writes, and whose requests, if the file  *)
(* may be a server, one thread reads: requests are served in order.         *)

OneWriterEach ==
    \A t, u \in Thread :
        FdOf[t] = FdOf[u] /\ "request" \in May[t] /\ "request" \in May[u] => t = u

MayServe(c) == \E v \in Thread : FdOf[v] = c /\ "register" \in May[v]
OneReaderEach ==
    \A t, u \in Thread :
        FdOf[t] = FdOf[u] /\ MayServe(FdOf[t]) /\ "read" \in May[t] /\ "read" \in May[u]
            => t = u

Before(x, y) == x.caller = y.caller /\ x.gen = y.gen => x.id < y.id
Sorted(s) == \A i, j \in 1 .. Len(s) : i < j => Before(s[i], s[j])

\* A writer's request in hand is the last its file has written.
WritersHold ==
    \A t \in Thread : call[t].at = "append" =>
        /\ "request" \in May[t]
        /\ call[t].tx.caller = FdOf[t]
        /\ call[t].tx.gen = gen[FdOf[t]]
        /\ call[t].tx.id = txCounter[FdOf[t]]

\* Only files that may register are read as servers.
Serves(r) == \/ r.at \in {"check", "asleep", "pop"} /\ r.on = "pending"
             \/ r.at = "dispatch"
ServersServe ==
    /\ \A c \in Ctx : isServer[c] => MayServe(c)
    /\ \A t \in Thread : call[t].at = "setRole" => MayServe(FdOf[t])
    /\ \A t \in Thread : Serves(call[t]) => "read" \in May[t] /\ MayServe(FdOf[t])

\* dispatched_list, the request in the reader's hands and pending_list.
InOrder(s) ==
    /\ Sorted(dispatched[s]) /\ Sorted(pending[s])
    /\ \A x \in Elements(dispatched[s]), y \in Elements(pending[s]) : Before(x, y)
    /\ \A t \in Thread : FdOf[t] = s /\ call[t].at = "dispatch" =>
          /\ \A x \in Elements(dispatched[s]) : Before(x, call[t].tx)
          /\ \A y \in Elements(pending[s]) : Before(call[t].tx, y)

ServingInv == WritersHold /\ ServersServe /\ \A s \in Ctx : InOrder(s)

LEMMA SortedAppend ==
  ASSUME NEW S, NEW s \in Seq(S), NEW x \in S, Sorted(s),
         \A y \in Elements(s) : Before(y, x)
  PROVE  Sorted(Append(s, x))
<1> DEFINE s2 == Append(s, x)
<1>1. /\ Len(s) \in Nat /\ Len(s2) = Len(s) + 1
      /\ \A i \in 1 .. Len(s) : s2[i] = s[i]
      /\ s2[Len(s) + 1] = x
  BY LenProperties, AppendProperties
<1> HIDE DEF s2
<1>2. \A i \in 1 .. Len(s) : Before(s[i], x)
  BY DEF Elements
<1>3. Sorted(s2)
  BY <1>1, <1>2 DEF Sorted
<1> QED BY <1>3 DEF s2

LEMMA SortedTail ==
  ASSUME NEW S, NEW s \in Seq(S), s # <<>>, Sorted(s)
  PROVE  Sorted(Tail(s)) /\ \A y \in Elements(Tail(s)) : Before(Head(s), y) /\ y \in Elements(s)
<1> DEFINE s2 == Tail(s)
<1>1. /\ Len(s) \in Nat \ {0} /\ Len(s2) = Len(s) - 1
      /\ \A i \in 1 .. Len(s2) : s2[i] = s[i + 1]
      /\ Head(s) = s[1]
  BY EmptySeq, HeadTailProperties
<1> HIDE DEF s2
<1>2. Sorted(s2)
  <2> SUFFICES ASSUME NEW i \in 1 .. Len(s2), NEW j \in 1 .. Len(s2), i < j
               PROVE  Before(s2[i], s2[j])
    BY DEF Sorted
  <2>1. s2[i] = s[i + 1] /\ s2[j] = s[j + 1]
    BY <1>1
  <2>2. i + 1 \in 1 .. Len(s) /\ j + 1 \in 1 .. Len(s) /\ i + 1 < j + 1
    BY <1>1
  <2> QED BY <2>1, <2>2 DEF Sorted
<1>3. ASSUME NEW y \in Elements(s2) PROVE Before(Head(s), y) /\ y \in Elements(s)
  <2>1. PICK i \in 1 .. Len(s2) : y = s2[i]
    BY DEF Elements
  <2>2. i + 1 \in 1 .. Len(s) /\ 1 \in 1 .. Len(s) /\ 1 < i + 1 /\ y = s[i + 1]
    BY <1>1, <2>1
  <2> QED BY <1>1, <2>2 DEF Sorted, Elements
<1> QED BY <1>2, <1>3 DEF s2

LEMMA SortedDel ==
  ASSUME NEW S, NEW s \in Seq(S), NEW i \in 1 .. Len(s), Sorted(s)
  PROVE  LET r == SubSeq(s, 1, i - 1) \o SubSeq(s, i + 1, Len(s))
         IN  Sorted(r) /\ Elements(r) \subseteq Elements(s)
<1> DEFINE n  == Len(s)
           s1 == SubSeq(s, 1, i - 1)
           s2 == SubSeq(s, i + 1, n)
           r  == s1 \o s2
<1>1. n \in Nat /\ \A j \in 1 .. n : s[j] \in S
  BY LenProperties, ElementOfSeq
<1>2. /\ s1 \in Seq(S) /\ Len(s1) = i - 1
      /\ \A j \in 1 .. i - 1 : s1[j] = s[j]
  BY <1>1, SubSeqProperties
<1>3. /\ s2 \in Seq(S) /\ Len(s2) = n - i
      /\ \A j \in 1 .. n - i : s2[j] = s[i + j]
  BY <1>1, SubSeqProperties
<1> HIDE DEF s1, s2
<1>4. /\ Len(r) = Len(s1) + Len(s2)
      /\ \A j \in 1 .. Len(s1) + Len(s2) :
            r[j] = IF j <= Len(s1) THEN s1[j] ELSE s2[j - Len(s1)]
  BY <1>2, <1>3, ConcatProperties
<1> HIDE DEF r
<1>5. Len(s1) + Len(s2) = n - 1
  BY <1>1, <1>2, <1>3
<1> DEFINE at(j) == IF j < i THEN j ELSE j + 1
<1>6. ASSUME NEW j \in 1 .. n - 1 PROVE at(j) \in 1 .. n /\ r[j] = s[at(j)]
  <2>1. CASE j < i
    BY <1>1, <1>2, <1>4, <1>5, <2>1 DEF n
  <2>2. CASE ~(j < i)
    <3>1. j - (i - 1) \in 1 .. n - i /\ i + (j - (i - 1)) = j + 1
      BY <1>1, <2>2 DEF n
    <3>2. s2[j - (i - 1)] = s[j + 1]
      BY <1>3, <3>1
    <3>3. j \in 1 .. Len(s1) + Len(s2) /\ ~(j <= Len(s1)) /\ at(j) = j + 1 /\ at(j) \in 1 .. n
      BY <1>1, <1>2, <1>5, <2>2 DEF n
    <3> QED BY <1>2, <1>4, <3>2, <3>3
  <2> QED BY <2>1, <2>2
<1>7. \A j, k \in 1 .. n - 1 : j < k => at(j) < at(k)
  BY <1>1 DEF n
<1> HIDE DEF at
<1>8. Sorted(r)
  BY <1>4, <1>5, <1>6, <1>7 DEF Sorted, n
<1>9. Elements(r) \subseteq Elements(s)
  <2> SUFFICES ASSUME NEW j \in 1 .. n - 1 PROVE r[j] \in Elements(s)
    BY <1>4, <1>5 DEF Elements
  <2> QED BY <1>6 DEF Elements, n
<1> QED BY <1>8, <1>9 DEF r, s1, s2, n

\* A thread that does not move itself may be woken up.
Undisturbed(t) ==
    \/ call'[t] = call[t]
    \/ call[t].at = "asleep" /\ call'[t] = [at |-> "check", on |-> call[t].on]

LEMMA WokenUp ==
  ASSUME NEW f, NEW t \in Thread, f[t] = call[t], call' = f \/ \E c : call' = WakeUp(f, c)
  PROVE  Undisturbed(t)
<1>1. \A c : \/ WakeUp(f, c)[t] = call[t]
             \/ call[t].at = "asleep" /\ WakeUp(f, c)[t] = [at |-> "check", on |-> call[t].on]
  BY DEF WakeUp
<1> QED BY <1>1 DEF Undisturbed

LEMMA OthersCalls ==
  ASSUME TypeOK, NEW u \in Thread, Begin(u) \/ Continue(u), NEW t \in Thread, t # u
  PROVE  Undisturbed(t)
<1>1. ASSUME NEW r,
             \/ call' = [call EXCEPT ![u] = r]
             \/ \E c : call' = WakeUp([call EXCEPT ![u] = r], c)
      PROVE  Undisturbed(t)
  <2> DEFINE g == [call EXCEPT ![u] = r]
  <2>1. g[t] = call[t]
    BY DEF TypeOK
  <2>2. call' = g \/ \E c : call' = WakeUp(g, c)
    BY <1>1
  <2> HIDE DEF g
  <2> QED BY <2>1, <2>2, WokenUp
<1>2. CASE Begin(u)
  <2>1. call' = call \/ \E r : call' = [call EXCEPT ![u] = r]
    BY <1>2 DEF Begin, Register, Unregister, Request, Reply, Event, Read, ReadInterrupt,
       Goto, Return
  <2> QED BY <1>1, <2>1 DEF Undisturbed
<1>3. CASE Continue(u)
  <2>1. \E r : call' = [call EXCEPT ![u] = r] \/ \E c : call' = WakeUp([call EXCEPT ![u] = r], c)
    <3>1. CASE RequestWake(u)
      BY <3>1 DEF RequestWake
    <3>2. CASE ReplyWake(u)
      BY <3>2 DEF ReplyWake
    <3>3. CASE EventWake(u)
      BY <3>3 DEF EventWake
    <3>4. CASE ~RequestWake(u) /\ ~ReplyWake(u) /\ ~EventWake(u)
      BY <1>3, <3>4 DEF Continue, RegisterRole, RegisterHandle, UnregisterEntry,
         UnregisterRole, RequestAppend, ReplyAnswer, EventDeliver, EventUnlink, ReadCheck,
         ReadAgain, ReadRequest, ReadDispatch, ReadDone, Goto, Return
    <3> QED BY <3>1, <3>2, <3>3, <3>4
  <2> QED BY <1>1, <2>1
<1> QED BY <1>2, <1>3

LEMMA FileCalls ==
  ASSUME NEW c \in Ctx, Open(c) \/ Close(c) \/ Release(c), NEW t \in Thread
  PROVE  Undisturbed(t)
<1>1. call' = call \/ \E d : call' = WakeUp(call, d)
  BY DEF Open, Close, Release, ReleaseHandle, ReleaseDone, ReleasePending,
     ReleaseDispatched, ReleaseWake
<1> QED BY <1>1, WokenUp

\* A thread moves by its own steps, or it is woken up.
LEMMA CallStep ==
  ASSUME TypeOK, [Next]_vars, NEW t \in Thread
  PROVE  Undisturbed(t) \/ Begin(t) \/ Continue(t)
<1>1. CASE UNCHANGED vars
  BY <1>1 DEF vars, Undisturbed
<1>2. ASSUME NEW u \in Thread, Begin(u) \/ Continue(u), u # t PROVE Undisturbed(t)
  BY <1>2, OthersCalls
<1>3. ASSUME NEW c \in Ctx, Open(c) \/ Close(c) \/ Release(c) PROVE Undisturbed(t)
  BY <1>3, FileCalls
<1> QED BY <1>1, <1>2, <1>3 DEF Next

\* What a step of its own may get a thread to.
LEMMA OwnStep ==
  ASSUME TypeOK, NEW t \in Thread, Begin(t) \/ Continue(t)
  PROVE  /\ call'[t].at = "append" => \E h \in UserHandle : "request" \in May[t] /\ Request(t, h)
         /\ call'[t].at = "setRole" => "register" \in May[t]
         /\ call'[t].at = "dispatch" => ReadRequest(t)
         /\ call'[t].at \in {"check", "asleep", "pop"} =>
              \/ Read(t) /\ "read" \in May[t]
              \/ ReadCheck(t)
<1> DEFINE P == /\ call'[t].at = "append" =>
                     \E h \in UserHandle : "request" \in May[t] /\ Request(t, h)
                /\ call'[t].at = "setRole" => "register" \in May[t]
                /\ call'[t].at = "dispatch" => ReadRequest(t)
                /\ call'[t].at \in {"check", "asleep", "pop"} =>
                     \/ Read(t) /\ "read" \in May[t]
                     \/ ReadCheck(t)
<1>1. \A r : [call EXCEPT ![t] = r][t] = r
  BY DEF TypeOK
<1>2. ASSUME NEW r, Goto(t, r), r.at \in {"idle", "setHandle", "clearEntry", "clearRole", "answer",
                                           "event", "unlink", "wake", "wakeCaller", "wakeTarget"}
      PROVE  P
  <2>1. call'[t] = r
    BY <1>1, <1>2 DEF Goto
  <2> QED BY <1>2, <2>1
<1>3. ASSUME NEW r, NEW c, call' = WakeUp([call EXCEPT ![t] = r], c), r.at \in {"idle", "unlink"}
      PROVE  P
  <2>1. \A f : f[t].at # "asleep" => WakeUp(f, c)[t] = f[t]
    BY DEF WakeUp
  <2> DEFINE g == [call EXCEPT ![t] = r]
  <2>2. g[t] = r
    BY <1>1
  <2> HIDE DEF g
  <2>3. call'[t] = r
    BY <1>3, <2>1, <2>2 DEF g
  <2> QED BY <1>3, <2>3
<1>4. Return(t) => P
  <2>1. Idle.at = "idle" /\ (Return(t) => Goto(t, Idle))
    BY DEF Idle, Return, Goto
  <2> QED BY <1>2, <2>1
<1>5. CASE Begin(t)
  <2>1. CASE "register" \in May[t] /\ \E h \in UserHandle : Register(t, h)
    <3>1. PICK h \in UserHandle : Register(t, h)
      BY <2>1
    <3>2. call'[t] = [at |-> "setRole", h |-> h]
      BY <1>1, <3>1 DEF Register, Goto
    <3> QED BY <2>1, <3>2
  <2>2. CASE Unregister(t)
    BY <1>2, <2>2 DEF Unregister
  <2>3. CASE "request" \in May[t] /\ \E h \in UserHandle : Request(t, h)
    <3>1. PICK h \in UserHandle : Request(t, h)
      BY <2>3
    <3>2. CASE UNCHANGED call
      BY <3>1, <3>2 DEF Request, CanCall, Idle
    <3>3. ASSUME NEW x, NEW s, Goto(t, [at |-> "append", tx |-> x, to |-> s]) PROVE P
      <4>1. call'[t] = [at |-> "append", tx |-> x, to |-> s]
        BY <1>1, <3>3 DEF Goto
      <4> QED BY <2>3, <4>1
    <3> QED BY <3>1, <3>2, <3>3 DEF Request
  <2>4. CASE \E id \in TxId : Reply(t, id)
    BY <1>2, <2>4 DEF Reply
  <2>5. CASE \E h \in UserHandle, id \in TxId : Event(t, h, id)
    BY <1>2, <2>5 DEF Event
  <2>6. CASE "read" \in May[t] /\ Read(t)
    <3>1. call'[t].at = "check"
      BY <1>1, <2>6 DEF Read, Goto
    <3> QED BY <2>6, <3>1
  <2>7. CASE ReadInterrupt(t)
    BY <1>4, <2>7 DEF ReadInterrupt
  <2> HIDE DEF P
  <2> QED BY <1>5, <2>1, <2>2, <2>3, <2>4, <2>5, <2>6, <2>7 DEF Begin
<1>6. CASE Continue(t)
  <2>1. CASE RegisterRole(t)
    BY <1>2, <2>1 DEF RegisterRole
  <2>2. CASE UnregisterEntry(t)
    BY <1>2, <2>2 DEF UnregisterEntry
  <2>3. CASE RegisterHandle(t) \/ UnregisterRole(t) \/ EventUnlink(t) \/ ReadAgain(t)
             \/ ReadDispatch(t) \/ ReadDone(t)
    BY <1>4, <2>3 DEF RegisterHandle, UnregisterRole, EventUnlink, ReadAgain, ReadDispatch, ReadDone
  <2>4. CASE RequestWake(t) \/ ReplyWake(t)
    <3>1. Idle.at \in {"idle", "unlink"}
      BY DEF Idle
    <3>2. \E c : call' = WakeUp([call EXCEPT ![t] = Idle], c)
      BY <2>4 DEF RequestWake, ReplyWake
    <3> QED BY <1>3, <3>1, <3>2
  <2>5. CASE EventWake(t)
    <3>1. [at |-> "unlink", id |-> call[t].id].at \in {"idle", "unlink"}
      OBVIOUS
    <3>2. \E c : call' = WakeUp([call EXCEPT ![t] = [at |-> "unlink", id |-> call[t].id]], c)
      BY <2>5 DEF EventWake
    <3> QED BY <1>3, <3>1, <3>2
  <2>6. CASE RequestAppend(t) \/ ReplyAnswer(t) \/ EventDeliver(t)
    <3>1. \E r : Goto(t, r) /\ r.at \in {"wake", "wakeCaller", "wakeTarget", "unlink"}
      <4>1. CASE RequestAppend(t)
        BY <4>1 DEF RequestAppend
      <4>2. CASE ReplyAnswer(t)
        BY <4>2 DEF ReplyAnswer
      <4>3. CASE EventDeliver(t)
        <5>1. CASE Goto(t, [at |-> "wakeTarget", id |-> call[t].id, to |-> call[t].to])
          BY <5>1
        <5>2. CASE Goto(t, [at |-> "unlink", id |-> call[t].id])
          BY <5>2
        <5> QED BY <4>3, <5>1, <5>2 DEF EventDeliver
      <4> QED BY <2>6, <4>1, <4>2, <4>3
    <3> QED BY <1>2, <3>1
  <2>7. CASE ReadCheck(t)
    <3>1. call'[t].at \in {"asleep", "pop"}
      BY <1>1, <2>7 DEF ReadCheck, Goto
    <3> QED BY <2>7, <3>1
  <2>8. CASE ReadRequest(t)
    <3>1. call'[t].at = "dispatch"
      BY <1>1, <2>8 DEF ReadRequest, Goto
    <3> QED BY <2>8, <3>1
  <2> HIDE DEF P
  <2> QED BY <1>6, <2>1, <2>2, <2>3, <2>4, <2>5, <2>6, <2>7, <2>8 DEF Continue
<1> QED BY <1>5, <1>6

\* The counter of a file changes when one of its threads writes a request.
LEMMA CounterStep ==
  ASSUME TypeOK, [Next]_vars, NEW c \in Ctx, life[c] = "open"
  PROVE  /\ gen'[c] = gen[c]
         /\ txCounter'[c] = txCounter[c]
              \/ \E u \in Thread : FdOf[u] = c /\ "request" \in May[u] /\ call[u] = Idle
<1>1. gen'[c] = gen[c]
  BY LifeStep
<1>2. CASE UNCHANGED txCounter
  BY <1>1, <1>2
<1>3. ASSUME NEW u \in Thread, NEW h \in UserHandle, Request(u, h), "request" \in May[u]
      PROVE  txCounter'[c] = txCounter[c] \/ (FdOf[u] = c /\ "request" \in May[u] /\ call[u] = Idle)
  BY <1>3 DEF Request, CanCall, TypeOK
<1>4. ASSUME NEW u \in Thread, Begin(u) \/ Continue(u),
             ~\E h \in UserHandle : "request" \in May[u] /\ Request(u, h)
      PROVE  UNCHANGED txCounter
  <2>1. CASE Begin(u)
    BY <1>4, <2>1 DEF Begin, Register, Unregister, Reply, Event, Read, ReadInterrupt
  <2>2. CASE Continue(u)
    BY <2>2 DEF Continue, RegisterRole, RegisterHandle, UnregisterEntry, UnregisterRole,
       RequestAppend, RequestWake, ReplyAnswer, ReplyWake, EventDeliver, EventWake,
       EventUnlink, ReadCheck, ReadAgain, ReadRequest, ReadDispatch, ReadDone
  <2> QED BY <1>4, <2>1, <2>2
<1>5. ASSUME NEW d \in Ctx, Open(d) PROVE txCounter'[c] = txCounter[c]
  BY <1>5 DEF Open, TypeOK
<1>6. ASSUME NEW d \in Ctx, Close(d) \/ Release(d) PROVE UNCHANGED txCounter
  BY <1>6 DEF Close, Release, ReleaseHandle, ReleaseDone, ReleasePending, ReleaseDispatched,
     ReleaseWake
<1>7. CASE UNCHANGED vars
  BY <1>2, <1>7 DEF vars
<1>8. ASSUME NEW u \in Thread, Begin(u) \/ Continue(u)
      PROVE  txCounter'[c] = txCounter[c]
               \/ \E v \in Thread : FdOf[v] = c /\ "request" \in May[v] /\ call[v] = Idle
  BY <1>3, <1>4, <1>8
<1> QED BY <1>1, <1>5, <1>6, <1>7, <1>8 DEF Next

LEMMA WritersHoldStep ==
  ASSUME OneWriterEach, TypeOK, CallsAreOpen, WritersHold, [Next]_vars
  PROVE  WritersHold'
<1> SUFFICES ASSUME NEW t \in Thread, call'[t].at = "append"
             PROVE  /\ "request" \in May[t]
                    /\ call'[t].tx.caller = FdOf[t]
                    /\ call'[t].tx.gen = gen'[FdOf[t]]
                    /\ call'[t].tx.id = txCounter'[FdOf[t]]
  BY DEF WritersHold
<1>1. FdOf[t] \in Ctx
  BY ConstantsAssumption
<1>2. CASE call'[t] = call[t]
  <2>1. call[t] # Idle /\ "request" \in May[t]
    BY <1>2 DEF Idle, WritersHold
  <2>2. life[FdOf[t]] = "open"
    BY <2>1 DEF CallsAreOpen
  <2>3. \A u \in Thread : FdOf[u] = FdOf[t] /\ "request" \in May[u] => call[u] # Idle
    BY <2>1 DEF OneWriterEach
  <2>4. gen'[FdOf[t]] = gen[FdOf[t]] /\ txCounter'[FdOf[t]] = txCounter[FdOf[t]]
    BY <1>1, <2>2, <2>3, CounterStep
  <2> QED BY <1>2, <2>4 DEF WritersHold
<1>3. CASE Begin(t) \/ Continue(t)
  <2>1. PICK h \in UserHandle : "request" \in May[t] /\ Request(t, h)
    BY <1>3, OwnStep
  <2>2. call[t].at # "append"
    BY <2>1 DEF Request, CanCall, Idle
  <2>3. ASSUME NEW x, NEW s, Goto(t, [at |-> "append", tx |-> x, to |-> s])
        PROVE  call'[t].tx = x
    BY <2>3 DEF Goto, TypeOK
  <2>4. call'[t].tx = [caller |-> FdOf[t], gen |-> gen[FdOf[t]], id |-> txCounter[FdOf[t]] + 1]
    BY <2>1, <2>2, <2>3 DEF Request
  <2>5. gen'[FdOf[t]] = gen[FdOf[t]] /\ txCounter'[FdOf[t]] = txCounter[FdOf[t]] + 1
    BY <1>1, <2>1 DEF Request, TypeOK
  <2> QED BY <2>1, <2>4, <2>5
<1>4. \A on : [at |-> "check", on |-> on].at # "append"
  OBVIOUS
<1>5. ~(call[t].at = "asleep" /\ call'[t] = [at |-> "check", on |-> call[t].on])
  BY <1>4
<1> QED BY <1>2, <1>3, <1>5, CallStep DEF Undisturbed

LEMMA ServersServeStep ==
  ASSUME TypeOK, ServersServe, [Next]_vars
  PROVE  ServersServe'
<1>1. \A t \in Thread : FdOf[t] \in Ctx
  BY ConstantsAssumption
<1>2. ASSUME NEW t \in Thread, call'[t].at = "setRole" PROVE MayServe(FdOf[t])
  <2>1. CASE call'[t] = call[t]
    BY <1>2, <2>1 DEF ServersServe
  <2>2. CASE Begin(t) \/ Continue(t)
    BY <1>2, <2>2, OwnStep DEF MayServe
  <2>3. \A on : [at |-> "check", on |-> on].at # "setRole"
    OBVIOUS
  <2>4. ~(call[t].at = "asleep" /\ call'[t] = [at |-> "check", on |-> call[t].on])
    BY <1>2, <2>3
  <2> QED BY <2>1, <2>2, <2>4, CallStep DEF Undisturbed
<1>3. ASSUME NEW t \in Thread, Serves(call'[t]) PROVE "read" \in May[t] /\ MayServe(FdOf[t])
  <2>1. CASE Serves(call[t])
    BY <2>1 DEF ServersServe
  <2>2. CASE call'[t] = call[t]
    BY <1>3, <2>1, <2>2
  <2>3. CASE call[t].at = "asleep" /\ call'[t] = [at |-> "check", on |-> call[t].on]
    BY <1>3, <2>1, <2>3 DEF Serves
  <2>4. CASE Begin(t) \/ Continue(t)
    <3>1. CASE ReadRequest(t)
      BY <2>1, <3>1 DEF ReadRequest, Serves
    <3>2. CASE Read(t) /\ "read" \in May[t]
      <4>1. call'[t].on = "pending" => isServer[FdOf[t]]
        BY <3>2 DEF Read, Goto, TypeOK
      <4>2. call'[t].at = "check"
        BY <3>2 DEF Read, Goto, TypeOK
      <4> QED BY <1>1, <1>3, <3>2, <4>1, <4>2 DEF Serves, ServersServe
    <3>3. CASE ReadCheck(t)
      <4>1. call'[t].on = call[t].on /\ call[t].at = "check" /\ call'[t].at \in {"asleep", "pop"}
        BY <3>3 DEF ReadCheck, Goto, TypeOK
      <4> QED BY <1>3, <2>1, <4>1 DEF Serves
    <3> QED BY <1>3, <2>4, <3>1, <3>2, <3>3, OwnStep DEF Serves
  <2> QED BY <2>2, <2>3, <2>4, CallStep DEF Undisturbed
<1>4. ASSUME NEW c \in Ctx, isServer'[c] PROVE MayServe(c)
  <2>1. CASE isServer[c]
    BY <2>1 DEF ServersServe
  <2>2. ASSUME NEW t \in Thread, RegisterRole(t) PROVE MayServe(c)
    BY <1>1, <1>4, <2>1, <2>2 DEF RegisterRole, ServersServe, TypeOK
  <2>3. ASSUME NEW t \in Thread, Begin(t) \/ Continue(t), ~RegisterRole(t) PROVE isServer[c]
    <3>1. CASE UnregisterRole(t)
      BY <1>1, <1>4, <3>1 DEF UnregisterRole, TypeOK
    <3>2. CASE UNCHANGED isServer
      BY <1>4, <3>2
    <3> QED BY <2>3, <3>1, <3>2
            DEF Begin, Register, Unregister, Request, Reply, Event, Read, ReadInterrupt,
                Continue, RegisterHandle, UnregisterEntry, table,
                RequestAppend, RequestWake, ReplyAnswer, ReplyWake, EventDeliver, EventWake,
                EventUnlink, ReadCheck, ReadAgain, ReadRequest, ReadDispatch, ReadDone
  <2>4. ASSUME NEW d \in Ctx, Open(d) \/ Close(d) \/ Release(d) PROVE isServer[c]
    <3>1. CASE Open(d)
      BY <1>4, <3>1 DEF Open, TypeOK
    <3>2. CASE UNCHANGED isServer
      BY <1>4, <3>2
    <3> QED BY <2>4, <3>1, <3>2 DEF Close, Release, ReleaseHandle, ReleaseDone, ReleasePending,
               ReleaseDispatched, ReleaseWake, table
  <2>5. CASE UNCHANGED vars
    BY <1>4, <2>1, <2>5 DEF vars, table
  <2> QED BY <2>1, <2>2, <2>3, <2>4, <2>5 DEF Next
<1> QED BY <1>2, <1>3, <1>4 DEF ServersServe
\* Only the reader's ReadRequest puts a request in its hands.
LEMMA TakenStep ==
  ASSUME TypeOK, [Next]_vars, NEW t \in Thread, call'[t].at = "dispatch"
  PROVE  call'[t] = call[t] \/ ReadRequest(t)
<1>1. \A on : [at |-> "check", on |-> on].at # "dispatch"
  OBVIOUS
<1>2. ~(call[t].at = "asleep" /\ call'[t] = [at |-> "check", on |-> call[t].on])
  BY <1>1
<1> QED BY <1>2, CallStep, OwnStep DEF Undisturbed

\* Requests leave the lists of a server, none is added.
Shrunk(l2, l) == Sorted(l2) /\ Elements(l2) \subseteq Elements(l)

LEMMA ShrunkInOrder ==
  ASSUME NEW s \in Ctx, InOrder(s),
         Shrunk(dispatched'[s], dispatched[s]), Shrunk(pending'[s], pending[s]),
         \A t \in Thread : FdOf[t] = s /\ call'[t].at = "dispatch" => call'[t] = call[t]
  PROVE  InOrder(s)'
BY DEF InOrder, Shrunk

LEMMA SameShrunk ==
  ASSUME NEW s \in Ctx, InOrder(s)
  PROVE  /\ dispatched'[s] = dispatched[s] => Shrunk(dispatched'[s], dispatched[s])
         /\ pending'[s] = pending[s] => Shrunk(pending'[s], pending[s])
BY DEF InOrder, Shrunk

LEMMA TailShrunk ==
  ASSUME NEW l \in Seq(Tx), Sorted(l), l # <<>>
  PROVE  Shrunk(Tail(l), l)
BY SortedTail DEF Shrunk

\* A request that is on its way was written before the one in its writer's hands.
LEMMA LastWritten ==
  ASSUME TypeOK, WritersHold, Numbered, HeldOnce, NEW t \in Thread, call[t].at = "append",
         NEW p \in Place, p # <<"append", t>>, NEW y \in Tx, Has(p, y)
  PROVE  Before(y, call[t].tx)
<1> DEFINE x == call[t].tx
<1> SUFFICES ASSUME y.caller = x.caller, y.gen = x.gen PROVE y.id < x.id
  BY DEF Before
<1>1. x \in Tx
  BY CallLocals DEF TypeOK
<1>2. Has(<<"append", t>>, x) /\ <<"append", t>> \in Place
  BY HasKinds, PlaceKinds, KindFacts DEF Carries
<1>3. y # x
  BY <1>1, <1>2, HeldIsLive
<1>4. /\ x.caller = FdOf[t] /\ x.gen = gen[FdOf[t]] /\ x.id = txCounter[FdOf[t]]
  BY DEF WritersHold
<1>5. x.caller \in Ctx /\ x.gen \in Nat /\ x.id \in Nat /\ y.id \in Nat
  BY <1>1, ConstantsAssumption DEF Tx, TxId
<1>6. fate[y] # "none"
  BY HeldIsLive
<1>7. y.id <= x.id
  BY <1>4, <1>5, <1>6 DEF Numbered
<1>8. y.id # x.id
  <2>1. x = [caller |-> x.caller, gen |-> x.gen, id |-> x.id]
    BY <1>1 DEF Tx
  <2>2. y = [caller |-> y.caller, gen |-> y.gen, id |-> y.id]
    BY DEF Tx
  <2> HIDE DEF x
  <2> QED BY <1>3, <2>1, <2>2
<1> QED BY <1>5, <1>7, <1>8

\* The reader of a server is one thread: no other has a request in its hands.
LEMMA OneTaker ==
  ASSUME OneReaderEach, ServersServe, NEW t \in Thread, Serves(call[t]),
         NEW u \in Thread, FdOf[u] = FdOf[t], call[u].at = "dispatch"
  PROVE  u = t
BY DEF ServersServe, OneReaderEach, Serves

LEMMA TakeInOrder ==
  ASSUME OneReaderEach, TypeOK, ServersServe, [Next]_vars, NEW t \in Thread,
         \A s \in Ctx : InOrder(s), ReadRequest(t) \/ ReadDispatch(t)
  PROVE  \A s \in Ctx : InOrder(s)'
<1> SUFFICES ASSUME NEW s \in Ctx PROVE InOrder(s)'
  OBVIOUS
<1>1. Serves(call[t])
  BY DEF ReadRequest, ReadDispatch, Serves
<1>2. \A u \in Thread : FdOf[u] = FdOf[t] /\ call'[u].at = "dispatch" => u = t
  <2>1. \A u \in Thread : u # t => call'[u] = call[u]
    BY DEF ReadRequest, ReadDispatch, Goto, Return, TypeOK
  <2> QED BY <1>1, <2>1, OneTaker
<1>3. \A u \in Thread : u # t => call'[u] = call[u]
  BY DEF ReadRequest, ReadDispatch, Goto, Return, TypeOK
<1>4. CASE FdOf[t] # s
  <2>1. dispatched'[s] = dispatched[s] /\ pending'[s] = pending[s]
    BY <1>4 DEF ReadRequest, ReadDispatch, AddTail, TypeOK
  <2>2. \A u \in Thread : FdOf[u] = s => call'[u] = call[u]
    BY <1>3, <1>4
  <2> QED BY <2>1, <2>2, SameShrunk, ShrunkInOrder
<1>5. CASE FdOf[t] = s /\ ReadRequest(t)
  <2> DEFINE x == Head(pending[s])
  <2>1. pending[s] \in Seq(Tx) /\ pending[s] # <<>> /\ pending'[s] = Tail(pending[s])
    BY <1>5 DEF ReadRequest, TypeOK
  <2>2. dispatched'[s] = dispatched[s] /\ call'[t].tx = x
    BY <1>5 DEF ReadRequest, Goto, TypeOK
  <2>3. x \in Elements(pending[s])
    <3>1. Len(pending[s]) \in Nat \ {0} /\ x = pending[s][1]
      BY <2>1, EmptySeq, HeadTailProperties
    <3> QED BY <3>1 DEF Elements
  <2>4. /\ Sorted(Tail(pending[s]))
        /\ \A y \in Elements(Tail(pending[s])) : Before(x, y) /\ y \in Elements(pending[s])
    BY <2>1, SortedTail DEF InOrder
  <2> HIDE DEF x
  <2>5. \A y \in Elements(dispatched[s]), z \in Elements(pending[s]) : Before(y, z)
    BY DEF InOrder
  <2>6. Sorted(dispatched[s])
    BY DEF InOrder
  <2> QED BY <1>2, <1>5, <2>1, <2>2, <2>3, <2>4, <2>5, <2>6 DEF InOrder
<1>6. CASE FdOf[t] = s /\ ReadDispatch(t)
  <2> DEFINE x == call[t].tx
  <2>1. x \in Tx /\ call[t].at = "dispatch"
    BY <1>6, CallLocals DEF TypeOK, ReadDispatch
  <2>2. /\ dispatched[s] \in Seq(Tx) /\ dispatched'[s] = Append(dispatched[s], x)
        /\ pending'[s] = pending[s] /\ call'[t].at # "dispatch"
    BY <1>6 DEF ReadDispatch, AddTail, Return, Idle, TypeOK
  <2>3. /\ Sorted(dispatched[s]) /\ Sorted(pending[s])
        /\ \A y \in Elements(dispatched[s]) : Before(y, x)
        /\ \A z \in Elements(pending[s]) : Before(x, z)
        /\ \A y \in Elements(dispatched[s]), z \in Elements(pending[s]) : Before(y, z)
    BY <1>6, <2>1 DEF InOrder
  <2> HIDE DEF x
  <2>4. Sorted(dispatched'[s])
    BY <2>1, <2>2, <2>3, SortedAppend
  <2>5. \A y \in Elements(dispatched'[s]) : y \in Elements(dispatched[s]) \/ y = x
    BY <2>1, <2>2, AppendElements
  <2> QED BY <1>2, <1>6, <2>2, <2>3, <2>4, <2>5 DEF InOrder
<1> QED BY <1>4, <1>5, <1>6

LEMMA AppendInOrder ==
  ASSUME TypeOK, WritersHold, Numbered, HeldOnce, [Next]_vars, NEW t \in Thread,
         \A s \in Ctx : InOrder(s), RequestAppend(t)
  PROVE  \A s \in Ctx : InOrder(s)'
<1> SUFFICES ASSUME NEW s \in Ctx PROVE InOrder(s)'
  OBVIOUS
<1> DEFINE x == call[t].tx
<1>1. x \in Tx /\ call[t].at = "append" /\ call[t].to \in Ctx
  BY CallLocals DEF TypeOK, RequestAppend
<1>2. \A u \in Thread : call'[u].at = "dispatch" => call'[u] = call[u]
  <2>1. call' = [call EXCEPT ![t] = [at |-> "wake", to |-> call[t].to]]
    BY DEF RequestAppend, Goto
  <2> QED BY <2>1 DEF TypeOK
<1>3. dispatched'[s] = dispatched[s]
  BY DEF RequestAppend
<1>4. CASE pending'[s] = pending[s]
  BY <1>2, <1>3, <1>4, SameShrunk, ShrunkInOrder
<1>5. CASE pending'[s] = Append(pending[s], x)
  <2>1. pending[s] \in Seq(Tx)
    BY DEF TypeOK
  <2>2. \A y \in Elements(pending[s]) : Before(y, x)
    <3>1. <<"pending", s>> \in Place /\ <<"pending", s>> # <<"append", t>>
      BY PlaceKinds
    <3>2. \A y \in Elements(pending[s]) : y \in Tx
      BY <2>1, ElementOfSeq DEF Elements
    <3> QED BY <1>1, <3>1, <3>2, LastWritten, HasKinds
  <2>3. \A y \in Elements(dispatched[s]) : Before(y, x)
    <3>1. <<"dispatched", s>> \in Place /\ <<"dispatched", s>> # <<"append", t>>
      BY PlaceKinds
    <3>2. \A y \in Elements(dispatched[s]) : y \in Tx
      BY ElementOfSeq DEF Elements, TypeOK
    <3> QED BY <1>1, <3>1, <3>2, LastWritten, HasKinds
  <2>4. ASSUME NEW u \in Thread, call[u].at = "dispatch" PROVE Before(call[u].tx, x)
    <3>1. <<"dispatch", u>> \in Place /\ <<"dispatch", u>> # <<"append", t>>
      BY PlaceKinds, KindFacts
    <3>2. call[u].tx \in Tx
      BY <2>4, CallLocals DEF TypeOK
    <3>3. Has(<<"dispatch", u>>, call[u].tx)
      BY <2>4, HasKinds, KindFacts DEF Carries
    <3> QED BY <1>1, <3>1, <3>2, <3>3, LastWritten
  <2>5. Sorted(pending[s]) /\ Sorted(dispatched[s])
    BY DEF InOrder
  <2>6. \A y \in Elements(dispatched[s]), z \in Elements(pending[s]) : Before(y, z)
    BY DEF InOrder
  <2>7. \A u \in Thread : FdOf[u] = s /\ call[u].at = "dispatch" =>
            /\ \A y \in Elements(dispatched[s]) : Before(y, call[u].tx)
            /\ \A y \in Elements(pending[s]) : Before(call[u].tx, y)
    BY DEF InOrder
  <2> HIDE DEF x
  <2>8. Sorted(pending'[s])
    BY <1>1, <1>5, <2>1, <2>2, <2>5, SortedAppend
  <2>9. \A y \in Elements(pending'[s]) : y \in Elements(pending[s]) \/ y = x
    BY <1>1, <1>5, <2>1, AppendElements
  <2>10. \A y \in Elements(dispatched'[s]), z \in Elements(pending'[s]) : Before(y, z)
    BY <1>3, <2>3, <2>6, <2>9
  <2>11. ASSUME NEW u \in Thread, FdOf[u] = s, call'[u].at = "dispatch"
         PROVE  /\ \A y \in Elements(dispatched'[s]) : Before(y, call'[u].tx)
                /\ \A y \in Elements(pending'[s]) : Before(call'[u].tx, y)
    <3>1. call'[u] = call[u]
      BY <1>2, <2>11
    <3> QED BY <1>3, <2>4, <2>7, <2>9, <2>11, <3>1
  <2> QED BY <1>3, <2>5, <2>8, <2>10, <2>11 DEF InOrder
<1> QED BY <1>1, <1>4, <1>5 DEF RequestAppend, AddTail, TypeOK
\* All other steps take requests from the lists, if they touch them.
LEMMA OthersShrink ==
  ASSUME TypeOK, CallsAreOpen, NEW s \in Ctx, InOrder(s), [Next]_vars,
         ~\E t \in Thread : RequestAppend(t) \/ ReadRequest(t) \/ ReadDispatch(t)
  PROVE  Shrunk(dispatched'[s], dispatched[s]) /\ Shrunk(pending'[s], pending[s])
<1> DEFINE Good == Shrunk(dispatched'[s], dispatched[s]) /\ Shrunk(pending'[s], pending[s])
<1>1. CASE UNCHANGED <<pending, dispatched>>
  BY <1>1, SameShrunk
<1>2. /\ dispatched[s] \in Seq(Tx) /\ Sorted(dispatched[s])
      /\ pending[s] \in Seq(Tx) /\ Sorted(pending[s])
  BY DEF TypeOK, InOrder
<1>3. ASSUME NEW c \in Ctx, NEW i \in 1 .. Len(dispatched[c]),
             dispatched' = DelAt(dispatched, c, i), pending' = pending
      PROVE  Good
  <2>1. CASE c = s
    <3> DEFINE r == SubSeq(dispatched[s], 1, i - 1) \o SubSeq(dispatched[s], i + 1, Len(dispatched[s]))
    <3>1. dispatched'[s] = r
      BY <1>3, <2>1 DEF DelAt, TypeOK
    <3>2. Sorted(r) /\ Elements(r) \subseteq Elements(dispatched[s])
      BY <1>2, <2>1, SortedDel
    <3> QED BY <1>3, <3>1, <3>2, SameShrunk DEF Shrunk
  <2>2. CASE c # s
    BY <1>3, <2>2, SameShrunk DEF DelAt, TypeOK
  <2> QED BY <2>1, <2>2
<1>4. ASSUME NEW t \in Thread, Begin(t) PROVE Good
  <2>1. CASE \E id \in TxId : Reply(t, id)
    <3>1. PICK id \in TxId : Reply(t, id)
      BY <2>1
    <3>2. FdOf[t] \in Ctx /\ pending' = pending
      BY <3>1, ConstantsAssumption DEF Reply
    <3>3. \E i \in 1 .. Len(dispatched[FdOf[t]]) : dispatched' = DelAt(dispatched, FdOf[t], i)
      BY <3>1 DEF Reply
    <3> QED BY <1>3, <3>2, <3>3
  <2>2. CASE UNCHANGED lists
    BY <1>1, <2>2 DEF lists
  <2> QED BY <1>4, <2>1, <2>2
          DEF Begin, Register, Unregister, Request, Event, Read, ReadInterrupt
<1>5. ASSUME NEW t \in Thread, Continue(t) PROVE Good
  <2>1. CASE EventUnlink(t)
    <3>1. FdOf[t] \in Ctx /\ pending' = pending
      BY <2>1, ConstantsAssumption DEF EventUnlink
    <3>2. \/ dispatched' = dispatched
          \/ \E i \in 1 .. Len(dispatched[FdOf[t]]) : dispatched' = DelAt(dispatched, FdOf[t], i)
      BY <2>1 DEF EventUnlink
    <3> QED BY <1>1, <1>3, <3>1, <3>2
  <2>2. CASE UNCHANGED <<pending, dispatched>>
    BY <1>1, <2>2
  <2> QED BY <1>5, <2>1, <2>2
          DEF Continue, RegisterRole, RegisterHandle, UnregisterEntry, UnregisterRole,
              RequestWake, ReplyAnswer, ReplyWake, EventDeliver, EventWake, ReadCheck,
              ReadAgain, ReadDone, lists
<1>6. ASSUME NEW c \in Ctx, Open(c) PROVE Good
  <2>1. Sorted(<<>>) /\ Elements(<<>>) = {}
    BY NoElements, EmptySeq DEF Sorted
  <2>2. CASE c = s
    BY <1>6, <2>1, <2>2 DEF Open, Shrunk, TypeOK
  <2>3. CASE c # s
    BY <1>6, <2>3, SameShrunk DEF Open, TypeOK
  <2> QED BY <2>2, <2>3
<1>7. ASSUME NEW c \in Ctx, \/ Close(c) \/ ReleaseHandle(c)
                            \/ ReleaseDone(c) \/ ReleaseWake(c)
      PROVE  Good
  BY <1>1, <1>7 DEF Close, ReleaseHandle, ReleaseDone, ReleaseWake, lists
<1>8. ASSUME NEW c \in Ctx, ReleasePending(c) PROVE Good
  <2>1. CASE pending[c] # <<>> /\ pending' = [pending EXCEPT ![c] = Tail(@)]
    <3>1. dispatched' = dispatched
      BY <1>8 DEF ReleasePending
    <3>2. CASE c = s
      <4>1. pending'[s] = Tail(pending[s]) /\ pending[s] # <<>>
        BY <2>1, <3>2 DEF TypeOK
      <4> QED BY <1>2, <3>1, <4>1, TailShrunk, SameShrunk
    <3>3. CASE c # s
      BY <2>1, <3>1, <3>3, SameShrunk DEF TypeOK
    <3> QED BY <3>2, <3>3
  <2> QED BY <1>1, <1>8, <2>1 DEF ReleasePending
<1>9. ASSUME NEW c \in Ctx, ReleaseDispatched(c) PROVE Good
  <2>1. CASE dispatched[c] # <<>> /\ dispatched' = [dispatched EXCEPT ![c] = Tail(@)]
                /\ pending' = pending
    <3>1. CASE c = s
      <4>1. dispatched'[s] = Tail(dispatched[s]) /\ dispatched[s] # <<>>
        BY <2>1, <3>1 DEF TypeOK
      <4> QED BY <1>2, <2>1, <4>1, TailShrunk, SameShrunk
    <3>2. CASE c # s
      BY <2>1, <3>2, SameShrunk DEF TypeOK
    <3> QED BY <3>1, <3>2
  <2>2. CASE dispatched' = dispatched /\ pending' = [pending EXCEPT ![c] = <<>>]
    <3>1. Sorted(<<>>) /\ Elements(<<>>) = {}
      BY NoElements, EmptySeq DEF Sorted
    <3>2. CASE c = s
      BY <2>2, <3>1, <3>2, SameShrunk DEF Shrunk, TypeOK
    <3>3. CASE c # s
      BY <2>2, <3>3, SameShrunk DEF TypeOK
    <3> QED BY <3>2, <3>3
  <2> QED BY <1>9, <2>1, <2>2 DEF ReleaseDispatched
<1>10. CASE UNCHANGED vars
  BY <1>1, <1>10 DEF vars, lists
<1>11. ASSUME NEW c \in Ctx, Open(c) \/ Close(c) \/ Release(c) PROVE Good
  BY <1>6, <1>7, <1>8, <1>9, <1>11 DEF Release
<1> QED BY <1>4, <1>5, <1>10, <1>11 DEF Next

LEMMA InOrderStep ==
  ASSUME OneReaderEach, TypeOK, RequestInv, ServingInv, [Next]_vars
  PROVE  \A s \in Ctx : InOrder(s)'
<1> USE DEF RequestInv, ServingInv
<1>1. CASE \E t \in Thread : RequestAppend(t)
  BY <1>1, AppendInOrder
<1>2. CASE \E t \in Thread : ReadRequest(t) \/ ReadDispatch(t)
  BY <1>2, TakeInOrder
<1>3. CASE ~\E t \in Thread : RequestAppend(t) \/ ReadRequest(t) \/ ReadDispatch(t)
  <2> SUFFICES ASSUME NEW s \in Ctx PROVE InOrder(s)'
    OBVIOUS
  <2>1. Shrunk(dispatched'[s], dispatched[s]) /\ Shrunk(pending'[s], pending[s])
    BY <1>3, OthersShrink
  <2>2. \A t \in Thread : FdOf[t] = s /\ call'[t].at = "dispatch" => call'[t] = call[t]
    BY <1>3, TakenStep
  <2> QED BY <2>1, <2>2, ShrunkInOrder
<1> QED BY <1>1, <1>2, <1>3

\* If one thread writes the requests of a file and one reads those of a server,
\* a server is given, and keeps, the requests of each client in the order they
\* were written, for any number of files and threads: that write() drops the
\* handle's mutex before it appends does not reorder them.
THEOREM ServedInOrderHolds ==
  ASSUME OneWriterEach, OneReaderEach
  PROVE  Spec => []ServedInOrder
<1>1. Init => ServingInv
  <2> SUFFICES ASSUME Init PROVE ServingInv
    OBVIOUS
  <2>1. \A t \in Thread : call[t].at = "idle"
    BY DEF Init, Idle
  <2>2. Sorted(<<>>) /\ Elements(<<>>) = {}
    BY NoElements, EmptySeq DEF Sorted
  <2>3. \A s \in Ctx : InOrder(s)
    BY <2>1, <2>2 DEF Init, InOrder
  <2>4. WritersHold /\ ServersServe
    BY <2>1 DEF Init, WritersHold, ServersServe, Serves
  <2> QED BY <2>3, <2>4 DEF ServingInv
<1>2. TypeOK /\ Opened /\ RequestInv /\ ServingInv /\ [Next]_vars => ServingInv'
  <2> SUFFICES ASSUME TypeOK, RequestInv, ServingInv, [Next]_vars PROVE ServingInv'
    OBVIOUS
  <2> QED BY WritersHoldStep, ServersServeStep, InOrderStep DEF RequestInv, ServingInv
<1>3. TypeOK /\ ServingInv => ServedInOrder
  <2> SUFFICES ASSUME TypeOK, NEW s \in Ctx, InOrder(s)
               PROVE  Ascending(dispatched[s] \o pending[s])
    BY DEF ServingInv, ServedInOrder
  <2> DEFINE d == dispatched[s]
             p == pending[s]
             r == d \o p
  <2>1. d \in Seq(Tx) /\ p \in Seq(Tx)
    BY DEF TypeOK
  <2>2. /\ Sorted(d) /\ Sorted(p)
        /\ \A x \in Elements(d), y \in Elements(p) : Before(x, y)
    BY DEF InOrder
  <2> HIDE DEF d, p
  <2>3. /\ Len(d) \in Nat /\ Len(p) \in Nat /\ r \in Seq(Tx) /\ Len(r) = Len(d) + Len(p)
        /\ \A i \in 1 .. Len(d) + Len(p) : r[i] = IF i <= Len(d) THEN d[i] ELSE p[i - Len(d)]
    BY <2>1, LenProperties, ConcatProperties
  <2>4. DOMAIN r = 1 .. Len(r)
    BY <2>3, LenProperties
  <2> HIDE DEF r
  <2>5. ASSUME NEW i \in 1 .. Len(d) + Len(p), NEW j \in 1 .. Len(d) + Len(p), i < j
        PROVE  Before(r[i], r[j])
    <3>1. CASE j <= Len(d)
      <4>1. i \in 1 .. Len(d) /\ j \in 1 .. Len(d) /\ r[i] = d[i] /\ r[j] = d[j]
        BY <2>3, <2>5, <3>1
      <4> QED BY <2>2, <2>5, <4>1 DEF Sorted
    <3>2. CASE i <= Len(d) /\ ~(j <= Len(d))
      <4>1. i \in 1 .. Len(d) /\ j - Len(d) \in 1 .. Len(p)
        BY <2>3, <2>5, <3>2
      <4>2. r[i] = d[i] /\ r[j] = p[j - Len(d)]
        BY <2>3, <3>2
      <4> QED BY <2>2, <4>1, <4>2 DEF Elements
    <3>3. CASE ~(i <= Len(d))
      <4>0. ~(j <= Len(d))
        BY <2>3, <2>5, <3>3
      <4>1. i - Len(d) \in 1 .. Len(p) /\ j - Len(d) \in 1 .. Len(p) /\ i - Len(d) < j - Len(d)
        BY <2>3, <2>5, <3>3, <4>0
      <4>2. r[i] = p[i - Len(d)] /\ r[j] = p[j - Len(d)]
        BY <2>3, <3>3, <4>0
      <4> QED BY <2>2, <4>1, <4>2 DEF Sorted
    <3> QED BY <2>3, <3>1, <3>2, <3>3
  <2>6. Ascending(r)
    BY <2>3, <2>4, <2>5 DEF Ascending, Before
  <2> QED BY <2>6 DEF r, d, p
<1> QED BY <1>1, <1>2, <1>3, RequestInvariant, PTL DEF Spec
=============================================================================
