------------------------------ MODULE DwqProofs ------------------------------
(***************************************************************************)
(* Proofs about the core of the driver (Dwq), for any files, threads,      *)
(* programs, handles and bounds.                                           *)
(***************************************************************************)
EXTENDS DwqProps, SequenceTheorems, TLAPS

-----------------------------------------------------------------------------
(* The helpers keep types.                                                 *)

\* list_add_tail
LEMMA AddTailType ==
  ASSUME NEW S, NEW l \in [Ctx -> Seq(S)], NEW c \in Ctx, NEW x \in S
  PROVE  AddTail(l, c, x) \in [Ctx -> Seq(S)]
<1>1. Append(l[c], x) \in Seq(S)
  BY AppendProperties
<1> QED BY <1>1 DEF AddTail

\* list_del
LEMMA DelAtType ==
  ASSUME NEW S, NEW l \in [Ctx -> Seq(S)], NEW c \in Ctx, NEW i \in 1 .. Len(l[c])
  PROVE  DelAt(l, c, i) \in [Ctx -> Seq(S)]
<1> DEFINE s == l[c]
<1>0. s \in Seq(S) /\ Len(s) \in Nat
  BY LenProperties
<1>1. SubSeq(s, 1, i - 1) \in Seq(S) /\ SubSeq(s, i + 1, Len(s)) \in Seq(S)
  BY <1>0, SubSeqProperties
<1>2. SubSeq(s, 1, i - 1) \o SubSeq(s, i + 1, Len(s)) \in Seq(S)
  BY <1>1, ConcatProperties
<1> QED BY <1>2 DEF DelAt

\* The first element leaves its list.
LEMMA TailType ==
  ASSUME NEW S, NEW l \in [Ctx -> Seq(S)], NEW c \in Ctx, l[c] # <<>>
  PROVE  /\ Head(l[c]) \in S
         /\ [l EXCEPT ![c] = Tail(@)] \in [Ctx -> Seq(S)]
<1>1. Head(l[c]) \in S /\ Tail(l[c]) \in Seq(S)
  BY HeadTailProperties
<1> QED BY <1>1

\* A thread's locals are those of the call it is in.
LEMMA CallLocals ==
  ASSUME NEW r \in Call
  PROVE  /\ r.at \in {"setRole", "setHandle", "clearEntry"} => r.h \in Handle
         /\ r.at \in {"append", "answer", "dispatch", "wakeCaller"} => r.tx \in Tx
         /\ r.at \in {"append", "event", "wake", "wakeTarget"} => r.to \in Ctx
         /\ r.at \in {"event", "unlink", "wakeTarget"} => r.id \in TxId
         /\ r.at \in {"check", "asleep", "pop"} => r.on \in {"pending", "done"}
<1>1. CASE r = Idle
  BY <1>1 DEF Idle
<1>2. CASE r \in [at : {"setRole", "setHandle"}, h : Handle]
              \cup [at : {"clearEntry"}, h : Handle] \cup [at : {"clearRole"}]
  BY <1>2
<1>3. CASE r \in [at : {"append"}, tx : Tx, to : Ctx] \cup [at : {"answer"}, tx : Tx]
  BY <1>3
<1>4. CASE r \in [at : {"event"}, id : TxId, to : Ctx] \cup [at : {"unlink"}, id : TxId]
  BY <1>4
<1>5. CASE r \in [at : {"check", "asleep", "pop"}, on : {"pending", "done"}]
              \cup [at : {"dispatch"}, tx : Tx]
  BY <1>5
<1>6. CASE r \in [at : {"wake"}, to : Ctx] \cup [at : {"wakeCaller"}, tx : Tx]
              \cup [at : {"wakeTarget"}, id : TxId, to : Ctx]
  BY <1>6
<1> QED BY <1>1, <1>2, <1>3, <1>4, <1>5, <1>6 DEF Call

LEMMA GotoType ==
  ASSUME call \in [Thread -> Call], NEW t \in Thread, NEW r \in Call, Goto(t, r)
  PROVE  call' \in [Thread -> Call]
BY DEF Goto

LEMMA ReturnType ==
  ASSUME NEW f \in [Thread -> Call], NEW t \in Thread
  PROVE  [f EXCEPT ![t] = Idle] \in [Thread -> Call]
BY DEF Call

\* wake_up_interruptible
LEMMA WakeUpType ==
  ASSUME NEW f \in [Thread -> Call], NEW c
  PROVE  WakeUp(f, c) \in [Thread -> Call]
<1> SUFFICES ASSUME NEW t \in Thread, f[t].at = "asleep"
             PROVE  [at |-> "check", on |-> f[t].on] \in Call
  BY DEF WakeUp
<1>1. f[t].on \in {"pending", "done"}
  BY CallLocals
<1> QED BY <1>1 DEF Call

LEMMA DeliverType ==
  ASSUME done \in [Ctx -> Seq(Entry)], NEW c \in Ctx, NEW e \in Entry, Deliver(c, e)
  PROVE  done' \in [Ctx -> Seq(Entry)]
<1>1. AddTail(done, c, e) \in [Ctx -> Seq(Entry)]
  BY AddTailType
<1> QED BY <1>1 DEF Deliver

LEMMA MarkType ==
  ASSUME fate \in [Tx -> Fate], NEW xs, NEW what \in Fate, Mark(xs, what)
  PROVE  fate' \in [Tx -> Fate]
BY DEF Mark

LEMMA MarkIfFreedType ==
  ASSUME fate \in [Tx -> Fate], NEW c, NEW x, MarkIfFreed(c, x)
  PROVE  fate' \in [Tx -> Fate]
BY MarkType DEF MarkIfFreed, Fate

-----------------------------------------------------------------------------
(* Type correctness.                                                       *)

\* An answer: the transaction is real, so it goes to a real address.
LEMMA AnswerType ==
  ASSUME TypeOK, NEW x \in Tx, NEW kind \in {"reply", "nodev"},
         Deliver(x.caller, [kind |-> kind, tx |-> x]), MarkIfFreed(x.caller, x)
  PROVE  /\ done' \in [Ctx -> Seq(Entry)]
         /\ fate' \in [Tx -> Fate]
<1>1. x.caller \in Ctx
  BY DEF Tx
<1>2. [kind |-> kind, tx |-> x] \in Entry
  BY DEF Entry
<1>3. done' \in [Ctx -> Seq(Entry)]
  BY <1>1, <1>2, DeliverType DEF TypeOK
<1> QED BY <1>3, MarkIfFreedType DEF TypeOK

LEMMA TypeRegister ==
  ASSUME TypeOK, NEW t \in Thread,
         \/ \E h \in UserHandle : Register(t, h)
         \/ RegisterRole(t) \/ RegisterHandle(t)
         \/ Unregister(t) \/ UnregisterEntry(t) \/ UnregisterRole(t)
  PROVE  TypeOK'
<1> USE ConstantsAssumption DEF TypeOK, table, lists
<1>1. ASSUME NEW h \in UserHandle, Register(t, h) PROVE TypeOK'
  <2>1. h \in Handle /\ [at |-> "setRole", h |-> h] \in Call
    BY DEF UserHandle, Handle, Call
  <2> QED BY <1>1, <2>1, GotoType DEF Register
<1>2. CASE RegisterRole(t)
  <2>1. [at |-> "setHandle", h |-> call[t].h] \in Call
    BY <1>2, CallLocals DEF RegisterRole, Call
  <2> QED BY <1>2, <2>1, GotoType DEF RegisterRole
<1>3. CASE RegisterHandle(t)
  <2>1. call[t].h \in Handle
    BY <1>3, CallLocals DEF RegisterHandle
  <2> QED BY <1>3, <2>1, ReturnType DEF RegisterHandle, Return
<1>4. CASE Unregister(t)
  <2>1. [at |-> "clearEntry", h |-> serverHandle[FdOf[t]]] \in Call
    BY DEF Call
  <2> QED BY <1>4, <2>1, GotoType DEF Unregister
<1>5. CASE UnregisterEntry(t)
  <2>1. call[t].h \in Handle /\ [at |-> "clearRole"] \in Call
    BY <1>5, CallLocals DEF UnregisterEntry, Call
  <2> QED BY <1>5, <2>1, GotoType DEF UnregisterEntry
<1>6. CASE UnregisterRole(t)
  BY <1>6, ReturnType DEF UnregisterRole, Return
<1> QED BY <1>1, <1>2, <1>3, <1>4, <1>5, <1>6

LEMMA TypeRequest ==
  ASSUME TypeOK, \A c \in Ctx : life[c] # "closed" => gen[c] \in 1 .. MaxGen,
         NEW t \in Thread, NEW h \in UserHandle, Request(t, h)
  PROVE  TypeOK'
<1> USE ConstantsAssumption DEF TypeOK, table, lists
<1> DEFINE c  == FdOf[t]
           tx == [caller |-> c, gen |-> gen[c], id |-> txCounter[c] + 1]
<1>1. tx \in Tx
  BY DEF Request, CanCall, Tx, TxId
<1>2. txCounter' \in [Ctx -> 0 .. MaxTx]
  BY DEF Request
<1>3. CASE handles[h] # NoCtx /\ Goto(t, [at |-> "append", tx |-> tx, to |-> handles[h]])
           /\ Mark({tx}, "live")
  <2>1. h \in Handle
    BY DEF UserHandle, Handle
  <2>2. [at |-> "append", tx |-> tx, to |-> handles[h]] \in Call
    BY <1>1, <1>3, <2>1 DEF Call
  <2>3. fate' \in [Tx -> Fate]
    BY <1>3, MarkType DEF Fate
  <2> QED BY <1>2, <1>3, <2>2, <2>3, GotoType DEF Request
<1>4. CASE Mark({tx}, "refused") /\ UNCHANGED call
  <2>1. fate' \in [Tx -> Fate]
    BY <1>4, MarkType DEF Fate
  <2> QED BY <1>2, <1>4, <2>1 DEF Request
<1> QED BY <1>3, <1>4 DEF Request

LEMMA TypeRequestAppend ==
  ASSUME TypeOK, NEW t \in Thread, RequestAppend(t)
  PROVE  TypeOK'
<1> USE DEF TypeOK, table, lists
<1>0. call[t].to \in Ctx /\ [at |-> "wake", to |-> call[t].to] \in Call
  BY CallLocals DEF RequestAppend, Call
<1>1. call[t].tx \in Tx /\ call[t].to \in Ctx
  BY CallLocals DEF RequestAppend
<1>2. AddTail(pending, call[t].to, call[t].tx) \in [Ctx -> Seq(Tx)]
  BY <1>1, AddTailType
<1>3. call' \in [Thread -> Call]
  BY <1>0, GotoType DEF RequestAppend
<1>4. fate' \in [Tx -> Fate]
  BY MarkIfFreedType DEF RequestAppend
<1> QED BY <1>2, <1>3, <1>4 DEF RequestAppend

\* The three wake-ups of a call.
LEMMA TypeWake ==
  ASSUME TypeOK, NEW t \in Thread, RequestWake(t) \/ ReplyWake(t) \/ EventWake(t)
  PROVE  TypeOK'
<1>1. UNCHANGED <<life, gen, table, txCounter, lists, waking, fate>>
  BY DEF RequestWake, ReplyWake, EventWake
<1>2. call' \in [Thread -> Call]
  <2>1. CASE RequestWake(t)
    BY <2>1, ReturnType, WakeUpType DEF RequestWake, TypeOK
  <2>2. CASE ReplyWake(t)
    <3>1. PICK a : call' = WakeUp([call EXCEPT ![t] = Idle], a)
      BY <2>2 DEF ReplyWake
    <3> QED BY <3>1, ReturnType, WakeUpType DEF TypeOK
  <2>3. CASE EventWake(t)
    <3>1. [at |-> "unlink", id |-> call[t].id] \in Call
      BY <2>3, CallLocals DEF EventWake, TypeOK, Call
    <3>2. [call EXCEPT ![t] = [at |-> "unlink", id |-> call[t].id]] \in [Thread -> Call]
      BY <3>1 DEF TypeOK
    <3>3. call' = WakeUp([call EXCEPT ![t] = [at |-> "unlink", id |-> call[t].id]], call[t].to)
      BY <2>3 DEF EventWake
    <3> QED BY <3>2, <3>3, WakeUpType
  <2> QED BY <2>1, <2>2, <2>3
<1> QED BY <1>1, <1>2 DEF TypeOK, table, lists

LEMMA TypeReply ==
  ASSUME TypeOK, NEW t \in Thread,
         (\E id \in TxId : Reply(t, id)) \/ ReplyAnswer(t)
  PROVE  TypeOK'
<1> USE ConstantsAssumption DEF TypeOK, table, lists
<1>1. ASSUME NEW id \in TxId, Reply(t, id) PROVE TypeOK'
  <2> DEFINE c == FdOf[t]
  <2>1. PICK i \in 1 .. Len(dispatched[c]) :
          /\ Goto(t, [at |-> "answer", tx |-> dispatched[c][i]])
          /\ dispatched' = DelAt(dispatched, c, i)
    BY <1>1 DEF Reply
  <2>2. dispatched' \in [Ctx -> Seq(Tx)]
    BY <2>1, DelAtType
  <2>3. dispatched[c][i] \in Tx
    BY ElementOfSeq
  <2>4. [at |-> "answer", tx |-> dispatched[c][i]] \in Call
    BY <2>3 DEF Call
  <2>5. call' \in [Thread -> Call]
    BY <2>1, <2>4, GotoType
  <2> QED BY <1>1, <2>2, <2>5 DEF Reply
<1>2. CASE ReplyAnswer(t)
  <2>1. call[t].tx \in Tx
    BY <1>2, CallLocals DEF ReplyAnswer
  <2>2. done' \in [Ctx -> Seq(Entry)] /\ fate' \in [Tx -> Fate]
    BY <1>2, <2>1, AnswerType DEF ReplyAnswer
  <2>3. [at |-> "wakeCaller", tx |-> call[t].tx] \in Call
    BY <2>1 DEF Call
  <2>4. call' \in [Thread -> Call]
    BY <1>2, <2>3, GotoType DEF ReplyAnswer
  <2> QED BY <1>2, <2>2, <2>4 DEF ReplyAnswer
<1> QED BY <1>1, <1>2

LEMMA TypeEvent ==
  ASSUME TypeOK, NEW t \in Thread,
         \/ \E h \in UserHandle, id \in TxId : Event(t, h, id)
         \/ EventDeliver(t) \/ EventUnlink(t)
  PROVE  TypeOK'
<1> USE ConstantsAssumption DEF TypeOK, table, lists
<1>1. ASSUME NEW h \in UserHandle, NEW id \in TxId, Event(t, h, id) PROVE TypeOK'
  <2>1. h \in Handle
    BY DEF UserHandle, Handle
  <2>2. [at |-> "event", id |-> id, to |-> handles[h]] \in Call
    BY <1>1, <2>1 DEF Event, Call
  <2> QED BY <1>1, <2>2, GotoType DEF Event
<1>2. CASE EventDeliver(t)
  <2> DEFINE e == [kind |-> "event", id |-> call[t].id]
             q == [at |-> "unlink", id |-> call[t].id]
             r == [at |-> "wakeTarget", id |-> call[t].id, to |-> call[t].to]
  <2>1. call[t].id \in TxId /\ call[t].to \in Ctx
    BY <1>2, CallLocals DEF EventDeliver
  <2>2. q \in Call /\ r \in Call /\ e \in Entry
    BY <2>1 DEF Call, Entry
  <2>3. \/ Deliver(call[t].to, e) /\ Goto(t, r)
        \/ Goto(t, q) /\ UNCHANGED done
    BY <1>2 DEF EventDeliver
  <2> HIDE DEF e, q, r
  <2>4. done' \in [Ctx -> Seq(Entry)] /\ call' \in [Thread -> Call]
    <3>1. CASE Deliver(call[t].to, e) /\ Goto(t, r)
      BY <2>1, <2>2, <3>1, DeliverType, GotoType
    <3>2. CASE Goto(t, q) /\ UNCHANGED done
      BY <2>2, <3>2, GotoType
    <3> QED BY <2>3, <3>1, <3>2
  <2> QED BY <1>2, <2>4 DEF EventDeliver
<1>3. CASE EventUnlink(t)
  <2> DEFINE c == FdOf[t]
  <2>1. dispatched' \in [Ctx -> Seq(Tx)]
    <3>1. ASSUME NEW i \in 1 .. Len(dispatched[c]), dispatched' = DelAt(dispatched, c, i)
          PROVE  dispatched' \in [Ctx -> Seq(Tx)]
      BY <3>1, DelAtType
    <3> QED BY <1>3, <3>1 DEF EventUnlink
  <2>2. fate' \in [Tx -> Fate]
    BY <1>3, MarkType DEF EventUnlink, Fate
  <2> QED BY <1>3, <2>1, <2>2, ReturnType DEF EventUnlink, Return
<1> QED BY <1>1, <1>2, <1>3

LEMMA TypeRead ==
  ASSUME TypeOK, NEW t \in Thread,
         \/ Read(t) \/ ReadCheck(t) \/ ReadInterrupt(t) \/ ReadAgain(t)
         \/ ReadRequest(t) \/ ReadDispatch(t) \/ ReadDone(t)
  PROVE  TypeOK'
<1> USE ConstantsAssumption DEF TypeOK, table, lists
<1>1. CASE Read(t)
  <2>1. [at |-> "check", on |-> IF isServer[FdOf[t]] THEN "pending" ELSE "done"] \in Call
    BY DEF Call
  <2> QED BY <1>1, <2>1, GotoType DEF Read
<1>2. CASE ReadCheck(t)
  <2>1. call[t].on \in {"pending", "done"}
    BY <1>2, CallLocals DEF ReadCheck
  <2>2. [at |-> IF IsEmpty(FdOf[t], call[t].on) THEN "asleep" ELSE "pop",
         on |-> call[t].on] \in Call
    BY <2>1 DEF Call
  <2> QED BY <1>2, <2>2, GotoType DEF ReadCheck
<1>3. CASE ReadInterrupt(t) \/ ReadAgain(t)
  <2>1. Return(t) /\ UNCHANGED <<life, gen, table, txCounter, lists, waking, fate>>
    BY <1>3 DEF ReadInterrupt, ReadAgain
  <2>2. call' \in [Thread -> Call]
    BY <2>1, ReturnType DEF Return
  <2> QED BY <2>1, <2>2
<1>4. CASE ReadRequest(t)
  <2> DEFINE c == FdOf[t]
  <2>1. Head(pending[c]) \in Tx /\ pending' \in [Ctx -> Seq(Tx)]
    BY <1>4, TailType DEF ReadRequest
  <2>2. [at |-> "dispatch", tx |-> Head(pending[c])] \in Call
    BY <2>1 DEF Call
  <2> QED BY <1>4, <2>1, <2>2, GotoType DEF ReadRequest
<1>5. CASE ReadDispatch(t)
  <2>1. call[t].tx \in Tx
    BY <1>5, CallLocals DEF ReadDispatch
  <2>2. dispatched' \in [Ctx -> Seq(Tx)]
    BY <1>5, <2>1, AddTailType DEF ReadDispatch
  <2> QED BY <1>5, <2>2, ReturnType DEF ReadDispatch, Return
<1>6. CASE ReadDone(t)
  <2>1. done' \in [Ctx -> Seq(Entry)]
    BY <1>6, TailType DEF ReadDone
  <2>2. fate' \in [Tx -> Fate]
    BY <1>6, MarkType DEF ReadDone, Fate
  <2> QED BY <1>6, <2>1, <2>2, ReturnType DEF ReadDone, Return
<1> QED BY <1>1, <1>2, <1>3, <1>4, <1>5, <1>6

LEMMA TypeRelease ==
  ASSUME TypeOK, NEW c \in Ctx, Open(c) \/ Close(c) \/ Release(c)
  PROVE  TypeOK'
<1> USE DEF TypeOK, table, lists, Life, Phase
<1>0. \A S : <<>> \in Seq(S)
  BY EmptySeq
<1>1. CASE Open(c)
  <2>1. 0 \in Handle /\ 0 \in 0 .. MaxTx /\ gen[c] + 1 \in 0 .. MaxGen
    BY <1>1, ConstantsAssumption DEF Handle, Open
  <2> QED BY <1>0, <1>1, <2>1 DEF Open
<1>2. CASE Close(c)
  <2>1. life' \in [Ctx -> Life]
    BY <1>2 DEF Close
  <2> QED BY <1>2, <2>1 DEF Close
<1>3. CASE ReleaseHandle(c)
  BY <1>3 DEF ReleaseHandle
<1>4. CASE ReleaseDone(c)
  <2>1. fate' \in [Tx -> Fate]
    BY <1>4, MarkType DEF ReleaseDone, Fate
  <2> QED BY <1>0, <1>4, <2>1 DEF ReleaseDone
<1>5. CASE ReleasePending(c)
  <2>1. CASE pending[c] # <<>> /\ NotifyClosed(c, Head(pending[c]))
             /\ pending' = [pending EXCEPT ![c] = Tail(@)] /\ UNCHANGED life
    <3>1. Head(pending[c]) \in Tx /\ pending' \in [Ctx -> Seq(Tx)]
      BY <2>1, TailType
    <3>2. /\ done' \in [Ctx -> Seq(Entry)]
          /\ waking' \in [Ctx -> SUBSET Tx]
          /\ fate' \in [Tx -> Fate]
      BY <2>1, <3>1, AnswerType DEF NotifyClosed
    <3> QED BY <1>5, <2>1, <3>1, <3>2 DEF ReleasePending
  <2>2. CASE life' = [life EXCEPT ![c] = "drainDispatched"]
             /\ UNCHANGED <<pending, done, waking, fate>>
    BY <1>5, <2>2 DEF ReleasePending
  <2> QED BY <1>5, <2>1, <2>2 DEF ReleasePending
<1>6. CASE ReleaseDispatched(c)
  <2>1. CASE dispatched[c] # <<>> /\ NotifyClosed(c, Head(dispatched[c]))
             /\ dispatched' = [dispatched EXCEPT ![c] = Tail(@)]
             /\ UNCHANGED <<life, pending>>
    <3>1. Head(dispatched[c]) \in Tx /\ dispatched' \in [Ctx -> Seq(Tx)]
      BY <2>1, TailType
    <3>2. /\ done' \in [Ctx -> Seq(Entry)]
          /\ waking' \in [Ctx -> SUBSET Tx]
          /\ fate' \in [Tx -> Fate]
      BY <2>1, <3>1, AnswerType DEF NotifyClosed
    <3> QED BY <1>6, <2>1, <3>1, <3>2 DEF ReleaseDispatched
  <2>2. CASE /\ life' = [life EXCEPT ![c] = "closed"]
             /\ Mark(Elements(pending[c]) \cup Answered(Elements(done[c])), "lost")
             /\ pending' = [pending EXCEPT ![c] = <<>>]
             /\ done' = [done EXCEPT ![c] = <<>>]
             /\ UNCHANGED <<dispatched, waking>>
    <3>1. fate' \in [Tx -> Fate]
      BY <2>2, MarkType DEF Fate
    <3> QED BY <1>0, <1>6, <2>2, <3>1 DEF ReleaseDispatched
  <2> QED BY <1>6, <2>1, <2>2 DEF ReleaseDispatched
<1>7. CASE ReleaseWake(c)
  <2>1. PICK a : call' = WakeUp(call, a)
    BY <1>7 DEF ReleaseWake
  <2>2. call' \in [Thread -> Call]
    BY <2>1, WakeUpType
  <2>3. waking' \in [Ctx -> SUBSET Tx]
    BY <1>7 DEF ReleaseWake
  <2> QED BY <1>7, <2>2, <2>3 DEF ReleaseWake
<1> QED BY <1>1, <1>2, <1>3, <1>4, <1>5, <1>6, <1>7 DEF Release

\* A file that is not freed has been opened.
Opened == \A c \in Ctx : life[c] # "closed" => gen[c] # 0

LEMMA OpenedStep ==
  ASSUME TypeOK, Opened, [Next]_vars
  PROVE  Opened'
<1> USE DEF Opened, TypeOK
<1>1. ASSUME NEW c \in Ctx, Open(c) PROVE Opened'
  BY <1>1 DEF Open
<1>2. ASSUME NEW c \in Ctx, Close(c) PROVE Opened'
  BY <1>2 DEF Close
<1>3. ASSUME NEW c \in Ctx, Release(c) PROVE Opened'
  <2>1. /\ gen' = gen
        /\ \A d \in Ctx : life'[d] = life[d] \/ (d = c /\ life[d] # "closed")
    BY <1>3 DEF Release, ReleaseHandle, ReleaseDone, ReleasePending, ReleaseDispatched,
       ReleaseWake
  <2> QED BY <2>1
<1>4. ASSUME NEW t \in Thread, Begin(t) PROVE UNCHANGED <<life, gen>>
  BY <1>4 DEF Begin, Register, Unregister, Request, Reply, Event, Read, ReadInterrupt
<1>5. ASSUME NEW t \in Thread, Continue(t) PROVE UNCHANGED <<life, gen>>
  BY <1>5 DEF Continue, RegisterRole, RegisterHandle, UnregisterEntry, UnregisterRole,
     RequestAppend, RequestWake, ReplyAnswer, ReplyWake, EventDeliver, EventWake,
     EventUnlink, ReadCheck, ReadAgain, ReadRequest, ReadDispatch, ReadDone
<1>6. CASE UNCHANGED vars
  BY <1>6 DEF vars
<1> QED BY <1>1, <1>2, <1>3, <1>4, <1>5, <1>6 DEF Next

LEMMA TypeStep ==
  ASSUME TypeOK, Opened, [Next]_vars
  PROVE  TypeOK'
<1>1. \A c \in Ctx : life[c] # "closed" => gen[c] \in 1 .. MaxGen
  BY ConstantsAssumption DEF TypeOK, Opened
<1>2. ASSUME NEW t \in Thread, Begin(t) PROVE TypeOK'
  BY <1>1, <1>2, TypeRegister, TypeRequest, TypeReply, TypeEvent, TypeRead DEF Begin
<1>3. ASSUME NEW t \in Thread, Continue(t) PROVE TypeOK'
  BY <1>3, TypeRegister, TypeRequestAppend, TypeWake, TypeReply, TypeEvent, TypeRead DEF Continue
<1>4. ASSUME NEW c \in Ctx, Open(c) \/ Close(c) \/ Release(c) PROVE TypeOK'
  BY <1>4, TypeRelease
<1>5. CASE UNCHANGED vars
  BY <1>5 DEF vars, table, lists, TypeOK
<1> QED BY <1>2, <1>3, <1>4, <1>5 DEF Next

LEMMA TypeAndOpened == Spec => [](TypeOK /\ Opened)
<1>1. Init => TypeOK /\ Opened
  <2>1. \A S : <<>> \in Seq(S)
    BY EmptySeq
  <2> QED BY <2>1, ConstantsAssumption
          DEF Init, TypeOK, Opened, Life, Handle, Call, Fate
<1>2. TypeOK /\ Opened /\ [Next]_vars => (TypeOK /\ Opened)'
  BY TypeStep, OpenedStep
<1> QED BY <1>1, <1>2, PTL DEF Spec

\* Types of the table, the contexts and the calls of the driver, whatever the
\* programs do: in particular a tx_id never leaves 1 .. MaxTx, and what lists
\* and calls hold are transactions of files that were opened.
THEOREM TypeCorrect == Spec => []TypeOK
BY TypeAndOpened, PTL

-----------------------------------------------------------------------------
(* The table of handles and the files it names.                            *)

Names(c) == {h \in Handle : handles[h] = c}
Named(c) == life[c] \in {"open", "unregister"}

CallsAreOpen == \A t \in Thread : call[t] # Idle => life[FdOf[t]] = "open"
OneRegisters ==
    \A t, u \in Thread :
        FdOf[t] = FdOf[u] /\ Registering(t) /\ Registering(u) => t = u
OnlyOpenNamed == \A c \in Ctx : ~Named(c) => Names(c) = {}

\* What is true of the table in the middle of REGISTER and UNREGISTER.
At(r, c) ==
    /\ r.at = "setRole" => Names(c) = {r.h}
    /\ r.at \in {"setHandle", "clearEntry"} => isServer[c] /\ Names(c) = {r.h}
    /\ r.at = "clearRole" => Names(c) = {}
HalfWay == \A t \in Thread : At(call[t], FdOf[t])

Known(c) == Names(c) = IF isServer[c] THEN {serverHandle[c]} ELSE {}
Settled(c) == \A t \in Thread : FdOf[t] = c => ~Registering(t)
SettledKnown == \A c \in Ctx : Named(c) /\ Settled(c) => Known(c)

TableInv == CallsAreOpen /\ OneRegisters /\ OnlyOpenNamed /\ HalfWay /\ SettledKnown

LEMMA TableInvInit == Init => TableInv
<1> SUFFICES ASSUME Init PROVE TableInv
  OBVIOUS
<1>1. \A c \in Ctx : Names(c) = {} /\ Known(c)
  BY ConstantsAssumption DEF Init, Names, Known
<1>2. \A t \in Thread : call[t] = Idle /\ call[t].at = "idle"
  BY DEF Init, Idle
<1> QED BY <1>1, <1>2 DEF TableInv, CallsAreOpen, OneRegisters, OnlyOpenNamed,
           HalfWay, At, SettledKnown, Registering

\* Steps that leave the table, and the threads inside REGISTER and UNREGISTER.
Aside ==
    /\ UNCHANGED table
    /\ \A t \in Thread : call'[t] = call[t] \/ (~Registering(t) /\ ~Registering(t)')
    /\ \A t \in Thread : call'[t] # Idle => life'[FdOf[t]] = "open"
    /\ \A c \in Ctx : life'[c] = life[c] \/ (~Named(c) /\ ~Named(c)')

LEMMA AsideStep ==
  ASSUME TableInv, Aside
  PROVE  TableInv'
<1> USE DEF TableInv, Aside, table
<1>1. /\ \A c : (Names(c)' = Names(c)) /\ (Known(c)' <=> Known(c))
      /\ \A c \in Ctx : Named(c)' <=> Named(c)
  BY DEF Names, Known, Named
<1>2. \A t \in Thread : Registering(t)' <=> Registering(t)
  BY DEF Registering
<1>3. CallsAreOpen'
  BY DEF CallsAreOpen
<1>4. OneRegisters'
  BY <1>2 DEF OneRegisters
<1>5. OnlyOpenNamed'
  BY <1>1 DEF OnlyOpenNamed
<1>6. HalfWay'
  BY <1>1 DEF HalfWay, At, Registering
<1>7. SettledKnown'
  BY <1>1, <1>2 DEF SettledKnown, Settled
<1> QED BY <1>3, <1>4, <1>5, <1>6, <1>7

\* One thread goes on, outside REGISTER and UNREGISTER.
LEMMA GotoAside ==
  ASSUME TypeOK, TableInv, NEW t \in Thread, NEW r,
         call' = [call EXCEPT ![t] = r],
         r.at \notin {"setRole", "setHandle", "clearEntry", "clearRole"},
         ~Registering(t), life[FdOf[t]] = "open",
         UNCHANGED <<life, table>>
  PROVE  Aside
BY DEF Aside, Registering, TypeOK, TableInv, CallsAreOpen

\* ... and wakes up a file.
LEMMA WakeUpAside ==
  ASSUME TypeOK, TableInv, NEW t \in Thread, NEW r, NEW c,
         call' = WakeUp([call EXCEPT ![t] = r], c),
         r.at \notin {"setRole", "setHandle", "clearEntry", "clearRole"},
         ~Registering(t), life[FdOf[t]] = "open",
         UNCHANGED <<life, table>>
  PROVE  Aside
<1> DEFINE f == [call EXCEPT ![t] = r]
<1>1. \A u \in Thread :
        \/ call'[u] = f[u]
        \/ f[u].at = "asleep" /\ call'[u].at = "check"
  BY DEF WakeUp
<1>2. \A u \in Thread : f[u] = call[u] \/ (u = t /\ f[u] = r)
  BY DEF TypeOK
<1> HIDE DEF f
<1>3. \A u \in Thread : call'[u] = call[u] \/ (~Registering(u) /\ ~Registering(u)')
  BY <1>1, <1>2 DEF Registering
<1>4. \A u \in Thread : call'[u] # Idle => life[FdOf[u]] = "open"
  <2> SUFFICES ASSUME NEW u \in Thread, u # t, call'[u] # Idle
               PROVE  life[FdOf[u]] = "open"
    OBVIOUS
  <2>0. Idle.at = "idle"
    BY DEF Idle
  <2>1. call[u] # Idle
    BY <1>1, <1>2, <2>0
  <2> QED BY <2>1 DEF TableInv, CallsAreOpen
<1> QED BY <1>3, <1>4 DEF Aside

LEMMA BeginAside ==
  ASSUME TypeOK, TableInv, NEW t \in Thread,
         \/ \E h \in UserHandle : Request(t, h)
         \/ \E id \in TxId : Reply(t, id)
         \/ \E h \in UserHandle, id \in TxId : Event(t, h, id)
         \/ Read(t) \/ ReadInterrupt(t)
  PROVE  Aside
<1>0. Idle.at = "idle"
  BY DEF Idle
<1>1. CASE ReadInterrupt(t)
  <2>1. life[FdOf[t]] = "open" /\ ~Registering(t)
    BY <1>0, <1>1 DEF ReadInterrupt, TableInv, CallsAreOpen, Registering
  <2> QED BY <1>0, <1>1, <2>1, GotoAside DEF ReadInterrupt, Return
<1>2. ASSUME CanCall(t) PROVE life[FdOf[t]] = "open" /\ ~Registering(t)
  BY <1>0, <1>2 DEF CanCall, Registering
<1>3. ASSUME NEW h \in UserHandle, Request(t, h) PROVE Aside
  <2>1. CanCall(t) /\ UNCHANGED <<life, table>>
    BY <1>3 DEF Request
  <2>2. CASE UNCHANGED call
    BY <2>1, <2>2 DEF Aside, TableInv, CallsAreOpen
  <2>3. ASSUME NEW x, call' = [call EXCEPT ![t] = [at |-> "append", tx |-> x, to |-> handles[h]]]
        PROVE  Aside
    BY <1>2, <2>1, <2>3, GotoAside
  <2> QED BY <1>3, <2>2, <2>3 DEF Request, Goto
<1>4. ASSUME NEW id \in TxId, Reply(t, id) PROVE Aside
  <2>1. CanCall(t) /\ UNCHANGED <<life, table>>
    BY <1>4 DEF Reply
  <2>2. PICK x : call' = [call EXCEPT ![t] = [at |-> "answer", tx |-> x]]
    BY <1>4 DEF Reply, Goto
  <2> QED BY <1>2, <2>1, <2>2, GotoAside
<1>5. ASSUME NEW h \in UserHandle, NEW id \in TxId, Event(t, h, id) PROVE Aside
  <2>1. CanCall(t) /\ UNCHANGED <<life, table>>
    BY <1>5 DEF Event
  <2>2. call' = [call EXCEPT ![t] = [at |-> "event", id |-> id, to |-> handles[h]]]
    BY <1>5 DEF Event, Goto
  <2> QED BY <1>2, <2>1, <2>2, GotoAside
<1>6. CASE Read(t)
  <2>1. CanCall(t) /\ UNCHANGED <<life, table>>
    BY <1>6 DEF Read
  <2>2. PICK on : call' = [call EXCEPT ![t] = [at |-> "check", on |-> on]]
    BY <1>6 DEF Read, Goto
  <2> QED BY <1>2, <2>1, <2>2, GotoAside
<1> QED BY <1>1, <1>3, <1>4, <1>5, <1>6

LEMMA ContinueAside ==
  ASSUME TypeOK, TableInv, NEW t \in Thread,
         \/ RequestAppend(t) \/ RequestWake(t) \/ ReplyAnswer(t) \/ ReplyWake(t)
         \/ EventDeliver(t) \/ EventWake(t) \/ EventUnlink(t)
         \/ ReadCheck(t) \/ ReadAgain(t) \/ ReadRequest(t) \/ ReadDispatch(t)
         \/ ReadDone(t)
  PROVE  Aside
<1>0. Idle.at = "idle"
  BY DEF Idle
<1>1. life[FdOf[t]] = "open" /\ ~Registering(t) /\ UNCHANGED <<life, table>>
  BY <1>0 DEF TableInv, CallsAreOpen, Registering, RequestAppend, RequestWake,
     ReplyAnswer, ReplyWake, EventDeliver, EventWake, EventUnlink, ReadCheck, ReadAgain,
     ReadRequest, ReadDispatch, ReadDone
<1>2. CASE RequestAppend(t) \/ ReplyAnswer(t) \/ EventDeliver(t)
  <2>1. PICK r : Goto(t, r) /\ r.at \in {"wake", "wakeCaller", "wakeTarget", "unlink"}
    BY <1>2 DEF RequestAppend, ReplyAnswer, EventDeliver
  <2> QED BY <1>1, <2>1, GotoAside DEF Goto
<1>3. CASE RequestWake(t) \/ ReplyWake(t)
  <2>1. PICK a : call' = WakeUp([call EXCEPT ![t] = Idle], a)
    BY <1>3 DEF RequestWake, ReplyWake
  <2> QED BY <1>0, <1>1, <2>1, WakeUpAside
<1>4. CASE EventWake(t)
  BY <1>1, <1>4, WakeUpAside DEF EventWake
<1>5. CASE EventUnlink(t) \/ ReadAgain(t) \/ ReadDispatch(t) \/ ReadDone(t)
  <2>1. call' = [call EXCEPT ![t] = Idle]
    BY <1>5 DEF EventUnlink, ReadAgain, ReadDispatch, ReadDone, Return
  <2> QED BY <1>0, <1>1, <2>1, GotoAside
<1>6. CASE ReadCheck(t)
  BY <1>1, <1>6, GotoAside DEF ReadCheck, Goto
<1>7. CASE ReadRequest(t)
  BY <1>1, <1>7, GotoAside DEF ReadRequest, Goto
<1> QED BY <1>2, <1>3, <1>4, <1>5, <1>6, <1>7

LEMMA ReleaseAside ==
  ASSUME TypeOK, TableInv, NEW c \in Ctx,
         \/ ReleaseDone(c) \/ ReleasePending(c) \/ ReleaseDispatched(c)
         \/ ReleaseWake(c)
  PROVE  Aside
<1>1. /\ UNCHANGED table
      /\ \A d \in Ctx : life'[d] = life[d] \/ (~Named(d) /\ ~Named(d)')
  BY DEF ReleaseDone, ReleasePending, ReleaseDispatched, ReleaseWake, Named, TypeOK
<1>2. \A u \in Thread :
        \/ call'[u] = call[u]
        \/ call[u].at = "asleep" /\ call'[u].at = "check"
  BY DEF ReleaseDone, ReleasePending, ReleaseDispatched, ReleaseWake, WakeUp
<1>3. \A u \in Thread : call'[u] # Idle => life'[FdOf[u]] = "open"
  <2>1. \A u \in Thread : call'[u] # Idle => life[FdOf[u]] = "open"
    BY <1>2 DEF TableInv, CallsAreOpen, Idle
  <2>2. \A d \in Ctx : life[d] = "open" => life'[d] = "open"
    BY <1>1 DEF Named
  <2> QED BY <2>1, <2>2, ConstantsAssumption
<1> QED BY <1>1, <1>2, <1>3 DEF Aside, Registering
\* A step of REGISTER or UNREGISTER on the file at c, by the only thread of
\* the file that is in one of them.
LEMMA RegisteringStep ==
  ASSUME TypeOK, TableInv, NEW t \in Thread, NEW r, NEW c, c = FdOf[t],
         call' = [call EXCEPT ![t] = r], life' = life, life[c] = "open",
         \A u \in Thread \ {t} : FdOf[u] = c => ~Registering(u),
         \A d \in Ctx \ {c} : /\ Names(d)' = Names(d)
                              /\ isServer'[d] = isServer[d]
                              /\ serverHandle'[d] = serverHandle[d],
         At(r, c)',
         r.at \in {"setRole", "setHandle", "clearEntry", "clearRole"} \/ Known(c)'
  PROVE  TableInv'
<1> USE DEF TableInv
<1>1. /\ call'[t] = r
      /\ \A u \in Thread \ {t} : call'[u] = call[u]
  BY DEF TypeOK
<1>2. /\ Registering(t)' <=> r.at \in {"setRole", "setHandle", "clearEntry", "clearRole"}
      /\ \A u \in Thread \ {t} : Registering(u)' <=> Registering(u)
  BY <1>1 DEF Registering
<1>3. \A d \in Ctx : Named(d)' <=> Named(d)
  BY DEF Named
<1>4. \A d \in Ctx \ {c} : Known(d)' <=> Known(d)
  BY DEF Known
<1>5. CallsAreOpen'
  BY <1>1 DEF CallsAreOpen
<1>6. OneRegisters'
  BY <1>2 DEF OneRegisters
<1>7. OnlyOpenNamed'
  <2>1. Named(c)
    BY DEF Named
  <2> QED BY <1>3, <2>1 DEF OnlyOpenNamed
<1>8. HalfWay'
  <2> SUFFICES ASSUME NEW u \in Thread
               PROVE  At(call[u], FdOf[u])'
    BY DEF HalfWay
  <2>1. CASE u = t
    BY <1>1, <2>1 DEF At
  <2>2. CASE u # t /\ FdOf[u] = c
    BY <1>1, <1>2, <2>2 DEF Registering, At
  <2>3. CASE u # t /\ FdOf[u] # c
    <3>1. FdOf[u] \in Ctx \ {c} /\ call'[u] = call[u]
      BY <1>1, <2>3, ConstantsAssumption
    <3> QED BY <3>1 DEF HalfWay, At
  <2> QED BY <2>1, <2>2, <2>3
<1>9. SettledKnown'
  <2> SUFFICES ASSUME NEW d \in Ctx, Named(d)', Settled(d)' PROVE Known(d)'
    BY DEF SettledKnown
  <2>1. CASE d = c
    BY <1>2, <2>1 DEF Settled
  <2>2. CASE d # c
    <3>1. Settled(d)
      BY <1>2, <2>2 DEF Settled
    <3> QED BY <1>3, <1>4, <2>2, <3>1 DEF SettledKnown
  <2> QED BY <2>1, <2>2
<1> QED BY <1>5, <1>6, <1>7, <1>8, <1>9

\* What a store to the table does to the handles a file is named under.
LEMMA NamesAfterSet ==
  ASSUME TypeOK, NEW h \in Handle, NEW c \in Ctx, handles[h] = NoCtx,
         handles' = [handles EXCEPT ![h] = c]
  PROVE  /\ Names(c)' = Names(c) \cup {h}
         /\ \A d \in Ctx \ {c} : Names(d)' = Names(d)
BY ConstantsAssumption DEF Names, TypeOK

LEMMA NamesAfterClear ==
  ASSUME TypeOK, NEW h \in Handle, NEW c \in Ctx, handles[h] = c,
         handles' = [handles EXCEPT ![h] = NoCtx]
  PROVE  /\ Names(c)' = Names(c) \ {h}
         /\ \A d \in Ctx \ {c} : Names(d)' = Names(d)
BY ConstantsAssumption DEF Names, TypeOK

LEMMA RegisterTable ==
  ASSUME TypeOK, TableInv, RegistersOnce, NEW t \in Thread,
         \/ \E h \in UserHandle : Register(t, h)
         \/ RegisterRole(t) \/ RegisterHandle(t)
  PROVE  TableInv'
<1>0. PICK c \in Ctx : c = FdOf[t] /\ Idle.at = "idle"
  BY ConstantsAssumption DEF Idle
<1>1. ASSUME NEW h \in UserHandle, Register(t, h) PROVE TableInv'
  <2>0. PICK r : r = [at |-> "setRole", h |-> h]
    OBVIOUS
  <2>1. /\ h \in Handle /\ handles[h] = NoCtx /\ handles' = [handles EXCEPT ![h] = c]
        /\ call[t] = Idle /\ call' = [call EXCEPT ![t] = r]
        /\ life[c] = "open" /\ UNCHANGED <<life, isServer, serverHandle>>
    BY <1>0, <1>1, <2>0 DEF Register, CanCall, Goto, UserHandle, Handle
  <2>2. ~Registering(t) /\ Registering(t)' /\ call'[t].at = "setRole"
    BY <1>0, <2>0, <2>1 DEF Registering, TypeOK
  <2>3. /\ \A u \in Thread \ {t} : FdOf[u] = c => ~Registering(u)
        /\ ~isServer[c]
    BY <1>0, <2>2 DEF RegistersOnce
  <2>4. Settled(c) /\ Named(c)
    BY <1>0, <2>1, <2>2, <2>3 DEF Settled, Named
  <2>5. Names(c) = {}
    BY <1>0, <2>3, <2>4 DEF TableInv, SettledKnown, Known
  <2>6. Names(c)' = {h} /\ \A d \in Ctx \ {c} : Names(d)' = Names(d)
    <3>1. Names(c)' = Names(c) \cup {h} /\ \A d \in Ctx \ {c} : Names(d)' = Names(d)
      BY <1>0, <2>1, NamesAfterSet
    <3> QED BY <2>5, <3>1
  <2>7. r.at = "setRole" /\ r.h = h
    BY <2>0
  <2>8. At(r, c)'
    BY <2>6, <2>7 DEF At
  <2> QED BY <1>0, <2>1, <2>3, <2>6, <2>7, <2>8, RegisteringStep
<1>2. ASSUME Registering(t)
      PROVE  /\ life[c] = "open"
             /\ \A u \in Thread \ {t} : FdOf[u] = c => ~Registering(u)
  BY <1>0, <1>2 DEF TableInv, CallsAreOpen, OneRegisters, Registering
<1>3. CASE RegisterRole(t)
  <2>0. PICK r : r = [at |-> "setHandle", h |-> call[t].h]
    OBVIOUS
  <2>1. /\ call[t].at = "setRole" /\ Registering(t)
        /\ call' = [call EXCEPT ![t] = r]
        /\ isServer' = [isServer EXCEPT ![c] = TRUE]
        /\ UNCHANGED <<life, handles, serverHandle>>
    BY <1>0, <1>3, <2>0 DEF RegisterRole, Goto, Registering
  <2>2. Names(c) = {call[t].h}
    BY <1>0, <2>1 DEF TableInv, HalfWay, At
  <2>3. isServer'[c] /\ \A d \in Ctx \ {c} : isServer'[d] = isServer[d]
    BY <1>0, <2>1 DEF TypeOK
  <2>4. Names(c)' = Names(c) /\ \A d \in Ctx \ {c} : Names(d)' = Names(d)
    BY <2>1 DEF Names
  <2>5. r.at = "setHandle" /\ r.h = call[t].h
    BY <2>0
  <2>6. At(r, c)'
    BY <2>2, <2>3, <2>4, <2>5 DEF At
  <2> QED BY <1>0, <1>2, <2>1, <2>3, <2>4, <2>5, <2>6, RegisteringStep
<1>4. CASE RegisterHandle(t)
  <2>1. /\ call[t].at = "setHandle" /\ Registering(t)
        /\ call' = [call EXCEPT ![t] = Idle]
        /\ serverHandle' = [serverHandle EXCEPT ![c] = call[t].h]
        /\ UNCHANGED <<life, handles, isServer>>
    BY <1>0, <1>4 DEF RegisterHandle, Return, Registering
  <2>2. isServer[c] /\ Names(c) = {call[t].h}
    BY <1>0, <2>1 DEF TableInv, HalfWay, At
  <2>3. serverHandle'[c] = call[t].h /\ \A d \in Ctx \ {c} : serverHandle'[d] = serverHandle[d]
    BY <1>0, <2>1 DEF TypeOK
  <2>4. Names(c)' = Names(c) /\ \A d \in Ctx \ {c} : Names(d)' = Names(d)
    BY <2>1 DEF Names
  <2>5. Known(c)'
    BY <2>1, <2>2, <2>3, <2>4 DEF Known
  <2>6. At(Idle, c)'
    BY <1>0 DEF At
  <2> QED BY <1>0, <1>2, <2>1, <2>3, <2>4, <2>5, <2>6, RegisteringStep
<1> QED BY <1>1, <1>3, <1>4

LEMMA UnregisterTable ==
  ASSUME TypeOK, TableInv, RegistersOnce, NEW t \in Thread,
         Unregister(t) \/ UnregisterEntry(t) \/ UnregisterRole(t)
  PROVE  TableInv'
<1>0. PICK c \in Ctx : c = FdOf[t] /\ Idle.at = "idle"
  BY ConstantsAssumption DEF Idle
<1>1. CASE Unregister(t)
  <2>0. PICK r : r = [at |-> "clearEntry", h |-> serverHandle[c]]
    OBVIOUS
  <2>1. /\ isServer[c] /\ call[t] = Idle /\ call' = [call EXCEPT ![t] = r]
        /\ life[c] = "open" /\ UNCHANGED <<life, handles, isServer, serverHandle>>
    BY <1>0, <1>1, <2>0 DEF Unregister, CanCall, Goto, table
  <2>2. ~Registering(t) /\ Registering(t)'
    BY <1>0, <2>0, <2>1 DEF Registering, TypeOK
  <2>3. \A u \in Thread \ {t} : FdOf[u] = c => ~Registering(u)
    BY <1>0, <2>2 DEF RegistersOnce
  <2>4. Settled(c) /\ Named(c)
    BY <1>0, <2>1, <2>2, <2>3 DEF Settled, Named
  <2>5. Names(c) = {serverHandle[c]}
    BY <1>0, <2>1, <2>4 DEF TableInv, SettledKnown, Known
  <2>6. Names(c)' = Names(c) /\ \A d \in Ctx \ {c} : Names(d)' = Names(d)
    BY <2>1 DEF Names
  <2>7. r.at = "clearEntry" /\ r.h = serverHandle[c]
    BY <2>0
  <2>8. At(r, c)'
    BY <2>1, <2>5, <2>6, <2>7 DEF At
  <2> QED BY <1>0, <2>1, <2>3, <2>5, <2>6, <2>7, <2>8, RegisteringStep
<1>2. ASSUME Registering(t)
      PROVE  /\ life[c] = "open"
             /\ \A u \in Thread \ {t} : FdOf[u] = c => ~Registering(u)
  BY <1>0, <1>2 DEF TableInv, CallsAreOpen, OneRegisters, Registering
<1>3. CASE UnregisterEntry(t)
  <2>0. PICK r, h : r = [at |-> "clearRole"] /\ h = call[t].h
    OBVIOUS
  <2>1. /\ call[t].at = "clearEntry" /\ Registering(t)
        /\ call' = [call EXCEPT ![t] = r]
        /\ handles' = [handles EXCEPT ![h] = NoCtx]
        /\ UNCHANGED <<life, isServer, serverHandle>>
    BY <1>0, <1>3, <2>0 DEF UnregisterEntry, Goto, Registering
  <2>2. h \in Handle
    BY <2>0, <2>1, CallLocals DEF TypeOK
  <2>3. Names(c) = {h}
    BY <1>0, <2>0, <2>1 DEF TableInv, HalfWay, At
  <2>4. handles[h] = c
    BY <2>3 DEF Names
  <2>5. Names(c)' = {} /\ \A d \in Ctx \ {c} : Names(d)' = Names(d)
    BY <1>0, <2>1, <2>2, <2>3, <2>4, NamesAfterClear
  <2>6. r.at = "clearRole"
    BY <2>0
  <2>7. At(r, c)'
    BY <2>5, <2>6 DEF At
  <2> QED BY <1>0, <1>2, <2>1, <2>5, <2>6, <2>7, RegisteringStep
<1>4. CASE UnregisterRole(t)
  <2>1. /\ call[t].at = "clearRole" /\ Registering(t)
        /\ call' = [call EXCEPT ![t] = Idle]
        /\ isServer' = [isServer EXCEPT ![c] = FALSE]
        /\ UNCHANGED <<life, handles, serverHandle>>
    BY <1>0, <1>4 DEF UnregisterRole, Return, Registering
  <2>2. Names(c) = {}
    BY <1>0, <2>1 DEF TableInv, HalfWay, At
  <2>3. ~isServer'[c] /\ \A d \in Ctx \ {c} : isServer'[d] = isServer[d]
    BY <1>0, <2>1 DEF TypeOK
  <2>4. Names(c)' = Names(c) /\ \A d \in Ctx \ {c} : Names(d)' = Names(d)
    BY <2>1 DEF Names
  <2>5. Known(c)'
    BY <2>2, <2>3, <2>4 DEF Known
  <2>6. At(Idle, c)'
    BY <1>0 DEF At
  <2> QED BY <1>0, <1>2, <2>1, <2>3, <2>4, <2>5, <2>6, RegisteringStep
<1> QED BY <1>1, <1>3, <1>4
\* open(), close() and the first step of dwq_release.
LEMMA OpenCloseTable ==
  ASSUME TypeOK, TableInv, NEW c \in Ctx,
         Open(c) \/ Close(c) \/ ReleaseHandle(c)
  PROVE  TableInv'
<1> USE DEF TableInv
<1>1. call' = call /\ \A t \in Thread : Registering(t)' <=> Registering(t)
  BY DEF Open, Close, ReleaseHandle, Registering
<1>2. \A t \in Thread : FdOf[t] = c => call[t] = Idle
  BY DEF Open, Close, ReleaseHandle, CallsAreOpen
<1>3. ASSUME NEW d \in Ctx, d # c
      PROVE  /\ life'[d] = life[d] /\ isServer'[d] = isServer[d]
             /\ serverHandle'[d] = serverHandle[d]
  BY <1>3 DEF Open, Close, ReleaseHandle, TypeOK, table
<1>4. Settled(c)
  BY <1>2 DEF Settled, Registering, Idle
<1>5. \A d \in Ctx \ {c} : Names(d)' = Names(d)
  <2>1. CASE handles' = handles
    BY <2>1 DEF Names
  <2>2. CASE ReleaseHandle(c) /\ isServer[c]
    <3>1. Names(c) = {serverHandle[c]}
      BY <1>4, <2>2 DEF ReleaseHandle, Named, SettledKnown, Known
    <3>2. handles[serverHandle[c]] = c /\ serverHandle[c] \in Handle
          /\ handles' = [handles EXCEPT ![serverHandle[c]] = NoCtx]
      BY <2>2, <3>1 DEF Names, ReleaseHandle
    <3>3. PICK h \in Handle : handles[h] = c /\ handles' = [handles EXCEPT ![h] = NoCtx]
      BY <3>2
    <3> HIDE DEF TableInv
    <3> QED BY <3>3, NamesAfterClear
  <2> QED BY <2>1, <2>2 DEF Open, Close, ReleaseHandle, table
<1>6. Named(c)' => Known(c)'
  <2>1. CASE Open(c)
    <3>1. Names(c) = {} /\ handles' = handles /\ ~isServer'[c]
      BY <2>1 DEF Open, OnlyOpenNamed, Named, TypeOK
    <3> QED BY <3>1 DEF Known, Names
  <2>2. CASE Close(c)
    <3>1. Known(c) /\ UNCHANGED table
      BY <1>4, <2>2 DEF Close, Named, SettledKnown
    <3> QED BY <3>1 DEF Known, Names, table
  <2>3. CASE ReleaseHandle(c)
    BY <2>3 DEF ReleaseHandle, Named, TypeOK
  <2> QED BY <2>1, <2>2, <2>3
<1>7. ~Named(c)' => Names(c)' = {}
  <2>1. CASE Open(c) \/ Close(c)
    BY <2>1 DEF Open, Close, Named, TypeOK
  <2>2. CASE ReleaseHandle(c)
    <3>1. Known(c)
      BY <1>4, <2>2 DEF ReleaseHandle, Named, SettledKnown
    <3>2. CASE isServer[c]
      <4>1. handles' = [handles EXCEPT ![serverHandle[c]] = NoCtx]
            /\ Names(c) = {serverHandle[c]}
        BY <2>2, <3>1, <3>2 DEF ReleaseHandle, Known
      <4>2. serverHandle[c] \in Handle /\ handles[serverHandle[c]] = c
        BY <4>1 DEF Names
      <4>3. Names(c)' = Names(c) \ {serverHandle[c]}
        BY <4>1, <4>2, NamesAfterClear
      <4> QED BY <4>1, <4>3
    <3>3. CASE ~isServer[c]
      BY <2>2, <3>1, <3>3 DEF ReleaseHandle, Known, Names
    <3> QED BY <3>2, <3>3
  <2> QED BY <2>1, <2>2
<1>8. CallsAreOpen'
  BY <1>1, <1>2, <1>3, ConstantsAssumption DEF CallsAreOpen
<1>9. OneRegisters'
  BY <1>1 DEF OneRegisters
<1>10. OnlyOpenNamed'
  BY <1>3, <1>5, <1>7 DEF OnlyOpenNamed, Named
<1>11. HalfWay'
  <2> SUFFICES ASSUME NEW t \in Thread PROVE At(call[t], FdOf[t])'
    BY DEF HalfWay
  <2>1. CASE FdOf[t] = c
    <3>1. call'[t].at = "idle"
      BY <1>1, <1>2, <2>1 DEF Idle
    <3> QED BY <3>1 DEF At
  <2>2. CASE FdOf[t] # c
    <3>1. FdOf[t] \in Ctx
      BY ConstantsAssumption
    <3> QED BY <1>1, <1>3, <1>5, <2>2, <3>1 DEF HalfWay, At
  <2> QED BY <2>1, <2>2
<1>12. SettledKnown'
  <2> SUFFICES ASSUME NEW d \in Ctx, Named(d)', Settled(d)' PROVE Known(d)'
    BY DEF SettledKnown
  <2>1. CASE d = c
    BY <1>6, <2>1
  <2>2. CASE d # c
    <3>1. Named(d) /\ Settled(d)
      BY <1>1, <1>3, <2>2 DEF Named, Settled
    <3> QED BY <1>3, <1>5, <2>2, <3>1 DEF SettledKnown, Known
  <2> QED BY <2>1, <2>2
<1> QED BY <1>8, <1>9, <1>10, <1>11, <1>12

LEMMA OrderlyIsSpec == OrderlySpec => Spec
<1>1. [Next /\ Orderly]_vars => [Next]_vars
  OBVIOUS
<1> QED BY <1>1, PTL DEF OrderlySpec, Spec

LEMMA TableInvStep ==
  ASSUME TypeOK, TableInv, [Next]_vars, RegistersOnce
  PROVE  TableInv'
<1>1. CASE UNCHANGED vars
  <2>1. Aside
    BY <1>1 DEF vars, Aside, TableInv, CallsAreOpen
  <2> QED BY <2>1, AsideStep
<1>2. ASSUME NEW t \in Thread, Begin(t) PROVE TableInv'
  BY <1>2, AsideStep, BeginAside, RegisterTable, UnregisterTable DEF Begin
<1>3. ASSUME NEW t \in Thread, Continue(t) PROVE TableInv'
  BY <1>3, AsideStep, ContinueAside, RegisterTable, UnregisterTable DEF Continue
<1>4. ASSUME NEW c \in Ctx, Open(c) \/ Close(c) \/ Release(c) PROVE TableInv'
  BY <1>4, AsideStep, ReleaseAside, OpenCloseTable DEF Release
<1> QED BY <1>1, <1>2, <1>3, <1>4 DEF Next

LEMMA TableInvariant == OrderlySpec => []TableInv
<1>1. Init => TableInv
  BY TableInvInit
<1>2. TypeOK /\ TableInv /\ [Next /\ Orderly]_vars => TableInv'
  <2> SUFFICES ASSUME TypeOK, TableInv, [Next /\ Orderly]_vars PROVE TableInv'
    OBVIOUS
  <2>1. RegistersOnce
    BY DEF Orderly, vars, RegistersOnce, Registering
  <2> QED BY <2>1, TableInvStep
<1>3. OrderlySpec => []TypeOK
  BY OrderlyIsSpec, TypeCorrect, PTL
<1> QED BY <1>1, <1>2, <1>3, PTL DEF OrderlySpec

LEMMA NamedAreOpen ==
  ASSUME TypeOK, TableInv
  PROVE  EntriesAreOpen
<1> SUFFICES ASSUME NEW h \in Handle, handles[h] # NoCtx
             PROVE  life[handles[h]] \in {"open", "unregister"}
  BY DEF EntriesAreOpen
<1>1. handles[h] \in Ctx /\ h \in Names(handles[h])
  BY DEF TypeOK, Names
<1> QED BY <1>1 DEF TableInv, OnlyOpenNamed, Named

\* No entry of the table outlives its file: a write() that looks up a handle
\* finds an open file or none, in any interleaving of REGISTER, UNREGISTER and
\* dwq_release, as long as each file is registered once at a time.
THEOREM EntriesAreOpenHolds == OrderlySpec => []EntriesAreOpen
<1>1. TypeOK /\ TableInv => EntriesAreOpen
  BY NamedAreOpen
<1>2. OrderlySpec => []TypeOK
  BY OrderlyIsSpec, TypeCorrect, PTL
<1> QED BY <1>1, <1>2, TableInvariant, PTL

\* is_server and server_handle, which are stored outside the handle's mutex,
\* tell a settled file exactly under which handle the table names it.
THEOREM EntryKnownToServerHolds == OrderlySpec => []EntryKnownToServer
<1>1. TableInv => EntryKnownToServer
  BY DEF TableInv, SettledKnown, Settled, Known, Names, Named, EntryKnownToServer
<1> QED BY <1>1, TableInvariant, PTL
=============================================================================
