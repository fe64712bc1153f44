-------------------------- MODULE ClientServerProofs --------------------------
(***************************************************************************)
(* Proofs about dwq_server2 and dwq_client2 (ClientServer).  As long as no *)
(* client is killed the programs behave as the driver takes for granted    *)
(* (Orderly), so that all that is proved of such programs is true of them, *)
(* and a client reads the echo of its own request.                         *)
(***************************************************************************)
EXTENDS ClientServer, OrderProofs

\* Only servers are killed.
ClientsLive == \A t \in Thread : FdOf[t] \in Killable => Role[t] = "server"

-----------------------------------------------------------------------------
(* Where the threads of a process are, between their calls and in them.    *)

FileOf(c, role) == \E t \in Thread : FdOf[t] = c /\ Role[t] = role
NoneLive(c) == \A x \in Tx : x.caller = c => fate[x] # "live"
Reading(t, on) == call[t].at \in {"check", "asleep", "pop"} /\ call[t].on = on

NoEvents(s) == \A i \in 1 .. Len(s) : s[i].kind # "event"

ServerAt(t) ==
    LET c == FdOf[t]
    IN  /\ pc[t] \in {"start", "register", "loop", "answer", "restart", "exit"}
        /\ pc[t] = "start" => life[c] = "closed"
        /\ pc[t] \notin {"start", "exit"} => life[c] = "open"
        /\ pc[t] = "register" => ~isServer[c]
        /\ pc[t] \in {"register", "restart"} => call[t] = Idle
        /\ pc[t] = "loop" => call[t].at \in
              {"idle", "setRole", "setHandle", "answer", "wakeCaller",
               "event", "wakeTarget", "unlink"}
        /\ pc[t] = "answer" =>
              call[t] = Idle \/ Reading(t, "pending") \/ call[t].at = "dispatch"
        /\ pc[t] \in {"loop", "answer", "restart"} => isServer[c] \/ call[t].at = "setRole"
        /\ pc[t] = "answer" /\ call[t].at = "pop" => pending[c] # <<>>
        /\ NoneLive(c)

\* The one request a server has taken, until it is done with it.
ServerHas(t) ==
    LET c == FdOf[t]
    IN  IF pc[t] = "answer" /\ call[t] = Idle
        THEN ret[t] \in Tx /\ dispatched[c] = <<ret[t]>>
        ELSE IF call[t].at \in {"event", "wakeTarget", "unlink"}
        THEN \E x \in Tx : dispatched[c] = <<x>> /\ x.id = call[t].id
        ELSE dispatched[c] = <<>>

SyncAt(t) ==
    LET c == FdOf[t]
    IN  /\ pc[t] \in {"start", "write", "read", "unregister", "exit"}
        /\ pc[t] = "start" => life[c] = "closed"
        /\ pc[t] \notin {"start", "exit"} => life[c] = "open"
        /\ ~isServer[c]
        /\ pc[t] \in {"write", "exit"} => call[t] = Idle
        /\ pc[t] = "read" => call[t].at \in {"idle", "append", "wake"}
        /\ pc[t] = "unregister" => call[t] = Idle \/ Reading(t, "done")
        /\ call[t].at = "pop" => done[c] # <<>>
        /\ NoEvents(done[c])
        /\ pc[t] = "write" => txCounter[c] = 0
        /\ pc[t] \in {"read", "unregister"} => txCounter[c] <= 1
        /\ pc[t] \in {"start", "write", "exit"} \/ (pc[t] = "unregister" /\ call[t] = Idle)
              => NoneLive(c)

AsyncAt(t) ==
    LET c == FdOf[t]
    IN  /\ pc[t] \in {"start", "register", "write", "join", "exit"}
        /\ pc[t] = "start" => life[c] = "closed"
        /\ pc[t] \notin {"start", "exit"} => life[c] = "open"
        /\ pc[t] \in {"register", "exit"} => call[t] = Idle
        /\ pc[t] = "write" => call[t].at \in {"idle", "setRole", "setHandle"}
        /\ pc[t] = "join" => call[t].at \in {"idle", "append", "wake"}
        /\ pc[t] = "register" => ~isServer[c]
        /\ pc[t] \in {"write", "join"} =>
              handles[CB_HANDLE] = c /\ (isServer[c] \/ call[t].at = "setRole")
        /\ pc[t] # "join" => NoneLive(c)
        /\ pending[c] = <<>>

\* The callback thread never gets out of read(): its file is a server's.
CallbackAt(t) ==
    /\ pc[t] \in {"start", "read", "unregister", "exit"}
    /\ call[t] = Idle \/ (call[t].at \in {"check", "asleep"} /\ call[t].on = "pending")
    /\ pc[t] = "unregister" => call[t] # Idle
    /\ pc[t] \in {"start", "read"} => call[t] = Idle
    /\ pc[t] \in {"read", "unregister"} =>
          \A u \in Thread : FdOf[u] = FdOf[t] /\ Role[u] = "async" => pc[u] \in {"write", "join"}
    /\ pc[t] = "exit" =>
          \A u \in Thread : FdOf[u] = FdOf[t] /\ Role[u] = "async" => pc[u] = "exit"

\* Requests go to servers, events to clients that wait for one.
TableRoles ==
    /\ handles[MY_HANDLE] # NoCtx => FileOf(handles[MY_HANDLE], "server")
    /\ handles[CB_HANDLE] # NoCtx => FileOf(handles[CB_HANDLE], "async")
CallRoles ==
    \A t \in Thread :
        /\ call[t].at = "append" => FileOf(call[t].to, "server")
        /\ call[t].at = "event" => FileOf(call[t].to, "async")

ThreadAt(t) ==
    /\ Role[t] = "server" => ServerAt(t)
    /\ Role[t] = "server" /\ pc[t] # "exit" => ServerHas(t)
    /\ Role[t] = "sync" => SyncAt(t)
    /\ Role[t] = "async" => AsyncAt(t)
    /\ Role[t] = "callback" => CallbackAt(t)

\* Files that no process has are not opened.
OthersClosed == \A c \in Ctx : (\A t \in Thread : FdOf[t] # c) => life[c] = "closed"

ProgramsInv ==
    /\ TableRoles /\ CallRoles /\ OthersClosed /\ EchoesItsRequest
    /\ \A t \in Thread : ThreadAt(t)

-----------------------------------------------------------------------------
(* Which threads share a file.                                             *)

LEMMA Alone ==
  ASSUME NEW t \in Thread, NEW u \in Thread, FdOf[u] = FdOf[t], Role[t] \in {"server", "sync"}
  PROVE  u = t
<1>1. CASE Role[u] = "callback"
  BY <1>1, ProgramsAssumption
<1> QED BY <1>1, ProgramsAssumption

LEMMA OneMain ==
  ASSUME NEW t \in Thread, NEW u \in Thread, FdOf[u] = FdOf[t], Role[t] = "async", u # t
  PROVE  Role[u] = "callback"
BY ProgramsAssumption

LEMMA NoOtherRole ==
  ASSUME NEW t \in Thread
  PROVE  /\ Role[t] = "server" => ~FileOf(FdOf[t], "async")
         /\ Role[t] = "sync" => ~FileOf(FdOf[t], "async") /\ ~FileOf(FdOf[t], "server")
         /\ Role[t] = "async" => ~FileOf(FdOf[t], "server")
<1>1. ASSUME NEW u \in Thread, FdOf[u] = FdOf[t], Role[t] \in {"server", "sync"}
      PROVE  Role[u] = Role[t]
  BY <1>1, Alone
<1>2. ASSUME NEW u \in Thread, FdOf[u] = FdOf[t], Role[t] = "async"
      PROVE  Role[u] # "server"
  BY <1>2, OneMain
<1> QED BY <1>1, <1>2 DEF FileOf

-----------------------------------------------------------------------------
(* What a process may see of the steps of others: a server gets requests, a *)
(* client answers, `async' events, and sleepers are woken up.              *)

Frame(t) ==
    LET c == FdOf[t]
    IN  /\ life'[c] = life[c] /\ isServer'[c] = isServer[c]
        /\ txCounter'[c] = txCounter[c] /\ dispatched'[c] = dispatched[c]
        /\ pending'[c] = pending[c] \/ (FileOf(c, "server") /\ pending'[c] # <<>>)
        /\ done[c] # <<>> => done'[c] # <<>>
        /\ NoEvents(done[c]) /\ ~FileOf(c, "async") => NoEvents(done'[c])
        /\ Undisturbed(t)
        /\ NoneLive(c) => NoneLive(c)'
        /\ handles[CB_HANDLE] = c => handles'[CB_HANDLE] = c

\* A process that only sees such steps is where it was.
LEMMA Stays ==
  ASSUME TypeOK, NEW t \in Thread, ThreadAt(t), Frame(t), pc'[t] = pc[t], ret'[t] = ret[t],
         \A u \in Thread : FdOf[u] = FdOf[t] /\ Role[u] = "async" => pc'[u] = pc[u]
  PROVE  ThreadAt(t)'
<1> USE DEF ThreadAt
<1>0. /\ call'[t] = call[t] \/ (call[t].at = "asleep" /\ call'[t].at = "check"
                                   /\ call'[t].on = call[t].on)
      /\ Idle.at = "idle"
  BY DEF Frame, Undisturbed, Idle
<1>1. CASE Role[t] = "server"
  <2>1. ServerAt(t)'
    <3>1. call'[t] = Idle <=> call[t] = Idle
      BY <1>0
    <3>2. \A on : Reading(t, on) => Reading(t, on)'
      BY <1>0 DEF Reading
    <3> QED BY <1>0, <1>1, <3>1, <3>2 DEF ServerAt, Frame
  <2>2. pc[t] # "exit" => ServerHas(t)'
    BY <1>0, <1>1 DEF ServerHas, Frame
  <2> QED BY <1>1, <2>1, <2>2
<1>2. CASE Role[t] = "sync"
  <2>1. call'[t] = Idle <=> call[t] = Idle
    BY <1>0
  <2>2. \A on : Reading(t, on) => Reading(t, on)'
    BY <1>0 DEF Reading
  <2>3. ~FileOf(FdOf[t], "async")
    BY <1>2, NoOtherRole
  <2> QED BY <1>0, <1>2, <2>1, <2>2, <2>3 DEF SyncAt, Frame
<1>3. CASE Role[t] = "async"
  <2>1. call'[t] = Idle <=> call[t] = Idle
    BY <1>0
  <2>2. ~FileOf(FdOf[t], "server")
    BY <1>3, NoOtherRole
  <2> QED BY <1>0, <1>3, <2>1, <2>2 DEF AsyncAt, Frame
<1>4. CASE Role[t] = "callback"
  BY <1>0, <1>4 DEF CallbackAt
<1> QED BY <1>1, <1>2, <1>3, <1>4, ProgramsAssumption

\* A request gets live when it is written.
LEMMA LiveStep ==
  ASSUME TypeOK, NEW u \in Thread, Begin(u) \/ Continue(u), NEW x \in Tx,
         fate'[x] = "live", fate[x] # "live"
  PROVE  x.caller = FdOf[u] /\ call'[u].at = "append"
<1>1. \A X, what : what # "live" => ~Mark(X, what)
  BY DEF Mark
<1>2. \A c, y : ~MarkIfFreed(c, y)
  BY <1>1 DEF MarkIfFreed
<1>3. fate' # fate
  OBVIOUS
<1>4. PICK h \in UserHandle : Request(u, h)
  BY <1>1, <1>2, <1>3 DEF Begin, Register, Unregister, Reply, Event, Read,
     ReadInterrupt, Continue, RegisterRole, RegisterHandle, UnregisterEntry,
     UnregisterRole, RequestAppend, RequestWake, ReplyAnswer, ReplyWake, EventDeliver,
     EventWake, EventUnlink, ReadCheck, ReadAgain, ReadRequest, ReadDispatch, ReadDone
<1> DEFINE tx == [caller |-> FdOf[u], gen |-> gen[FdOf[u]], id |-> txCounter[FdOf[u]] + 1]
<1>5. tx.caller = FdOf[u]
  OBVIOUS
<1>6. \A X : Mark(X, "live") => x \in X
  BY DEF Mark
<1>7. \/ /\ Goto(u, [at |-> "append", tx |-> tx, to |-> handles[h]])
         /\ Mark({tx}, "live")
      \/ Mark({tx}, "refused")
  BY <1>4 DEF Request
<1> HIDE DEF tx
<1>8. x = tx /\ Goto(u, [at |-> "append", tx |-> tx, to |-> handles[h]])
  BY <1>1, <1>6, <1>7
<1> QED BY <1>5, <1>8 DEF Goto, TypeOK

LEMMA NoneLiveStays ==
  ASSUME TypeOK, NEW u \in Thread, Begin(u) \/ Continue(u), NEW c \in Ctx, NoneLive(c),
         FdOf[u] # c \/ call'[u].at # "append"
  PROVE  NoneLive(c)'
BY LiveStep DEF NoneLive

LEMMA FileNoneLive ==
  ASSUME TypeOK, NEW d \in Ctx, Open(d) \/ Close(d) \/ Release(d), NEW c, NoneLive(c)
  PROVE  NoneLive(c)'
<1> SUFFICES ASSUME NEW x \in Tx, fate[x] # "live", fate'[x] = "live" PROVE FALSE
  BY DEF NoneLive
<1>1. \A X, what : what # "live" => ~Mark(X, what)
  BY DEF Mark
<1>2. \A e, y : ~MarkIfFreed(e, y)
  BY <1>1 DEF MarkIfFreed
<1>3. fate' # fate
  OBVIOUS
<1> QED BY <1>1, <1>2, <1>3 DEF Open, Close, Release, ReleaseHandle, ReleaseDone,
           ReleasePending, ReleaseDispatched, ReleaseWake, NotifyClosed

\* What a file's reader may see of an answer or an event.
DoneFrame(c) ==
    /\ done[c] # <<>> => done'[c] # <<>>
    /\ NoEvents(done[c]) /\ ~FileOf(c, "async") => NoEvents(done'[c])

LEMMA NoEventsAppend ==
  ASSUME NEW s \in Seq(Entry), NEW e \in Entry, NoEvents(s), e.kind # "event"
  PROVE  NoEvents(Append(s, e))
<1>1. /\ Len(s) \in Nat /\ Len(Append(s, e)) = Len(s) + 1
      /\ \A i \in 1 .. Len(s) : Append(s, e)[i] = s[i]
      /\ Append(s, e)[Len(s) + 1] = e
  BY LenProperties, AppendProperties
<1> QED BY <1>1 DEF NoEvents

LEMMA NoEventsTail ==
  ASSUME NEW s \in Seq(Entry), s # <<>>, NoEvents(s)
  PROVE  NoEvents(Tail(s)) /\ Head(s).kind # "event"
<1>1. /\ Len(s) \in Nat \ {0} /\ Len(Tail(s)) = Len(s) - 1 /\ Head(s) = s[1]
      /\ \A i \in 1 .. Len(Tail(s)) : Tail(s)[i] = s[i + 1]
  BY EmptySeq, LenProperties, HeadTailProperties
<1>2. \A i \in 1 .. Len(Tail(s)) : i + 1 \in 1 .. Len(s)
  BY <1>1
<1>3. 1 \in 1 .. Len(s)
  BY <1>1
<1> QED BY <1>1, <1>2, <1>3 DEF NoEvents

LEMMA DeliverFrame ==
  ASSUME TypeOK, NEW d \in Ctx, NEW e \in Entry, Deliver(d, e), NEW c \in Ctx,
         e.kind = "event" /\ d = c => FileOf(c, "async")
  PROVE  DoneFrame(c)
<1>1. CASE d # c \/ life[d] = "closed"
  <2>1. done'[c] = done[c]
    BY <1>1 DEF Deliver, AddTail, TypeOK
  <2> QED BY <2>1 DEF DoneFrame
<1>2. CASE d = c /\ life[d] # "closed"
  <2>1. done'[c] = Append(done[c], e) /\ done[c] \in Seq(Entry)
    BY <1>2 DEF Deliver, AddTail, TypeOK
  <2> QED BY <1>2, <2>1, AppendProperties, NoEventsAppend DEF DoneFrame
<1> QED BY <1>1, <1>2

LEMMA ThreadFrame ==
  ASSUME TypeOK, TableInv, CallRoles, NEW u \in Thread, Begin(u) \/ Continue(u),
         NEW t \in Thread, FdOf[t] # FdOf[u]
  PROVE  Frame(t)
<1> DEFINE c == FdOf[t]
           Own == /\ life'[c] = life[c] /\ isServer'[c] = isServer[c]
                  /\ txCounter'[c] = txCounter[c] /\ dispatched'[c] = dispatched[c]
           Pend == pending'[c] = pending[c] \/ (FileOf(c, "server") /\ pending'[c] # <<>>)
<1>0. c \in Ctx /\ FdOf[u] \in Ctx
  BY ConstantsAssumption
<1>1. Undisturbed(t)
  BY OthersCalls
<1>2. NoneLive(c) => NoneLive(c)'
  BY <1>0, NoneLiveStays
<1>3. handles[CB_HANDLE] = c => handles'[CB_HANDLE] = c
  <2>1. CASE \E h \in UserHandle : Register(u, h)
    BY <1>0, <2>1, ConstantsAssumption DEF Register, TypeOK
  <2>2. CASE UnregisterEntry(u)
    <3>1. call[u].h \in Handle /\ handles[call[u].h] = FdOf[u]
      BY <2>2, CallLocals DEF UnregisterEntry, TableInv, HalfWay, At, Names, TypeOK
    <3> QED BY <2>2, <3>1 DEF UnregisterEntry, TypeOK
  <2>3. CASE ~UnregisterEntry(u) /\ ~\E h \in UserHandle : Register(u, h)
    BY <2>3 DEF Begin, Unregister, Request, Reply, Event, Read, ReadInterrupt, Continue,
       RegisterRole, RegisterHandle, UnregisterRole, RequestAppend, RequestWake,
       ReplyAnswer, ReplyWake, EventDeliver, EventWake, EventUnlink, ReadCheck,
       ReadAgain, ReadRequest, ReadDispatch, ReadDone, table
  <2> QED BY <2>1, <2>2, <2>3
<1>4. Own /\ Pend /\ DoneFrame(c)
  <2>1. CASE RequestAppend(u)
    <3> DEFINE s == call[u].to
    <3>1. s \in Ctx /\ call[u].tx \in Tx /\ FileOf(s, "server")
      BY <2>1, CallLocals DEF RequestAppend, CallRoles, TypeOK
    <3>2. Own /\ DoneFrame(c)
      BY <2>1 DEF RequestAppend, DoneFrame, table
    <3>3. pending'[c] = pending[c] \/ (s = c /\ pending'[c] = Append(pending[c], call[u].tx))
      BY <1>0, <2>1, <3>1 DEF RequestAppend, AddTail, TypeOK
    <3>4. pending[c] \in Seq(Tx)
      BY <1>0 DEF TypeOK
    <3> QED BY <3>1, <3>2, <3>3, <3>4, AppendProperties
  <2>2. CASE ReplyAnswer(u)
    <3> DEFINE tx == call[u].tx
               e == [kind |-> "reply", tx |-> tx]
    <3>1. tx \in Tx /\ tx.caller \in Ctx /\ e \in Entry /\ e.kind = "reply"
      BY <2>2, CallLocals DEF ReplyAnswer, TypeOK, Tx, Entry
    <3>2. Deliver(tx.caller, e)
      BY <2>2 DEF ReplyAnswer
    <3>3. Own /\ Pend
      BY <2>2 DEF ReplyAnswer, table
    <3> HIDE DEF e, tx
    <3>4. DoneFrame(c)
      BY <1>0, <3>1, <3>2, DeliverFrame
    <3> QED BY <3>3, <3>4
  <2>3. CASE EventDeliver(u)
    <3> DEFINE e == [kind |-> "event", id |-> call[u].id]
    <3>1. call[u].to \in Ctx /\ e \in Entry /\ FileOf(call[u].to, "async")
      BY <2>3, CallLocals DEF EventDeliver, TypeOK, Entry, CallRoles
    <3>2. Deliver(call[u].to, e) \/ done' = done
      BY <2>3 DEF EventDeliver
    <3>3. Own /\ Pend
      BY <2>3 DEF EventDeliver, table
    <3> HIDE DEF e
    <3>4. CASE Deliver(call[u].to, e)
      BY <1>0, <3>1, <3>3, <3>4, DeliverFrame
    <3>5. CASE done' = done
      BY <3>3, <3>5 DEF DoneFrame
    <3> QED BY <3>2, <3>4, <3>5
  <2>4. CASE Begin(u)
    BY <1>0, <2>4 DEF Begin, Register, Unregister, Request, Reply, Event, Read, ReadInterrupt,
       DelAt, TypeOK, table, lists, DoneFrame
  <2>5. CASE RegisterRole(u) \/ RegisterHandle(u) \/ UnregisterEntry(u) \/ UnregisterRole(u)
    BY <1>0, <2>5 DEF RegisterRole, RegisterHandle, UnregisterEntry, UnregisterRole,
       TypeOK, table, lists, DoneFrame
  <2>6. CASE EventUnlink(u) \/ ReadDispatch(u)
    <3>1. \A d : d # c => \A i : DelAt(dispatched, d, i)[c] = dispatched[c]
      BY <1>0 DEF DelAt, TypeOK
    <3>2. \A d, x : d # c => AddTail(dispatched, d, x)[c] = dispatched[c]
      BY <1>0 DEF AddTail, TypeOK
    <3>3. dispatched'[c] = dispatched[c]
      BY <1>0, <2>6, <3>1, <3>2 DEF EventUnlink, ReadDispatch
    <3> QED BY <2>6, <3>3 DEF EventUnlink, ReadDispatch, table, DoneFrame
  <2>7. CASE ReadCheck(u) \/ ReadAgain(u) \/ ReadRequest(u) \/ ReadDone(u)
    BY <1>0, <2>7 DEF ReadCheck, ReadAgain, ReadRequest, ReadDone, TypeOK, table, lists,
       DoneFrame
  <2>8. CASE RequestWake(u) \/ ReplyWake(u) \/ EventWake(u)
    BY <2>8 DEF RequestWake, ReplyWake, EventWake, table, lists, DoneFrame
  <2> QED BY <2>1, <2>2, <2>3, <2>4, <2>5, <2>6, <2>7, <2>8 DEF Continue
<1> QED BY <1>1, <1>2, <1>3, <1>4 DEF Frame, DoneFrame

LEMMA FileFrame ==
  ASSUME TypeOK, RequestInv, TableInv, NEW d \in Ctx, Open(d) \/ Close(d) \/ Release(d),
         NEW t \in Thread, FdOf[t] # d
  PROVE  Frame(t)
<1> DEFINE c == FdOf[t]
           Own == /\ life'[c] = life[c] /\ isServer'[c] = isServer[c]
                  /\ txCounter'[c] = txCounter[c] /\ dispatched'[c] = dispatched[c]
                  /\ pending'[c] = pending[c]
<1>0. c \in Ctx
  BY ConstantsAssumption
<1>1. Undisturbed(t)
  BY FileCalls
<1>2. NoneLive(c) => NoneLive(c)'
  BY FileNoneLive
<1>3. handles[CB_HANDLE] = c => handles'[CB_HANDLE] = c
  <2>1. CASE ReleaseHandle(d)
    <3>1. life[d] = "unregister"
      BY <2>1 DEF ReleaseHandle
    <3>2. \A u \in Thread : FdOf[u] = d => call[u] = Idle
      BY <3>1 DEF TableInv, CallsAreOpen
    <3>3. Known(d)
      BY <3>1, <3>2 DEF TableInv, SettledKnown, Settled, Named, Registering, Idle
    <3>4. isServer[d] => serverHandle[d] \in Names(d)
      BY <3>3 DEF Known
    <3>5. isServer[d] => handles[serverHandle[d]] = d
      BY <3>4 DEF Names
    <3> QED BY <2>1, <3>5 DEF ReleaseHandle, TypeOK
  <2>2. CASE ~ReleaseHandle(d)
    BY <2>2 DEF Open, Close, Release, ReleaseDone, ReleasePending, ReleaseDispatched,
       ReleaseWake, table
  <2> QED BY <2>1, <2>2
<1>4. ASSUME NEW x \in Tx, NotifyClosed(d, x) PROVE DoneFrame(c)
  <2> DEFINE e == [kind |-> "nodev", tx |-> x]
  <2>1. x.caller \in Ctx /\ e \in Entry /\ e.kind = "nodev"
    BY DEF Tx, Entry
  <2>2. Deliver(x.caller, e)
    BY <1>4 DEF NotifyClosed
  <2> HIDE DEF e
  <2> QED BY <1>0, <2>1, <2>2, DeliverFrame
<1>5. done'[c] = done[c] => DoneFrame(c)
  BY DEF DoneFrame
<1>6. Own /\ DoneFrame(c)
  <2>1. CASE Open(d) \/ Close(d) \/ ReleaseHandle(d) \/ ReleaseDone(d) \/ ReleaseWake(d)
    BY <1>0, <1>5, <2>1 DEF Open, Close, ReleaseHandle, ReleaseDone, ReleaseWake, TypeOK,
       table, lists
  <2>2. CASE ReleasePending(d)
    <3>1. pending[d] # <<>> => Head(pending[d]) \in Tx
      BY HeadTailProperties DEF TypeOK
    <3> QED BY <1>0, <1>4, <1>5, <2>2, <3>1 DEF ReleasePending, TypeOK, table
  <2>3. CASE ReleaseDispatched(d)
    <3>1. dispatched[d] # <<>> => Head(dispatched[d]) \in Tx
      BY HeadTailProperties DEF TypeOK
    <3> QED BY <1>0, <1>4, <1>5, <2>3, <3>1 DEF ReleaseDispatched, TypeOK, table
  <2> QED BY <2>1, <2>2, <2>3 DEF Release
<1> QED BY <1>1, <1>2, <1>3, <1>6 DEF Frame, DoneFrame

LEMMA UnchangedFrame ==
  ASSUME UNCHANGED vars, NEW t \in Thread
  PROVE  Frame(t)
BY DEF vars, table, lists, Frame, Undisturbed, NoneLive

-----------------------------------------------------------------------------
(* dwq_server2: it takes a request, answers it or calls back, and is done    *)
(* with it before it takes the next.                                       *)

\* What is known of all before a step.
AllInv == TypeOK /\ ProgramsOK /\ Opened /\ RequestInv /\ TableInv /\ OrderInv /\ ProgramsInv

LEMMA DelOne ==
  ASSUME NEW S, NEW l \in [Ctx -> Seq(S)], NEW c \in Ctx, NEW x \in S, l[c] = <<x>>
  PROVE  DelAt(l, c, 1)[c] = <<>>
<1> DEFINE s == l[c]
<1>1. s \in Seq(S) /\ Len(s) = 1
  OBVIOUS
<1>2. /\ SubSeq(s, 1, 0) \in Seq(S) /\ Len(SubSeq(s, 1, 0)) = 0
      /\ SubSeq(s, 2, 1) \in Seq(S) /\ Len(SubSeq(s, 2, 1)) = 0
  BY <1>1, SubSeqProperties
<1>3. SubSeq(s, 1, 0) = <<>> /\ SubSeq(s, 2, 1) = <<>>
  BY <1>2, EmptySeq
<1>4. DelAt(l, c, 1)[c] = SubSeq(s, 1, 1 - 1) \o SubSeq(s, 1 + 1, Len(s))
  BY DEF DelAt
<1> HIDE DEF s
<1>5. DelAt(l, c, 1)[c] = SubSeq(s, 1, 0) \o SubSeq(s, 2, 1)
  BY <1>1, <1>4
<1>6. <<>> \o <<>> = <<>>
  OBVIOUS
<1> QED BY <1>3, <1>5, <1>6

\* A request in a list of a server is live.
LEMMA TakenIsLive ==
  ASSUME TypeOK, RequestInv, NEW c \in Ctx, NEW x \in Tx, dispatched[c] = <<x>>
  PROVE  fate[x] = "live"
<1>1. x \in Elements(dispatched[c])
  <2>1. Len(dispatched[c]) = 1 /\ dispatched[c][1] = x
    OBVIOUS
  <2> QED BY <2>1 DEF Elements
<1> QED BY <1>1, HasKinds, PlaceKinds, HeldIsLive DEF RequestInv

\* An `async' client whose request a server has waits for it, registered.
LEMMA CallerIsRegistered ==
  ASSUME ProgramsInv, NEW x \in Tx, fate[x] = "live", WantsCallback(x)
  PROVE  handles[CB_HANDLE] = x.caller /\ x.caller \in Ctx
<1>1. PICK u \in Thread : FdOf[u] = x.caller /\ Role[u] = "async"
  BY DEF WantsCallback
<1>2. AsyncAt(u) /\ ~NoneLive(x.caller)
  BY <1>1 DEF ProgramsInv, ThreadAt, NoneLive
<1> QED BY <1>1, <1>2 DEF AsyncAt, Tx

LEMMA ServerExits ==
  ASSUME NEW t \in Thread, Role[t] = "server", pc'[t] = "exit", NoneLive(FdOf[t])'
  PROVE  ThreadAt(t)'
BY DEF ThreadAt, ServerAt

LEMMA ServerStarts ==
  ASSUME AllInv, NEW t \in Thread, Role[t] = "server", Start(t)
  PROVE  ThreadAt(t)'
<1> DEFINE c == FdOf[t]
<1>0. c \in Ctx
  BY ConstantsAssumption
<1>1. ServerAt(t) /\ NoneLive(c)
  BY DEF AllInv, ProgramsInv, ThreadAt, ServerAt
<1>2. NoneLive(c)'
  BY <1>0, <1>1, FileNoneLive DEF Start, AllInv
<1>3. pc'[t] = "register"
  BY DEF Start
<1>4. call[t] = Idle /\ call' = call /\ Idle.at = "idle"
  BY DEF Start, Open, AllInv, TableInv, CallsAreOpen, Idle
<1>5. life'[c] = "open" /\ ~isServer'[c] /\ dispatched'[c] = <<>>
  BY <1>0 DEF Start, Open, AllInv, TypeOK
<1> QED BY <1>2, <1>3, <1>4, <1>5 DEF ThreadAt, ServerAt, ServerHas

LEMMA ServerRegisters ==
  ASSUME AllInv, NEW t \in Thread, Role[t] = "server", ServerRegister(t)
  PROVE  ThreadAt(t)'
<1> DEFINE c == FdOf[t]
<1>0. c \in Ctx /\ Idle.at = "idle"
  BY ConstantsAssumption DEF Idle
<1>1. ServerAt(t) /\ ServerHas(t) /\ pc[t] = "register" /\ call[t] = Idle /\ MY_HANDLE \in UserHandle
  BY ProgramsAssumption DEF AllInv, ProgramsInv, ThreadAt, ServerRegister, Ready
<1>2. CASE Register(t, MY_HANDLE) /\ Step(t, "loop")
  <2>1. call'[t].at = "setRole" /\ pc'[t] = "loop"
    BY <1>2 DEF Register, Goto, Step, AllInv, TypeOK, ProgramsOK
  <2>2. Begin(t)
    BY <1>1, <1>2, ProgramsAssumption DEF Begin
  <2>3. NoneLive(c)'
    BY <1>0, <1>1, <2>1, <2>2, NoneLiveStays DEF ServerAt, AllInv
  <2>4. life'[c] = life[c] /\ dispatched'[c] = dispatched[c]
    BY <1>2 DEF Register, lists
  <2> QED BY <1>0, <1>1, <2>1, <2>3, <2>4 DEF ThreadAt, ServerAt, ServerHas
<1>3. CASE Exit(t) /\ UNCHANGED vars
  <2>1. pc'[t] = "exit"
    BY <1>3 DEF Exit, Team
  <2>2. NoneLive(c)'
    BY <1>1, <1>3 DEF vars, NoneLive, ServerAt
  <2> QED BY <2>1, <2>2, ServerExits
<1> QED BY <1>2, <1>3 DEF ServerRegister

LEMMA ServerReads ==
  ASSUME AllInv, NEW t \in Thread, Role[t] = "server", ServerRead(t) \/ ServerRestart(t)
  PROVE  ThreadAt(t)'
<1> DEFINE c == FdOf[t]
<1>0. c \in Ctx /\ Idle.at = "idle"
  BY ConstantsAssumption DEF Idle
<1>1. /\ ServerAt(t) /\ ServerHas(t) /\ pc[t] \in {"loop", "restart"} /\ call[t] = Idle
      /\ Read(t) /\ Step(t, "answer")
  BY DEF AllInv, ProgramsInv, ThreadAt, ServerRead, ServerRestart, Ready
<1>2. isServer[c] /\ dispatched[c] = <<>> /\ life[c] = "open"
  BY <1>0, <1>1 DEF ServerAt, ServerHas
<1>3. call'[t].at = "check" /\ call'[t].on = "pending" /\ pc'[t] = "answer"
  BY <1>1, <1>2 DEF Read, Goto, Step, AllInv, TypeOK, ProgramsOK
<1>4. Begin(t)
  BY <1>1, ProgramsAssumption DEF Begin
<1>5. NoneLive(c)'
  BY <1>0, <1>1, <1>3, <1>4, NoneLiveStays DEF ServerAt, AllInv
<1>6. life'[c] = life[c] /\ dispatched'[c] = dispatched[c] /\ isServer'[c] = isServer[c]
  BY <1>1 DEF Read, lists, table
<1> QED BY <1>0, <1>2, <1>3, <1>5, <1>6 DEF ThreadAt, ServerAt, ServerHas, Reading

LEMMA ServerLeaves ==
  ASSUME AllInv, NEW t \in Thread, Role[t] = "server", ServerLeave(t)
  PROVE  ThreadAt(t)'
<1>1. pc'[t] = "exit"
  BY DEF ServerLeave, Exit, Team
<1>2. call'[t].at = "clearEntry" /\ Begin(t)
  BY ProgramsAssumption DEF ServerLeave, Unregister, Goto, Begin, AllInv, TypeOK
<1>3. NoneLive(FdOf[t])'
  BY <1>2, NoneLiveStays, ConstantsAssumption DEF AllInv, ProgramsInv, ThreadAt, ServerAt
<1> QED BY <1>1, <1>3, ServerExits

\* What it has taken and not answered is the request it has just read.
LEMMA ServerReplies ==
  ASSUME AllInv, NEW t \in Thread, Role[t] = "server", ServerReply(t)
  PROVE  /\ ThreadAt(t)'
         /\ Reply(t, ret[t].id) /\ ret[t] \in Tx
         /\ call'[t] = [at |-> "answer", tx |-> ret[t]]
         /\ echo' = [echo EXCEPT ![ret[t]] = ret[t]]
<1> DEFINE c == FdOf[t]
           x == ret[t]
<1>0. c \in Ctx /\ Idle.at = "idle"
  BY ConstantsAssumption DEF Idle
<1>1. ServerAt(t) /\ ServerHas(t) /\ pc[t] = "answer" /\ call[t] = Idle
  BY DEF AllInv, ProgramsInv, ThreadAt, ServerReply, Ready
<1>2. x \in Tx /\ dispatched[c] = <<x>>
  BY <1>1 DEF ServerHas
<1> HIDE DEF x
<1>3. Len(dispatched[c]) = 1 /\ dispatched[c][1] = x
  BY <1>2
<1>4. x \in Elements(dispatched[c])
  BY <1>3 DEF Elements
<1>5. Reply(t, x.id) /\ echo' = [echo EXCEPT ![call'[t].tx] = x]
  BY <1>4 DEF ServerReply, x
<1>6. PICK i \in 1 .. Len(dispatched[c]) :
        /\ Goto(t, [at |-> "answer", tx |-> dispatched[c][i]])
        /\ dispatched' = DelAt(dispatched, c, i)
  BY <1>5 DEF Reply
<1>7. i = 1
  BY <1>3
<1>8. call'[t] = [at |-> "answer", tx |-> x]
  BY <1>3, <1>6, <1>7 DEF Goto, AllInv, TypeOK
<1>9. dispatched'[c] = <<>>
  <2>1. dispatched \in [Ctx -> Seq(Tx)]
    BY DEF AllInv, TypeOK
  <2>2. DelAt(dispatched, c, 1)[c] = <<>>
    BY <1>0, <1>2, <2>1, DelOne
  <2> QED BY <1>6, <1>7, <2>2
<1>10. pc'[t] = "loop"
  BY DEF ServerReply, AllInv, ProgramsOK
<1>11. Begin(t)
  BY <1>2, <1>5, ProgramsAssumption DEF Begin, Tx
<1>12. call'[t].at = "answer" /\ call'[t].tx = x
  BY <1>8
<1>13. NoneLive(c)'
  BY <1>0, <1>1, <1>11, <1>12, NoneLiveStays DEF ServerAt, AllInv
<1>14. life'[c] = life[c] /\ isServer'[c] = isServer[c]
  BY <1>5 DEF Reply, table
<1>15. isServer[c] /\ life[c] = "open"
  BY <1>0, <1>1 DEF ServerAt
<1>16. ThreadAt(t)'
  BY <1>0, <1>9, <1>10, <1>12, <1>13, <1>14, <1>15 DEF ThreadAt, ServerAt, ServerHas
<1> QED BY <1>2, <1>5, <1>8, <1>12, <1>16 DEF x

LEMMA ServerCallsBack ==
  ASSUME AllInv, NEW t \in Thread, Role[t] = "server", ServerCallBack(t)
  PROVE  /\ ThreadAt(t)'
         /\ Event(t, CB_HANDLE, ret[t].id) /\ ret[t] \in Tx
<1> DEFINE c == FdOf[t]
           x == ret[t]
<1>0. c \in Ctx /\ Idle.at = "idle" /\ NoCtx \notin Ctx
  BY ConstantsAssumption DEF Idle
<1>1. ServerAt(t) /\ ServerHas(t) /\ pc[t] = "answer" /\ call[t] = Idle
  BY DEF AllInv, ProgramsInv, ThreadAt, ServerCallBack, Ready
<1>2. x \in Tx /\ dispatched[c] = <<x>>
  BY <1>1 DEF ServerHas
<1>3. WantsCallback(x) /\ Step(t, "loop")
  BY DEF ServerCallBack
<1>4. handles[CB_HANDLE] # NoCtx
  BY <1>0, <1>2, <1>3, TakenIsLive, CallerIsRegistered DEF AllInv
<1>5. Event(t, CB_HANDLE, x.id)
  BY <1>4 DEF ServerCallBack
<1> HIDE DEF x
<1>6. call'[t].at = "event" /\ call'[t].id = x.id
  BY <1>5 DEF Event, Goto, AllInv, TypeOK
<1>7. dispatched'[c] = <<x>> /\ life'[c] = life[c] /\ isServer'[c] = isServer[c]
  BY <1>2, <1>5 DEF Event, lists, table
<1>8. pc'[t] = "loop"
  BY <1>3 DEF Step, AllInv, ProgramsOK
<1>9. Begin(t)
  BY <1>2, <1>5, ProgramsAssumption DEF Begin, Tx
<1>10. NoneLive(c)'
  BY <1>0, <1>1, <1>6, <1>9, NoneLiveStays DEF ServerAt, AllInv
<1>11. isServer[c] /\ life[c] = "open"
  BY <1>0, <1>1 DEF ServerAt
<1>12. ThreadAt(t)'
  <2>1. ServerHas(t)'
    BY <1>2, <1>6, <1>7, <1>8 DEF ServerHas
  <2> QED BY <1>0, <1>6, <1>7, <1>8, <1>10, <1>11, <2>1 DEF ThreadAt, ServerAt
<1> QED BY <1>2, <1>5, <1>12 DEF x

LEMMA ServerInterrupted ==
  ASSUME AllInv, NEW t \in Thread, Role[t] = "server",
         Signal(t) \/ SignalAsleep(t) \/ Kill(t) \/ Interrupted(t)
  PROVE  ThreadAt(t)'
<1> DEFINE c == FdOf[t]
<1>0. c \in Ctx /\ Idle.at = "idle"
  BY ConstantsAssumption DEF Idle
<1>1. ThreadAt(t) /\ ServerAt(t)
  BY DEF AllInv, ProgramsInv, ThreadAt
<1>2. CASE Signal(t)
  BY <1>1, <1>2 DEF Signal, vars, table, lists, ThreadAt, ServerAt, ServerHas, NoneLive, Reading
<1>3. CASE Kill(t)
  <2>1. pc'[t] = "exit" /\ NoneLive(c)'
    BY <1>1, <1>3 DEF Kill, Exit, Team, vars, NoneLive, ServerAt
  <2> QED BY <2>1, ServerExits
<1>4. CASE Interrupted(t)
  <2>1. pc'[t] = "exit" /\ NoneLive(c)'
    BY <1>1, <1>4 DEF Interrupted, programs, ReadInterrupt, NoneLive, ServerAt
  <2> QED BY <2>1, ServerExits
<1>5. CASE SignalAsleep(t)
  <2>1. call'[t] = Idle /\ pc'[t] = "restart"
    BY <1>5 DEF SignalAsleep, ReadInterrupt, Return, AllInv, TypeOK, ProgramsOK
  <2>2. isServer[c] /\ life[c] = "open" /\ dispatched[c] = <<>>
    BY <1>0, <1>1, <1>5 DEF SignalAsleep, ReadInterrupt, ThreadAt, ServerAt, ServerHas
  <2>3. /\ isServer'[c] = isServer[c] /\ life'[c] = life[c] /\ dispatched'[c] = dispatched[c]
        /\ NoneLive(c)'
    BY <1>1, <1>5 DEF SignalAsleep, ReadInterrupt, table, lists, NoneLive, ServerAt
  <2> QED BY <1>0, <2>1, <2>2, <2>3 DEF ThreadAt, ServerAt, ServerHas
<1> QED BY <1>2, <1>3, <1>4, <1>5

\* Where the driver gets a call to.
LEMMA ContinueGets ==
  ASSUME TypeOK, NEW t \in Thread
  PROVE  /\ RegisterRole(t) => call'[t].at = "setHandle"
         /\ UnregisterEntry(t) => call'[t].at = "clearRole"
         /\ RequestAppend(t) => call'[t].at = "wake"
         /\ ReplyAnswer(t) => call'[t].at = "wakeCaller"
         /\ EventDeliver(t) => /\ call'[t].at \in {"wakeTarget", "unlink"}
                               /\ call'[t].id = call[t].id
         /\ EventWake(t) => call'[t].at = "unlink" /\ call'[t].id = call[t].id
         /\ ReadCheck(t) => /\ call'[t].at = IF IsEmpty(FdOf[t], call[t].on) THEN "asleep" ELSE "pop"
                            /\ call'[t].on = call[t].on
         /\ ReadRequest(t) => call'[t].at = "dispatch" /\ call'[t].tx = Head(pending[FdOf[t]])
         /\ (\/ RegisterHandle(t) \/ UnregisterRole(t) \/ RequestWake(t) \/ ReplyWake(t)
             \/ EventUnlink(t) \/ ReadAgain(t) \/ ReadDispatch(t) \/ ReadDone(t))
               => call'[t] = Idle
<1> USE DEF TypeOK
<1>1. \A f, c : f[t].at # "asleep" => WakeUp(f, c)[t] = f[t]
  BY DEF WakeUp
<1>2. Idle.at = "idle"
  BY DEF Idle
<1>3. \A r, c : r.at # "asleep" => WakeUp([call EXCEPT ![t] = r], c)[t] = r
  BY <1>1
<1>4. EventWake(t) => call'[t] = [at |-> "unlink", id |-> call[t].id]
  <2> DEFINE r == [at |-> "unlink", id |-> call[t].id]
  <2>1. r.at # "asleep"
    OBVIOUS
  <2> HIDE DEF r
  <2>2. EventWake(t) => call' = WakeUp([call EXCEPT ![t] = r], call[t].to)
    BY DEF EventWake, r
  <2>3. EventWake(t) => call'[t] = r
    BY <1>3, <2>1, <2>2
  <2> QED BY <2>3 DEF r
<1>5. RequestWake(t) \/ ReplyWake(t) => call'[t] = Idle
  <2>1. RequestWake(t) \/ ReplyWake(t) => \E c : call' = WakeUp([call EXCEPT ![t] = Idle], c)
    BY DEF RequestWake, ReplyWake
  <2> QED BY <1>2, <1>3, <2>1
<1>11. /\ RequestAppend(t) => call'[t].at = "wake"
       /\ ReplyAnswer(t) => call'[t].at = "wakeCaller"
  BY DEF RequestAppend, ReplyAnswer, Goto
<1>12. EventDeliver(t) => /\ call'[t].at \in {"wakeTarget", "unlink"}
                          /\ call'[t].id = call[t].id
  <2>1. CASE Goto(t, [at |-> "wakeTarget", id |-> call[t].id, to |-> call[t].to])
    BY <2>1 DEF Goto
  <2>2. CASE Goto(t, [at |-> "unlink", id |-> call[t].id])
    BY <2>2 DEF Goto
  <2> QED BY <2>1, <2>2 DEF EventDeliver
<1>6. RegisterRole(t) => call'[t].at = "setHandle"
  BY DEF RegisterRole, Goto
<1>7. UnregisterEntry(t) => call'[t].at = "clearRole"
  BY DEF UnregisterEntry, Goto
<1>8. ReadCheck(t) => /\ call'[t].at = IF IsEmpty(FdOf[t], call[t].on) THEN "asleep" ELSE "pop"
                      /\ call'[t].on = call[t].on
  BY DEF ReadCheck, Goto
<1>9. ReadRequest(t) => call'[t].at = "dispatch" /\ call'[t].tx = Head(pending[FdOf[t]])
  BY DEF ReadRequest, Goto
<1>10. (\/ RegisterHandle(t) \/ UnregisterRole(t)
        \/ EventUnlink(t) \/ ReadAgain(t) \/ ReadDispatch(t) \/ ReadDone(t))
          => call'[t] = Idle
  BY DEF RegisterHandle, UnregisterRole, EventUnlink, ReadAgain, ReadDispatch, ReadDone, Return
<1> QED BY <1>4, <1>5, <1>6, <1>7, <1>8, <1>9, <1>10, <1>11, <1>12

LEMMA ContinueLooksUpNothing ==
  ASSUME TypeOK, NEW t \in Thread, Continue(t)
  PROVE  call'[t].at \notin {"append", "event", "setRole", "clearEntry"}
<1>1. Idle.at = "idle"
  BY DEF Idle
<1> QED BY <1>1, ContinueGets DEF Continue

\* A thread that is about to call the driver is not in it.
LEMMA OnlyContinues ==
  ASSUME NEW t \in Thread, Continue(t)
  PROVE  call[t].at # "idle" /\ call[t] # Idle
BY DEF Idle, Continue, RegisterRole, RegisterHandle, UnregisterEntry, UnregisterRole,
   RequestAppend, RequestWake, ReplyAnswer, ReplyWake, EventDeliver, EventWake,
   EventUnlink, ReadCheck, ReadAgain, ReadRequest, ReadDispatch, ReadDone

LEMMA ServerProceeds ==
  ASSUME AllInv, NEW t \in Thread, Role[t] = "server", Proceed(t)
  PROVE  ThreadAt(t)'
<1> DEFINE c == FdOf[t]
<1>0. c \in Ctx /\ Idle.at = "idle" /\ Continue(t) /\ pc'[t] = pc[t] /\ ret'[t] = Result(t)
  BY ConstantsAssumption DEF Idle, Proceed, AllInv, ProgramsOK
<1>1. ThreadAt(t) /\ ServerAt(t) /\ TypeOK
  BY DEF AllInv, ProgramsInv, ThreadAt
<1>2. NoneLive(c)'
  BY <1>0, <1>1, NoneLiveStays, ContinueLooksUpNothing DEF ServerAt
<1>3. life[c] = "open" /\ life' = life
  <2>1. life[c] = "open"
    BY <1>0, ContinueIsOpen DEF AllInv, TableInv
  <2>2. life' = life
    BY <1>0 DEF Continue, RegisterRole, RegisterHandle, UnregisterEntry, UnregisterRole,
       RequestAppend, RequestWake, ReplyAnswer, ReplyWake, EventDeliver, EventWake,
       EventUnlink, ReadCheck, ReadAgain, ReadRequest, ReadDispatch, ReadDone
  <2> QED BY <2>1, <2>2
<1>4. CASE pc[t] = "exit"
  BY <1>0, <1>2, <1>4, ServerExits
<1>5. CASE pc[t] = "loop"
  <2>1. \/ RegisterRole(t) \/ RegisterHandle(t) \/ ReplyAnswer(t) \/ ReplyWake(t)
        \/ EventDeliver(t) \/ EventWake(t) \/ EventUnlink(t)
    BY <1>0, <1>1, <1>5, OnlyContinues
       DEF ServerAt, Continue, UnregisterEntry, UnregisterRole, RequestAppend, RequestWake,
       ReadCheck, ReadAgain, ReadRequest, ReadDispatch, ReadDone
  <2>2. CASE RegisterRole(t)
    <3>1. isServer'[c] /\ dispatched'[c] = dispatched[c] /\ dispatched[c] = <<>>
      BY <1>0, <1>1, <1>5, <2>2 DEF RegisterRole, lists, TypeOK, ThreadAt, ServerHas
    <3>2. call'[t].at = "setHandle"
      BY <1>1, <2>2, ContinueGets
    <3> QED BY <1>0, <1>1, <1>2, <1>3, <1>5, <3>1, <3>2 DEF ThreadAt, ServerAt, ServerHas
  <2>3. CASE RegisterHandle(t) \/ ReplyAnswer(t) \/ ReplyWake(t)
    <3>1. /\ isServer[c] /\ isServer'[c] = isServer[c]
          /\ dispatched'[c] = dispatched[c] /\ dispatched[c] = <<>>
      BY <1>0, <1>1, <1>5, <2>3
         DEF RegisterHandle, ReplyAnswer, ReplyWake, lists, table, ThreadAt, ServerHas, ServerAt
    <3>2. call'[t] = Idle \/ call'[t].at = "wakeCaller"
      BY <1>1, <2>3, ContinueGets
    <3> QED BY <1>0, <1>1, <1>2, <1>3, <1>5, <3>1, <3>2 DEF ThreadAt, ServerAt, ServerHas
  <2>4. CASE EventDeliver(t) \/ EventWake(t)
    <3>1. /\ isServer[c] /\ isServer'[c] = isServer[c] /\ dispatched'[c] = dispatched[c]
          /\ \E x \in Tx : dispatched[c] = <<x>> /\ x.id = call[t].id
      BY <1>0, <1>1, <1>5, <2>4
         DEF EventDeliver, EventWake, table, lists, ThreadAt, ServerHas, ServerAt
    <3>2. call'[t].at \in {"wakeTarget", "unlink"} /\ call'[t].id = call[t].id
      BY <1>1, <2>4, ContinueGets
    <3>3. ServerHas(t)'
      BY <1>0, <1>5, <3>1, <3>2 DEF ServerHas
    <3> QED BY <1>0, <1>1, <1>2, <1>3, <1>5, <3>1, <3>2, <3>3 DEF ThreadAt, ServerAt
  <2>5. CASE EventUnlink(t)
    <3>1. isServer[c] /\ isServer'[c] = isServer[c]
      BY <1>0, <1>1, <1>5, <2>5 DEF EventUnlink, table, ServerAt
    <3>2. PICK x \in Tx : dispatched[c] = <<x>> /\ x.id = call[t].id
      BY <1>0, <1>1, <1>5, <2>5 DEF EventUnlink, ThreadAt, ServerHas
    <3>3. Len(dispatched[c]) = 1 /\ dispatched[c][1] = x
      BY <3>2
    <3>4. IsFirstMatch(c, call[t].id, 1) /\ \A i \in 1 .. Len(dispatched[c]) : i = 1
      BY <3>2, <3>3 DEF IsFirstMatch
    <3>5. dispatched' = DelAt(dispatched, c, 1)
      <4> DEFINE Match == {i \in 1 .. Len(dispatched[c]) :
                             isServer[c] /\ IsFirstMatch(c, call[t].id, i)}
      <4>1. Match = {1}
        BY <3>1, <3>3, <3>4
      <4> HIDE DEF Match
      <4>2. Match = {} \/ \E i \in Match : dispatched' = DelAt(dispatched, c, i)
        BY <2>5 DEF EventUnlink, Match
      <4> QED BY <4>1, <4>2
    <3>6. dispatched'[c] = <<>>
      <4>1. dispatched \in [Ctx -> Seq(Tx)]
        BY <1>1 DEF TypeOK
      <4>2. DelAt(dispatched, c, 1)[c] = <<>>
        BY <1>0, <3>2, <4>1, DelOne
      <4> QED BY <3>5, <4>2
    <3>7. call'[t] = Idle
      BY <1>1, <2>5, ContinueGets
    <3> QED BY <1>0, <1>1, <1>2, <1>3, <1>5, <3>1, <3>6, <3>7 DEF ThreadAt, ServerAt, ServerHas
  <2> QED BY <2>1, <2>2, <2>3, <2>4, <2>5
<1>6. CASE pc[t] = "answer"
  <2>0. Reading(t, "pending") \/ call[t].at = "dispatch"
    BY <1>0, <1>1, <1>6, OnlyContinues DEF ServerAt
  <2>1. ReadCheck(t) \/ ReadRequest(t) \/ ReadDispatch(t)
    BY <1>0, <1>1, <1>6, <2>0
       DEF Reading, IsEmpty, ServerAt, Continue, RegisterRole, RegisterHandle,
       UnregisterEntry, UnregisterRole, RequestAppend, RequestWake, ReplyAnswer,
       ReplyWake, EventDeliver, EventWake, EventUnlink, ReadAgain, ReadDone
  <2>2. isServer[c] /\ isServer'[c] = isServer[c] /\ dispatched[c] = <<>>
    BY <1>0, <1>1, <1>6, <2>0, <2>1
       DEF ReadCheck, ReadRequest, ReadDispatch, table, Reading, ThreadAt, ServerAt, ServerHas
  <2>3. CASE ReadCheck(t)
    <3>1. /\ call'[t].at = (IF pending[c] = <<>> THEN "asleep" ELSE "pop")
          /\ call'[t].on = "pending"
      BY <1>1, <2>0, <2>3, ContinueGets DEF ReadCheck, Reading, IsEmpty
    <3>2. pending'[c] = pending[c] /\ dispatched'[c] = dispatched[c]
      BY <2>3 DEF ReadCheck, lists
    <3>3. call'[t] # Idle /\ Reading(t, "pending")'
      BY <1>0, <3>1 DEF Reading
    <3> QED BY <1>0, <1>1, <1>2, <1>3, <1>6, <2>2, <3>1, <3>2, <3>3 DEF ThreadAt, ServerAt, ServerHas
  <2>4. CASE ReadRequest(t)
    <3>1. call'[t].at = "dispatch" /\ dispatched'[c] = dispatched[c]
      BY <1>1, <2>4, ContinueGets DEF ReadRequest
    <3> QED BY <1>0, <1>1, <1>2, <1>3, <1>6, <2>2, <3>1 DEF ThreadAt, ServerAt, ServerHas
  <2>5. CASE ReadDispatch(t)
    <3>1. call'[t] = Idle /\ call[t].at = "dispatch" /\ call[t].tx \in Tx
      BY <1>1, <2>5, ContinueGets, CallLocals DEF ReadDispatch, TypeOK
    <3>2. ret'[t] = call[t].tx
      BY <1>0, <3>1 DEF Result
    <3>3. dispatched'[c] = Append(<<>>, call[t].tx)
      BY <1>0, <1>1, <2>2, <2>5 DEF ReadDispatch, AddTail, TypeOK
    <3>4. \A x : Append(<<>>, x) = <<x>>
      OBVIOUS
    <3>5. dispatched'[c] = <<ret'[t]>> /\ ret'[t] \in Tx
      BY <3>1, <3>2, <3>3, <3>4
    <3> QED BY <1>0, <1>1, <1>2, <1>3, <1>6, <2>2, <3>1, <3>5 DEF ThreadAt, ServerAt, ServerHas
  <2> QED BY <2>1, <2>3, <2>4, <2>5
<1>7. CASE pc[t] \in {"start", "register", "restart"}
  <2>1. call[t] # Idle
    BY <1>0, OnlyContinues
  <2> QED BY <1>1, <1>3, <1>7, <2>1 DEF ServerAt
<1> QED BY <1>1, <1>4, <1>5, <1>6, <1>7 DEF ServerAt

-----------------------------------------------------------------------------
(* dwq_client2 as `sync': its one request is answered before it closes.     *)

\* A file that has numbered one request at most has one live request at most.
LEMMA OnlyRequest ==
  ASSUME TypeOK, RequestInv, OrderInv, NEW c \in Ctx, txCounter[c] <= 1,
         NEW x \in Tx, NEW y \in Tx, x.caller = c, y.caller = c,
         fate[x] = "live", fate[y] = "live"
  PROVE  x = y
<1>1. ASSUME NEW z \in Tx, z.caller = c, fate[z] = "live"
      PROVE  z.gen = gen[c] /\ z.id = 1
  <2>1. PICK p \in Place : Has(p, z)
    BY <1>1 DEF RequestInv, HeldOnce
  <2>2. z.gen = gen[c]
    <3>1. CASE p[1] \in TravelKind
      BY <1>1, <2>1, <3>1 DEF Travels, OrderInv, CallersWait
    <3>2. CASE p[1] \notin TravelKind
      <4>1. PICK d \in Ctx, k \in AnswerKind : p = <<k, d>>
        BY <3>2, PlaceKinds DEF TravelKind
      <4>2. AnswerIn(done[d], k, z)
        BY <2>1, <4>1, HasKinds
      <4> QED BY <1>1, <4>2 DEF OrderInv, AnswersHome
    <3> QED BY <3>1, <3>2
  <2>3. gen[c] \in Nat /\ txCounter[c] \in Nat /\ z.id \in Nat \ {0}
    BY ConstantsAssumption DEF TypeOK, Tx, TxId
  <2>4. z.id <= txCounter[c]
    BY <1>1, <2>2, <2>3 DEF RequestInv, Numbered
  <2> QED BY <2>2, <2>3, <2>4
<1> QED BY <1>1 DEF Tx

LEMMA SyncStarts ==
  ASSUME AllInv, NEW t \in Thread, Role[t] = "sync", Start(t)
  PROVE  ThreadAt(t)'
<1> DEFINE c == FdOf[t]
<1>0. c \in Ctx
  BY ConstantsAssumption
<1>1. SyncAt(t) /\ pc[t] \in {"start", "exit"}
  BY DEF AllInv, ProgramsInv, ThreadAt, Start, Team
<1>2. NoneLive(c)'
  BY <1>0, <1>1, FileNoneLive DEF Start, AllInv, SyncAt
<1>3. pc'[t] = "write"
  BY DEF Start
<1>4. call[t] = Idle /\ call' = call /\ Idle.at = "idle"
  BY DEF Start, Open, AllInv, TableInv, CallsAreOpen, Idle
<1>5. /\ life'[c] = "open" /\ ~isServer'[c] /\ done'[c] = <<>>
      /\ txCounter'[c] = 0
  BY <1>0 DEF Start, Open, AllInv, TypeOK
<1>6. NoEvents(done'[c])
  <2>1. Len(<<>>) = 0 /\ 1 .. 0 = {}
    BY EmptySeq
  <2> QED BY <1>5, <2>1 DEF NoEvents
<1> QED BY <1>2, <1>3, <1>4, <1>5, <1>6 DEF ThreadAt, SyncAt

\* What write() of a request does to the writer's file.
LEMMA Writes ==
  ASSUME TypeOK, NEW t \in Thread, Request(t, MY_HANDLE)
  PROVE  /\ Begin(t)
         /\ \/ /\ call'[t].at = "append" /\ call'[t].to = handles[MY_HANDLE]
               /\ handles[MY_HANDLE] # NoCtx /\ call'[t] # Idle
            \/ call'[t] = Idle
         /\ txCounter'[FdOf[t]] = txCounter[FdOf[t]] + 1
         /\ UNCHANGED <<life, handles, isServer, serverHandle, pending, dispatched, done>>
<1>1. Begin(t)
  BY ProgramsAssumption DEF Begin
<1>2. UNCHANGED <<life, handles, isServer, serverHandle, pending, dispatched, done>>
  BY DEF Request, table, lists
<1>3. call[t] = Idle /\ Idle.at = "idle"
  BY DEF Request, CanCall, Idle
<1>4. txCounter'[FdOf[t]] = txCounter[FdOf[t]] + 1
  BY ConstantsAssumption DEF Request, TypeOK
<1>5. \A x, s : [at |-> "append", tx |-> x, to |-> s].at = "append"
                /\ [at |-> "append", tx |-> x, to |-> s].to = s
  OBVIOUS
<1>6. \/ /\ handles[MY_HANDLE] # NoCtx
         /\ \E x : Goto(t, [at |-> "append", tx |-> x, to |-> handles[MY_HANDLE]])
      \/ call' = call
  BY DEF Request
<1> QED BY <1>1, <1>2, <1>3, <1>4, <1>5, <1>6 DEF Goto, TypeOK

LEMMA SyncWrites ==
  ASSUME AllInv, NEW t \in Thread, Role[t] = "sync", ClientWrite(t)
  PROVE  ThreadAt(t)'
<1> DEFINE c == FdOf[t]
<1>0. c \in Ctx /\ Idle.at = "idle"
  BY ConstantsAssumption DEF Idle
<1>1. SyncAt(t) /\ pc[t] = "write" /\ Request(t, MY_HANDLE)
  BY DEF AllInv, ProgramsInv, ThreadAt, ClientWrite, Ready
<1>2. /\ txCounter'[c] = 1 /\ life'[c] = "open" /\ ~isServer'[c]
      /\ NoEvents(done'[c]) /\ Begin(t) /\ NoneLive(c)
  BY <1>0, <1>1, Writes DEF AllInv, SyncAt
<1>3. CASE call'[t] = Idle
  <2>1. pc'[t] = "exit"
    BY <1>3 DEF ClientWrite, Exit, Team
  <2>2. NoneLive(c)'
    BY <1>0, <1>2, <1>3, NoneLiveStays DEF AllInv
  <2> QED BY <1>0, <1>2, <1>3, <2>1, <2>2 DEF ThreadAt, SyncAt
<1>4. CASE call'[t] # Idle
  <2>1. call'[t].at = "append"
    BY <1>1, <1>4, Writes DEF AllInv
  <2>2. pc'[t] = "read"
    BY <1>4 DEF ClientWrite, Step, AllInv, ProgramsOK
  <2> QED BY <1>2, <1>4, <2>1, <2>2 DEF ThreadAt, SyncAt
<1> QED BY <1>3, <1>4

LEMMA SyncReads ==
  ASSUME AllInv, NEW t \in Thread, Role[t] = "sync", ClientRead(t)
  PROVE  ThreadAt(t)'
<1> DEFINE c == FdOf[t]
<1>0. c \in Ctx /\ Idle.at = "idle"
  BY ConstantsAssumption DEF Idle
<1>1. SyncAt(t) /\ pc[t] = "read" /\ Read(t) /\ Step(t, "unregister")
  BY DEF AllInv, ProgramsInv, ThreadAt, ClientRead, Ready
<1>2. call'[t].at = "check" /\ call'[t].on = "done" /\ pc'[t] = "unregister"
  BY <1>0, <1>1 DEF SyncAt, Read, Goto, Step, AllInv, TypeOK, ProgramsOK
<1>3. UNCHANGED <<life, isServer, txCounter, done>>
  BY <1>1 DEF Read, table, lists
<1>4. call'[t] # Idle /\ Reading(t, "done")'
  BY <1>0, <1>2 DEF Reading
<1> QED BY <1>0, <1>1, <1>2, <1>3, <1>4 DEF ThreadAt, SyncAt

LEMMA SyncLeaves ==
  ASSUME AllInv, NEW t \in Thread, Role[t] = "sync", SyncLeave(t)
  PROVE  ThreadAt(t)'
<1>1. SyncAt(t) /\ pc[t] = "unregister" /\ call[t] = Idle /\ UNCHANGED vars
  BY DEF AllInv, ProgramsInv, ThreadAt, SyncLeave, Ready
<1>2. pc'[t] = "exit"
  BY DEF SyncLeave, Exit, Team
<1>3. Idle.at = "idle" /\ call' = call
  BY <1>1 DEF Idle, vars
<1> QED BY <1>1, <1>2, <1>3 DEF vars, table, lists, ThreadAt, SyncAt, NoneLive

LEMMA SyncProceeds ==
  ASSUME AllInv, NEW t \in Thread, Role[t] = "sync", Proceed(t)
  PROVE  ThreadAt(t)'
<1> DEFINE c == FdOf[t]
<1>0. c \in Ctx /\ Idle.at = "idle" /\ Continue(t) /\ pc'[t] = pc[t]
  BY ConstantsAssumption DEF Idle, Proceed
<1>1. SyncAt(t) /\ TypeOK
  BY DEF AllInv, ProgramsInv, ThreadAt
<1>2. life[c] = "open" /\ call[t] # Idle /\ call[t].at # "idle"
  BY <1>0, ContinueIsOpen, OnlyContinues DEF AllInv, TableInv
<1>3. CASE pc[t] = "read"
  <2>1. RequestAppend(t) \/ RequestWake(t)
    BY <1>0, <1>1, <1>2, <1>3
       DEF SyncAt, Continue, RegisterRole, RegisterHandle, UnregisterEntry, UnregisterRole,
       ReplyAnswer, ReplyWake, EventDeliver, EventWake, EventUnlink, ReadCheck, ReadAgain,
       ReadRequest, ReadDispatch, ReadDone
  <2>2. call'[t].at \in {"wake", "idle"} /\ call'[t].at # "pop"
    BY <1>0, <1>1, <2>1, ContinueGets
  <2>3. UNCHANGED <<life, isServer, txCounter, done>>
    BY <2>1 DEF RequestAppend, RequestWake, table, lists
  <2> QED BY <1>0, <1>1, <1>2, <1>3, <2>2, <2>3 DEF ThreadAt, SyncAt
<1>4. CASE pc[t] = "unregister"
  <2>1. Reading(t, "done")
    BY <1>1, <1>2, <1>4 DEF SyncAt
  <2>2. ReadCheck(t) \/ ReadDone(t)
    BY <1>0, <1>1, <2>1
       DEF Reading, IsEmpty, SyncAt, Continue, RegisterRole, RegisterHandle,
       UnregisterEntry, UnregisterRole, RequestAppend, RequestWake, ReplyAnswer,
       ReplyWake, EventDeliver, EventWake, EventUnlink, ReadAgain, ReadRequest,
       ReadDispatch
  <2>3. CASE ReadCheck(t)
    <3>1. /\ call'[t].at = (IF done[c] = <<>> THEN "asleep" ELSE "pop")
          /\ call'[t].on = "done"
      BY <1>1, <2>1, <2>3, ContinueGets DEF ReadCheck, Reading, IsEmpty
    <3>2. UNCHANGED <<life, isServer, txCounter, done>>
      BY <2>3 DEF ReadCheck, table, lists
    <3>3. call'[t] # Idle /\ Reading(t, "done")'
      BY <1>0, <3>1 DEF Reading
    <3> QED BY <1>0, <1>1, <1>2, <1>4, <3>1, <3>2, <3>3 DEF ThreadAt, SyncAt
  <2>4. CASE ReadDone(t)
    <3> DEFINE e == Head(done[c])
    <3>1. done[c] \in Seq(Entry) /\ done[c] # <<>> /\ NoEvents(done[c])
      BY <1>0, <1>1, <2>4 DEF ReadDone, TypeOK, SyncAt
    <3>2. e \in Entry /\ NoEvents(Tail(done[c])) /\ e.kind # "event"
      BY <3>1, HeadTailProperties, NoEventsTail
    <3>3. done'[c] = Tail(done[c])
      BY <1>0, <1>1, <2>4 DEF ReadDone, TypeOK
    <3>4. call'[t] = Idle
      BY <1>1, <2>4, ContinueGets
    <3>5. UNCHANGED <<life, isServer, txCounter>> /\ Mark(Answered({e}), "delivered")
      BY <2>4 DEF ReadDone, table
    <3>6. e.tx \in Tx /\ e.kind \in AnswerKind /\ Answered({e}) = {e.tx}
      BY <3>2, EntryKind DEF Answered
    <3>7. AnswerIn(done[c], e.kind, e.tx)
      <4>1. Len(done[c]) \in Nat \ {0} /\ e = done[c][1]
        BY <3>1, EmptySeq, HeadTailProperties
      <4>2. 1 \in 1 .. Len(done[c])
        BY <4>1
      <4> QED BY <3>2, <4>1, <4>2 DEF AnswerIn
    <3>8. e.tx.caller = c /\ fate[e.tx] = "live"
      <4>1. Has(<<e.kind, c>>, e.tx) /\ <<e.kind, c>> \in Place
        BY <1>0, <3>6, <3>7, HasKinds, PlaceKinds
      <4> QED BY <1>0, <3>6, <3>7, <4>1, HeldIsLive DEF AllInv, RequestInv, OrderInv, AnswersHome
    <3> HIDE DEF e
    <3>9. NoneLive(c)'
      <4> SUFFICES ASSUME NEW x \in Tx, x.caller = c, fate'[x] = "live" PROVE FALSE
        BY DEF NoneLive
      <4>1. x # e.tx /\ fate[x] = "live"
        BY <3>5, <3>6 DEF Mark
      <4>2. txCounter[c] <= 1
        BY <1>1, <1>4 DEF SyncAt
      <4> QED BY <1>0, <3>6, <3>8, <4>1, <4>2, OnlyRequest DEF AllInv
    <3> QED BY <1>0, <1>1, <1>2, <1>4, <3>2, <3>3, <3>4, <3>5, <3>9 DEF ThreadAt, SyncAt
  <2> QED BY <2>2, <2>3, <2>4
<1>5. CASE pc[t] \in {"start", "write", "exit"}
  BY <1>1, <1>2, <1>5 DEF SyncAt
<1> QED BY <1>1, <1>3, <1>4, <1>5 DEF SyncAt

-----------------------------------------------------------------------------
(* dwq_client2 as `async': its callback thread reads as a server, and never  *)
(* returns, so that main() waits for it to the end.                        *)

LEMMA CallbackStays ==
  ASSUME TypeOK, NEW u \in Thread, Role[u] = "callback", ThreadAt(u), Undisturbed(u),
         pc'[u] = pc[u],
         \A w \in Thread : FdOf[w] = FdOf[u] /\ Role[w] = "async" =>
            pc'[w] = pc[w] \/ (pc[w] \in {"write", "join"} /\ pc'[w] \in {"write", "join"})
  PROVE  ThreadAt(u)'
<1>1. Idle.at = "idle" /\ CallbackAt(u)
  BY DEF Idle, ThreadAt
<1>2. call'[u] = call[u] \/ (call[u].at = "asleep" /\ call'[u].at = "check"
                              /\ call'[u].on = call[u].on)
  BY DEF Undisturbed
<1>3. CallbackAt(u)'
  BY <1>1, <1>2 DEF CallbackAt
<1> QED BY <1>3 DEF ThreadAt

\* The callback threads of a process that ends.
LEMMA CallbackExits ==
  ASSUME TypeOK, NEW u \in Thread, Role[u] = "callback", ThreadAt(u), Undisturbed(u),
         \A w \in Thread : FdOf[w] = FdOf[u] => pc'[w] = "exit"
  PROVE  ThreadAt(u)'
<1>1. Idle.at = "idle" /\ CallbackAt(u)
  BY DEF Idle, ThreadAt
<1>2. call'[u] = call[u] \/ (call[u].at = "asleep" /\ call'[u].at = "check"
                              /\ call'[u].on = call[u].on)
  BY DEF Undisturbed
<1>3. CallbackAt(u)'
  BY <1>1, <1>2 DEF CallbackAt
<1> QED BY <1>3 DEF ThreadAt

LEMMA QuietFrame ==
  ASSUME UNCHANGED <<life, table, txCounter, lists, fate>>, NEW t \in Thread, Undisturbed(t)
  PROVE  Frame(t)
BY DEF table, lists, Frame, NoneLive

LEMMA AsyncStarts ==
  ASSUME AllInv, NEW t \in Thread, Role[t] = "async", Start(t),
         NEW u \in Thread, FdOf[u] = FdOf[t]
  PROVE  ThreadAt(u)'
<1> DEFINE c == FdOf[t]
<1>0. c \in Ctx /\ Idle.at = "idle"
  BY ConstantsAssumption DEF Idle
<1>1. /\ life'[c] = "open" /\ ~isServer'[c] /\ pending'[c] = <<>>
      /\ call' = call /\ call[u] = Idle
  BY <1>0 DEF Start, Open, AllInv, TypeOK, TableInv, CallsAreOpen
<1>2. CASE u = t
  <2>1. pc'[t] = "register"
    BY <1>2 DEF Start
  <2>2. AsyncAt(t) /\ pc[t] # "join"
    BY DEF Start, Team, AllInv, ProgramsInv, ThreadAt
  <2>3. NoneLive(c)'
    BY <1>0, <2>2, FileNoneLive DEF Start, AllInv, AsyncAt
  <2> QED BY <1>0, <1>1, <1>2, <2>1, <2>3 DEF ThreadAt, AsyncAt
<1>3. CASE u # t
  <2>1. pc'[u] = "start" /\ Role[u] = "callback"
    BY <1>3, OneMain DEF Start, Team
  <2> QED BY <1>1, <2>1 DEF ThreadAt, CallbackAt
<1> QED BY <1>2, <1>3

LEMMA AsyncRegisters ==
  ASSUME AllInv, NEW t \in Thread, Role[t] = "async", AsyncRegister(t),
         NEW u \in Thread, FdOf[u] = FdOf[t]
  PROVE  ThreadAt(u)'
<1> DEFINE c == FdOf[t]
<1>0. c \in Ctx /\ Idle.at = "idle"
  BY ConstantsAssumption DEF Idle
<1>1. AsyncAt(t) /\ pc[t] = "register" /\ call[t] = Idle /\ ThreadAt(u)
  BY DEF AllInv, ProgramsInv, ThreadAt, AsyncRegister, Ready
<1>2. CASE Register(t, CB_HANDLE) /\ ~UNCHANGED vars
  <2>1. Begin(t)
    BY <1>2, ProgramsAssumption DEF Begin
  <2>2. /\ pc'[t] = "write"
        /\ u # t => pc'[u] = "read"
    <3>1. handles[CB_HANDLE] = NoCtx
      BY <1>2 DEF Register
    <3> QED BY <3>1 DEF AsyncRegister, Team
  <2>3. CASE u = t
    <3>1. call'[t].at = "setRole" /\ handles'[CB_HANDLE] = c
      BY <1>0, <1>2, ProgramsAssumption DEF Register, Goto, AllInv, TypeOK, UserHandle, Handle
    <3>2. NoneLive(c)'
      BY <1>0, <1>1, <2>1, <3>1, NoneLiveStays DEF AsyncAt, AllInv
    <3>3. life' = life /\ pending' = pending
      BY <1>2 DEF Register, lists
    <3> QED BY <1>0, <1>1, <2>2, <2>3, <3>1, <3>2, <3>3 DEF ThreadAt, AsyncAt
  <2>4. CASE u # t
    <3>1. Role[u] = "callback" /\ pc[u] = "start" /\ call[u] = Idle
      BY <1>1, <2>4, OneMain DEF ThreadAt, CallbackAt
    <3>2. call'[u] = call[u]
      BY <1>2, <2>4 DEF Register, Goto, AllInv, TypeOK
    <3>3. \A w \in Thread : FdOf[w] = FdOf[u] /\ Role[w] = "async" => pc'[w] = "write"
      <4> SUFFICES ASSUME NEW w \in Thread, FdOf[w] = FdOf[u], Role[w] = "async"
                   PROVE  pc'[w] = "write"
        OBVIOUS
      <4>1. w = t
        BY OneMain
      <4> QED BY <2>2, <4>1
    <3> QED BY <2>2, <2>4, <3>1, <3>2, <3>3 DEF ThreadAt, CallbackAt
  <2> QED BY <2>3, <2>4
<1>3. CASE Exit(t) /\ UNCHANGED vars
  <2>1. \A w \in Thread : FdOf[w] = FdOf[t] => pc'[w] = "exit"
    BY <1>3 DEF Exit, Team
  <2>2. CASE u = t
    BY <1>0, <1>1, <1>3, <2>1, <2>2 DEF vars, table, lists, ThreadAt, AsyncAt, NoneLive
  <2>3. CASE u # t
    <3>1. Role[u] = "callback" /\ Undisturbed(u)
      BY <1>3, <2>3, OneMain DEF Undisturbed, vars
    <3> QED BY <1>1, <2>1, <3>1, CallbackExits DEF AllInv
  <2> QED BY <2>2, <2>3
<1>4. \/ Register(t, CB_HANDLE) /\ ~UNCHANGED vars
      \/ Exit(t) /\ UNCHANGED vars
  <2>1. Register(t, CB_HANDLE) => call' # call
    <3>1. ASSUME Register(t, CB_HANDLE) PROVE call'[t].at = "setRole"
      BY <3>1 DEF Register, Goto, AllInv, TypeOK
    <3> QED BY <1>0, <1>1, <3>1
  <2> QED BY <2>1 DEF AsyncRegister, vars
<1> QED BY <1>2, <1>3, <1>4

LEMMA AsyncWrites ==
  ASSUME AllInv, NEW t \in Thread, Role[t] = "async", ClientWrite(t),
         NEW u \in Thread, FdOf[u] = FdOf[t]
  PROVE  ThreadAt(u)'
<1> DEFINE c == FdOf[t]
<1>0. c \in Ctx /\ Idle.at = "idle"
  BY ConstantsAssumption DEF Idle
<1>1. /\ AsyncAt(t) /\ pc[t] = "write" /\ call[t] = Idle /\ Request(t, MY_HANDLE)
      /\ ThreadAt(u) /\ TypeOK
  BY DEF AllInv, ProgramsInv, ThreadAt, ClientWrite, Ready
<1>2. /\ life'[c] = "open" /\ isServer'[c] /\ handles'[CB_HANDLE] = c
      /\ pending'[c] = <<>> /\ NoneLive(c) /\ Begin(t)
  BY <1>0, <1>1, Writes DEF AsyncAt
<1>3. u # t => Role[u] = "callback" /\ Undisturbed(u)
  BY <1>1, <1>2, OneMain, OthersCalls
<1>4. CASE call'[t] = Idle
  <2>1. \A w \in Thread : FdOf[w] = FdOf[t] => pc'[w] = "exit"
    BY <1>4 DEF ClientWrite, Exit, Team
  <2>2. CASE u = t
    <3>1. NoneLive(c)'
      BY <1>0, <1>1, <1>2, <1>4, NoneLiveStays
    <3> QED BY <1>0, <1>2, <1>4, <2>1, <2>2, <3>1 DEF ThreadAt, AsyncAt
  <2>3. CASE u # t
    BY <1>1, <1>3, <2>1, <2>3, CallbackExits
  <2> QED BY <2>2, <2>3
<1>5. CASE call'[t] # Idle
  <2>1. pc' = [pc EXCEPT ![t] = "join"]
    BY <1>5 DEF ClientWrite, Step
  <2>2. pc'[t] = "join" /\ \A w \in Thread : w # t => pc'[w] = pc[w]
    BY <2>1 DEF AllInv, ProgramsOK
  <2>3. CASE u = t
    <3>1. call'[t].at = "append"
      BY <1>1, <1>5, Writes
    <3> QED BY <1>2, <1>5, <2>2, <2>3, <3>1 DEF ThreadAt, AsyncAt
  <2>4. CASE u # t
    <3>1. \A w \in Thread : FdOf[w] = FdOf[u] /\ Role[w] = "async" =>
            pc'[w] = pc[w] \/ (pc[w] \in {"write", "join"} /\ pc'[w] \in {"write", "join"})
      BY <1>1, <2>2
    <3> QED BY <1>1, <1>3, <2>2, <2>4, <3>1, CallbackStays
  <2> QED BY <2>3, <2>4
<1> QED BY <1>4, <1>5

LEMMA AsyncProceeds ==
  ASSUME AllInv, NEW t \in Thread, Role[t] = "async", Proceed(t),
         NEW u \in Thread, FdOf[u] = FdOf[t]
  PROVE  ThreadAt(u)'
<1> DEFINE c == FdOf[t]
<1>0. c \in Ctx /\ Idle.at = "idle" /\ Continue(t) /\ pc' = pc
  BY ConstantsAssumption DEF Idle, Proceed
<1>1. AsyncAt(t) /\ TypeOK /\ ThreadAt(u)
  BY DEF AllInv, ProgramsInv, ThreadAt
<1>2. life[c] = "open" /\ call[t] # Idle /\ call[t].at # "idle"
  BY <1>0, ContinueIsOpen, OnlyContinues DEF AllInv, TableInv
<1>3. NoneLive(c) => NoneLive(c)'
  BY <1>0, <1>1, NoneLiveStays, ContinueLooksUpNothing
<1>4. RegisterRole(t) \/ RegisterHandle(t) \/ RequestAppend(t) \/ RequestWake(t)
  BY <1>0, <1>1, <1>2
     DEF AsyncAt, Continue, UnregisterEntry, UnregisterRole, ReplyAnswer, ReplyWake,
     EventDeliver, EventWake, EventUnlink, ReadCheck, ReadAgain, ReadRequest, ReadDispatch,
     ReadDone
<1>5. CASE u = t
  <2>1. CASE RegisterRole(t)
    <3>1. call'[t].at = "setHandle" /\ isServer'[c]
      BY <1>0, <1>1, <2>1, ContinueGets DEF RegisterRole, TypeOK
    <3>2. UNCHANGED <<life, handles, pending>>
      BY <2>1 DEF RegisterRole, lists
    <3> QED BY <1>0, <1>1, <1>2, <1>3, <1>5, <2>1, <3>1, <3>2 DEF ThreadAt, AsyncAt, RegisterRole
  <2>2. CASE RegisterHandle(t)
    <3>1. call'[t] = Idle
      BY <1>1, <2>2, ContinueGets
    <3>2. UNCHANGED <<life, handles, isServer, pending>>
      BY <2>2 DEF RegisterHandle, lists
    <3> QED BY <1>0, <1>1, <1>2, <1>3, <1>5, <2>2, <3>1, <3>2 DEF ThreadAt, AsyncAt, RegisterHandle
  <2>3. CASE RequestAppend(t)
    <3>1. call'[t].at = "wake"
      BY <1>1, <2>3, ContinueGets
    <3>2. UNCHANGED <<life, handles, isServer>>
      BY <2>3 DEF RequestAppend, table
    <3>3. pending'[c] = pending[c]
      <4>1. FileOf(call[t].to, "server") /\ ~FileOf(c, "server")
        BY <2>3, NoOtherRole DEF RequestAppend, AllInv, ProgramsInv, CallRoles
      <4> QED BY <1>0, <1>1, <2>3, <4>1 DEF RequestAppend, AddTail, TypeOK
    <3> QED BY <1>0, <1>1, <1>2, <1>3, <1>5, <2>3, <3>1, <3>2, <3>3
            DEF ThreadAt, AsyncAt, RequestAppend
  <2>4. CASE RequestWake(t)
    <3>1. call'[t] = Idle
      BY <1>1, <2>4, ContinueGets
    <3>2. UNCHANGED <<life, handles, isServer, pending>>
      BY <2>4 DEF RequestWake, lists, table
    <3> QED BY <1>0, <1>1, <1>2, <1>3, <1>5, <2>4, <3>1, <3>2
            DEF ThreadAt, AsyncAt, RequestWake
  <2> QED BY <1>4, <2>1, <2>2, <2>3, <2>4
<1>6. CASE u # t
  <2>1. Role[u] = "callback" /\ Undisturbed(u)
    BY <1>0, <1>1, <1>6, OneMain, OthersCalls
  <2> QED BY <1>0, <1>1, <2>1, CallbackStays
<1> QED BY <1>5, <1>6

LEMMA AsyncNeverLeaves ==
  ASSUME AllInv, NEW t \in Thread, Role[t] = "async"
  PROVE  ~AsyncLeave(t)
<1>1. PICK u \in Thread : Role[u] = "callback" /\ FdOf[u] = FdOf[t]
  BY ProgramsAssumption
<1>2. CallbackAt(u) /\ u \in Team(t) \ {t}
  BY <1>1 DEF AllInv, ProgramsInv, ThreadAt, Team
<1> QED BY <1>2 DEF AsyncLeave, CallbackAt

\* The steps of the callback thread: into read(), and to sleep in it.
LEMMA CallbackSteps ==
  ASSUME AllInv, NEW t \in Thread, Role[t] = "callback",
         ClientRead(t) \/ Proceed(t) \/ Interrupted(t),
         NEW u \in Thread, FdOf[u] = FdOf[t]
  PROVE  ThreadAt(u)'
<1> DEFINE c == FdOf[t]
<1>0. c \in Ctx /\ Idle.at = "idle"
  BY ConstantsAssumption DEF Idle
<1>1. CallbackAt(t) /\ TypeOK /\ ProgramsOK /\ ThreadAt(u)
  BY DEF AllInv, ProgramsInv, ThreadAt
<1>2. PICK m \in Thread : Role[m] = "async" /\ FdOf[m] = c
  BY ProgramsAssumption
<1>3. AsyncAt(m)
  BY <1>2 DEF AllInv, ProgramsInv, ThreadAt
<1>4. (Read(t) /\ ClientRead(t)) \/ (ReadCheck(t) /\ Proceed(t)) \/ (ReadInterrupt(t) /\ Interrupted(t))
  <2>1. ASSUME Continue(t) PROVE ReadCheck(t)
    BY <1>1, <2>1, OnlyContinues
       DEF CallbackAt, Continue, RegisterRole, RegisterHandle, UnregisterEntry,
       UnregisterRole, RequestAppend, RequestWake, ReplyAnswer, ReplyWake, EventDeliver,
       EventWake, EventUnlink, ReadAgain, ReadRequest, ReadDispatch, ReadDone
  <2> QED BY <2>1 DEF ClientRead, Proceed, Interrupted
<1>5. UNCHANGED <<life, table, txCounter, lists, fate>>
  BY <1>4 DEF Read, ReadCheck, ReadInterrupt
<1>6. Begin(t) \/ Continue(t)
  BY <1>4, ProgramsAssumption DEF Begin, Continue
<1>7. \A w \in Thread : w # t => pc'[w] = pc[w] /\ ret'[w] = ret[w]
  BY <1>1 DEF ClientRead, Step, Proceed, Interrupted, programs, ProgramsOK
<1>8. \A w \in Thread : Role[w] = "async" => pc'[w] = pc[w]
  BY <1>7
<1>9. CASE u # t
  <2>1. Undisturbed(u)
    BY <1>1, <1>6, <1>9, OthersCalls
  <2> QED BY <1>1, <1>5, <1>7, <1>8, <1>9, <2>1, QuietFrame, Stays
<1>10. CASE u = t
  <2>1. CASE Read(t) /\ ClientRead(t)
    <3>1. pc[t] = "read" /\ pc'[t] = "unregister"
      BY <1>1, <2>1 DEF ClientRead, Ready, Step, ProgramsOK
    <3>2. ~Registering(m) /\ pc[m] \in {"write", "join"}
      BY <1>1, <1>2, <2>1, <3>1 DEF ClientRead, Team, CallbackAt
    <3>3. isServer[c]
      BY <1>2, <1>3, <3>2 DEF AsyncAt, Registering
    <3>4. call'[t].at = "check" /\ call'[t].on = "pending"
      BY <1>1, <2>1, <3>3 DEF Read, Goto, TypeOK
    <3>5. CallbackAt(t)'
      BY <1>0, <1>1, <1>8, <3>1, <3>4 DEF CallbackAt
    <3> QED BY <1>10, <3>5 DEF ThreadAt
  <2>2. CASE ReadCheck(t) /\ Proceed(t)
    <3>1. pc' = pc /\ call[t].at = "check" /\ call[t].on = "pending" /\ pending[c] = <<>>
      BY <1>0, <1>1, <1>2, <1>3, <2>2 DEF Proceed, ReadCheck, CallbackAt, AsyncAt
    <3>2. call'[t].at = "asleep" /\ call'[t].on = "pending"
      BY <1>1, <2>2, <3>1, ContinueGets DEF IsEmpty
    <3>3. CallbackAt(t)'
      BY <1>0, <1>1, <3>1, <3>2 DEF CallbackAt
    <3> QED BY <1>10, <3>3 DEF ThreadAt
  <2>3. CASE ReadInterrupt(t) /\ Interrupted(t)
    <3>1. pc' = pc /\ pc[t] = "exit" /\ call'[t] = Idle
      BY <1>1, <2>3 DEF Interrupted, ReadInterrupt, Return, programs, TypeOK
    <3>2. CallbackAt(t)'
      BY <1>0, <1>1, <3>1 DEF CallbackAt
    <3> QED BY <1>10, <3>2 DEF ThreadAt
  <2> QED BY <1>4, <2>1, <2>2, <2>3
<1> QED BY <1>9, <1>10

-----------------------------------------------------------------------------
(* The end of a file.                                                      *)

LEMMA NoEventsEmpty == NoEvents(<<>>)
<1>1. Len(<<>>) = 0 /\ 1 .. 0 = {}
  BY EmptySeq
<1> QED BY <1>1 DEF NoEvents

LEMMA FileCloses ==
  ASSUME AllInv, NEW c \in Ctx, Gone(c), NEW u \in Thread, FdOf[u] = c
  PROVE  ThreadAt(u)'
<1>1. /\ pc[u] = "exit" /\ ThreadAt(u)
      /\ pc' = pc /\ \A w \in Thread : pc'[w] = pc[w]
      /\ UNCHANGED <<gen, table, txCounter, lists, call, fate>>
  BY DEF Gone, Close, programs, AllInv, ProgramsInv
<1>2. CASE Role[u] = "server"
  BY <1>1, <1>2 DEF ThreadAt, ServerAt, NoneLive
<1>3. CASE Role[u] = "sync"
  BY <1>1, <1>3 DEF ThreadAt, SyncAt, NoneLive, table, lists
<1>4. CASE Role[u] = "async"
  BY <1>1, <1>4 DEF ThreadAt, AsyncAt, NoneLive, table, lists
<1>5. CASE Role[u] = "callback"
  BY <1>1, <1>5, CallbackStays DEF Undisturbed, AllInv
<1> QED BY <1>2, <1>3, <1>4, <1>5, ProgramsAssumption

LEMMA FileReleases ==
  ASSUME AllInv, NEW c \in Ctx, Release(c), UNCHANGED programs, NEW u \in Thread, FdOf[u] = c
  PROVE  ThreadAt(u)'
<1>1. /\ ThreadAt(u) /\ TypeOK /\ pc' = pc
      /\ NoneLive(c) => NoneLive(c)'
      /\ Undisturbed(u)
  BY FileNoneLive, FileCalls DEF programs, AllInv, ProgramsInv
<1>8. CASE ReleaseWake(c)
  <2>1. Frame(u)
    BY <1>1, <1>8, QuietFrame DEF ReleaseWake
  <2>2. \A w \in Thread : pc'[w] = pc[w] /\ ret'[w] = ret[w]
    BY DEF programs
  <2> QED BY <1>1, <2>1, <2>2, Stays
<1> SUFFICES ASSUME ~ReleaseWake(c) PROVE ThreadAt(u)'
  BY <1>8
<1>2. life[c] # "open" /\ life[c] # "closed"
  BY DEF Release, ReleaseHandle, ReleaseDone, ReleasePending, ReleaseDispatched
<1>3. call[u] = Idle => call'[u] = Idle
  BY <1>1 DEF Undisturbed, Idle
<1>4. CASE Role[u] = "server"
  <2>1. pc[u] = "exit" /\ NoneLive(c)
    BY <1>1, <1>2, <1>4 DEF ThreadAt, ServerAt
  <2> QED BY <1>1, <1>4, <2>1, ServerExits
<1>5. CASE Role[u] = "sync"
  <2>1. pc[u] = "exit" /\ NoneLive(c) /\ call[u] = Idle /\ ~isServer[c] /\ NoEvents(done[c])
    BY <1>1, <1>2, <1>5 DEF ThreadAt, SyncAt
  <2>2. isServer' = isServer
    BY DEF Release, ReleaseHandle, ReleaseDone, ReleasePending, ReleaseDispatched, table
  <2>3. ASSUME NEW x \in Tx, NotifyClosed(c, x) PROVE NoEvents(done'[c])
    <3> DEFINE e == [kind |-> "nodev", tx |-> x]
    <3>1. x.caller \in Ctx /\ e \in Entry /\ e.kind = "nodev"
      BY DEF Tx, Entry
    <3>2. Deliver(x.caller, e)
      BY <2>3 DEF NotifyClosed
    <3>3. ~FileOf(c, "async")
      BY <1>5, NoOtherRole
    <3> HIDE DEF e
    <3> QED BY <1>1, <2>1, <3>1, <3>2, <3>3, DeliverFrame DEF DoneFrame
  <2>4. NoEvents(done'[c])
    <3>1. CASE ReleaseHandle(c)
      BY <2>1, <3>1 DEF ReleaseHandle, lists
    <3>2. CASE ReleaseDone(c)
      BY <1>1, <3>2, NoEventsEmpty DEF ReleaseDone, TypeOK
    <3>3. CASE ReleasePending(c)
      <4>1. pending[c] # <<>> => Head(pending[c]) \in Tx
        BY <1>1, HeadTailProperties DEF TypeOK
      <4> QED BY <2>1, <2>3, <3>3, <4>1 DEF ReleasePending
    <3>4. CASE ReleaseDispatched(c)
      <4>1. dispatched[c] # <<>> => Head(dispatched[c]) \in Tx
        BY <1>1, HeadTailProperties DEF TypeOK
      <4> QED BY <1>1, <2>1, <2>3, <3>4, <4>1, NoEventsEmpty DEF ReleaseDispatched, TypeOK
    <3> QED BY <3>1, <3>2, <3>3, <3>4 DEF Release
  <2>5. Idle.at = "idle" /\ call'[u] = Idle
    BY <1>3, <2>1 DEF Idle
  <2> QED BY <1>1, <1>5, <2>1, <2>2, <2>4, <2>5 DEF ThreadAt, SyncAt
<1>6. CASE Role[u] = "async"
  <2>1. pc[u] = "exit" /\ NoneLive(c) /\ call[u] = Idle /\ pending[c] = <<>>
    BY <1>1, <1>2, <1>6 DEF ThreadAt, AsyncAt
  <2>2. pending'[c] = <<>>
    BY <1>1, <2>1 DEF Release, ReleaseHandle, ReleaseDone, ReleasePending, ReleaseDispatched,
       lists, TypeOK
  <2>3. Idle.at = "idle" /\ call'[u] = Idle
    BY <1>3, <2>1 DEF Idle
  <2> QED BY <1>1, <1>6, <2>1, <2>2, <2>3 DEF ThreadAt, AsyncAt
<1>7. CASE Role[u] = "callback"
  BY <1>1, <1>7, CallbackStays
<1> QED BY <1>4, <1>5, <1>6, <1>7, ProgramsAssumption

-----------------------------------------------------------------------------
(* All threads, whoever makes the step.                                    *)

ThreadStep(t) == \/ Server(t) \/ Client(t) \/ Proceed(t) \/ Signal(t) \/ SignalAsleep(t)
                 \/ Kill(t) \/ Interrupted(t)

\* What a program does is up to the driver: a call, or one that goes on.
LEMMA StepsOfDriver ==
  ASSUME AllInv, NEW t \in Thread, ThreadStep(t)
  PROVE  Begin(t) \/ Continue(t) \/ UNCHANGED vars
<1>1. CASE ServerReply(t)
  <2>1. Reply(t, ret[t].id) /\ ret[t] \in Tx
    BY <1>1, ServerReplies DEF ServerReply, Ready
  <2> QED BY <2>1, ProgramsAssumption DEF Begin, Tx
<1>2. CASE ServerCallBack(t)
  <2>1. Event(t, CB_HANDLE, ret[t].id) /\ ret[t] \in Tx
    BY <1>2, ServerCallsBack DEF ServerCallBack, Ready
  <2> QED BY <2>1, ProgramsAssumption DEF Begin, Tx
<1>3. CASE ServerRegister(t) \/ ServerRead(t) \/ ServerLeave(t) \/ ServerRestart(t)
  BY <1>3, ProgramsAssumption DEF ServerRegister, ServerRead, ServerLeave, ServerRestart, Begin
<1>4. CASE Client(t)
  BY <1>4, ProgramsAssumption
     DEF Client, AsyncRegister, ClientWrite, ClientRead, SyncLeave, AsyncLeave, Begin
<1>5. CASE Proceed(t) \/ Signal(t) \/ SignalAsleep(t) \/ Kill(t) \/ Interrupted(t)
  BY <1>5 DEF Proceed, Signal, SignalAsleep, Kill, Interrupted, Begin
<1> QED BY <1>1, <1>2, <1>3, <1>4, <1>5 DEF ThreadStep, Server

\* It is seen, in its programs, by the threads of its process only.
LEMMA StepsOfTeam ==
  ASSUME AllInv, NEW t \in Thread, ThreadStep(t) \/ Start(t),
         NEW u \in Thread, FdOf[u] # FdOf[t]
  PROVE  pc'[u] = pc[u] /\ ret'[u] = ret[u]
<1>1. pc \in [Thread -> Pc] /\ u # t /\ u \notin Team(t)
  BY DEF AllInv, ProgramsOK, Team
<1>2. \A w : Step(t, w) => pc'[u] = pc[u] /\ ret'[u] = ret[u]
  BY <1>1 DEF Step
<1>3. Exit(t) => pc'[u] = pc[u] /\ ret'[u] = ret[u]
  BY <1>1 DEF Exit
<1>4. CASE Start(t)
  BY <1>1, <1>4 DEF Start, AllInv, ProgramsOK
<1>5. CASE Server(t)
  BY <1>1, <1>2, <1>3, <1>5
     DEF Server, ServerRegister, ServerRead, ServerLeave, ServerReply, ServerCallBack,
     ServerRestart
<1>6. CASE Client(t)
  BY <1>1, <1>2, <1>3, <1>6
     DEF Client, AsyncRegister, ClientWrite, ClientRead, SyncLeave, AsyncLeave
<1>7. CASE Proceed(t) \/ Interrupted(t)
  BY <1>1, <1>7 DEF Proceed, Interrupted, programs, AllInv, ProgramsOK
<1>8. CASE Signal(t) \/ SignalAsleep(t) \/ Kill(t)
  BY <1>1, <1>3, <1>8 DEF Signal, SignalAsleep, Kill
<1> QED BY <1>4, <1>5, <1>6, <1>7, <1>8 DEF ThreadStep

\* In its own process ...
LEMMA TeamStep ==
  ASSUME AllInv, ClientsLive, NEW t \in Thread, ThreadStep(t) \/ Start(t),
         NEW u \in Thread, FdOf[u] = FdOf[t]
  PROVE  ThreadAt(u)'
<1>1. CASE Role[t] = "server"
  <2>1. u = t
    BY <1>1, Alone
  <2>2. ~Client(t)
    BY <1>1 DEF Client, AsyncRegister, ClientWrite, ClientRead, SyncLeave, AsyncLeave, Ready
  <2> QED BY <1>1, <2>1, <2>2, ServerStarts, ServerRegisters, ServerReads, ServerLeaves,
             ServerReplies, ServerCallsBack, ServerInterrupted, ServerProceeds
          DEF ThreadStep, Server
<1>2. CASE Role[t] # "server"
  <2>1. ~Server(t) /\ ~Signal(t) /\ ~SignalAsleep(t)
    BY <1>2 DEF Server, ServerRegister, ServerRead, ServerLeave, ServerReply, ServerCallBack,
       ServerRestart, Signal, SignalAsleep, Ready
  <2>2. ~Kill(t)
    BY <1>2 DEF Kill, ClientsLive
  <2>3. CASE Role[t] = "sync"
    <3>1. u = t
      BY <2>3, Alone
    <3>2. ~Interrupted(t)
      <4>1. SyncAt(t)
        BY <2>3 DEF AllInv, ProgramsInv, ThreadAt
      <4> QED BY <4>1 DEF SyncAt, Interrupted, ReadInterrupt, Idle
    <3>3. ~AsyncRegister(t) /\ ~AsyncLeave(t)
      BY <2>3 DEF AsyncRegister, AsyncLeave, Ready
    <3> QED BY <2>1, <2>2, <2>3, <3>1, <3>2, <3>3, SyncStarts, SyncWrites, SyncReads, SyncLeaves,
               SyncProceeds
            DEF ThreadStep, Client
  <2>4. CASE Role[t] = "async"
    <3>1. ~Interrupted(t)
      <4>1. AsyncAt(t)
        BY <2>4 DEF AllInv, ProgramsInv, ThreadAt
      <4> QED BY <4>1 DEF AsyncAt, Interrupted, ReadInterrupt, Idle
    <3>2. ~ClientRead(t) /\ ~SyncLeave(t)
      BY <2>4 DEF ClientRead, SyncLeave, Ready
    <3> QED BY <2>1, <2>2, <2>4, <3>1, <3>2, AsyncStarts, AsyncRegisters, AsyncWrites,
               AsyncNeverLeaves, AsyncProceeds
            DEF ThreadStep, Client
  <2>5. CASE Role[t] = "callback"
    <3>1. ~Start(t) /\ (Client(t) => ClientRead(t))
      BY <2>5 DEF Start, Client, AsyncRegister, ClientWrite, SyncLeave, AsyncLeave, Ready
    <3> QED BY <2>1, <2>2, <2>5, <3>1, CallbackSteps DEF ThreadStep
  <2> QED BY <1>2, <2>3, <2>4, <2>5, ProgramsAssumption
<1> QED BY <1>1, <1>2

\* ... and in all.
LEMMA ThreadsStep ==
  ASSUME AllInv, ClientsLive, [NextAll]_allVars, NEW u \in Thread
  PROVE  ThreadAt(u)'
<1>1. ThreadAt(u) /\ TypeOK /\ RequestInv /\ TableInv /\ CallRoles
  BY DEF AllInv, ProgramsInv
<1>2. ASSUME Frame(u), \A w \in Thread : FdOf[w] = FdOf[u] => pc'[w] = pc[w] /\ ret'[w] = ret[w]
      PROVE  ThreadAt(u)'
  BY <1>1, <1>2, Stays
<1>3. ASSUME NEW t \in Thread, ThreadStep(t) \/ Start(t), FdOf[u] # FdOf[t]
      PROVE  ThreadAt(u)'
  <2>1. \A w \in Thread : FdOf[w] = FdOf[u] => pc'[w] = pc[w] /\ ret'[w] = ret[w]
    BY <1>3, StepsOfTeam
  <2>2. Frame(u)
    <3>1. CASE Start(t)
      BY <1>1, <1>3, <3>1, FileFrame, ConstantsAssumption DEF Start
    <3>2. CASE ThreadStep(t)
      BY <1>1, <1>3, <3>2, StepsOfDriver, ThreadFrame, UnchangedFrame
    <3> QED BY <1>3, <3>1, <3>2
  <2> QED BY <1>2, <2>1, <2>2
<1>4. ASSUME NEW c \in Ctx, Gone(c) \/ (Release(c) /\ UNCHANGED programs)
      PROVE  ThreadAt(u)'
  <2>1. CASE FdOf[u] = c
    BY <1>4, <2>1, FileCloses, FileReleases
  <2>2. CASE FdOf[u] # c
    <3>1. (Close(c) \/ Release(c)) /\ pc' = pc /\ ret' = ret
      BY <1>4 DEF Gone, programs
    <3> QED BY <1>1, <1>2, <2>2, <3>1, FileFrame
  <2> QED BY <2>1, <2>2
<1>5. CASE UNCHANGED allVars
  <2>1. UNCHANGED vars /\ pc' = pc /\ ret' = ret
    BY <1>5 DEF allVars, programs
  <2> QED BY <1>2, <2>1, UnchangedFrame
<1>6. ASSUME NEW t \in Thread, ThreadStep(t) \/ Start(t)
      PROVE  ThreadAt(u)'
  BY <1>3, <1>6, TeamStep
<1> QED BY <1>4, <1>5, <1>6 DEF NextAll, ThreadStep

-----------------------------------------------------------------------------
(* The table, and who is looked up in it.                                  *)

LEMMA BeginGets ==
  ASSUME TypeOK, NEW t \in Thread
  PROVE  /\ \A h : Register(t, h) => call'[t].at = "setRole"
         /\ Unregister(t) => call'[t].at = "clearEntry"
         /\ \A id : Reply(t, id) => call'[t].at = "answer"
         /\ \A h, id : Event(t, h, id) =>
               call'[t].at = "event" /\ call'[t].to = handles[h] /\ handles[h] # NoCtx
         /\ Read(t) => call'[t].at = "check"
         /\ ReadInterrupt(t) => call'[t].at = "idle"
BY DEF Register, Unregister, Reply, Event, Read, ReadInterrupt, Goto, Return, Idle, TypeOK

\* What the thread that makes a step does with the table, and on its file.
Actor(t) ==
    /\ call'[t].at = "append" => FileOf(call'[t].to, "server")
    /\ call'[t].at = "event" => FileOf(call'[t].to, "async")
    /\ ~Registering(t) /\ Registering(t)' =>
          /\ \A u \in Thread \ {t} : FdOf[u] = FdOf[t] => ~Registering(u)
          /\ call'[t].at = "setRole" => ~isServer[FdOf[t]]

LEMMA ActorStep ==
  ASSUME AllInv, NEW t \in Thread, ThreadStep(t)
  PROVE  Actor(t)
<1>0. /\ TypeOK /\ TableRoles /\ CallRoles /\ ThreadAt(t)
      /\ MY_HANDLE \in Handle /\ CB_HANDLE \in Handle
  BY ProgramsAssumption DEF AllInv, ProgramsInv, UserHandle, Handle
<1>1. ASSUME call'[t].at \notin {"append", "event", "setRole", "clearEntry"},
             call'[t].at \in {"setHandle", "clearRole"} => Registering(t)
      PROVE  Actor(t)
  BY <1>1 DEF Actor, Registering
<1>2. CASE UNCHANGED vars
  BY <1>0, <1>2 DEF Actor, vars, CallRoles, Registering
<1>3. CASE Continue(t)
  <2>1. call'[t].at \in {"setHandle", "clearRole"} => Registering(t)
    <3>1. Idle.at = "idle"
      BY DEF Idle
    <3> QED BY <1>0, <1>3, <3>1, ContinueGets
            DEF Continue, RegisterRole, UnregisterEntry, Registering, ReadCheck
  <2> QED BY <1>0, <1>1, <1>3, <2>1, ContinueLooksUpNothing
<1>4. CASE Read(t) \/ ReadInterrupt(t) \/ ServerReply(t)
  BY <1>0, <1>1, <1>4, BeginGets, ServerReplies DEF ServerReply, Ready
<1>5. CASE ServerCallBack(t)
  <2>1. Event(t, CB_HANDLE, ret[t].id)
    BY <1>5, ServerCallsBack DEF ServerCallBack, Ready
  <2>2. call'[t].at = "event" /\ FileOf(call'[t].to, "async")
    BY <1>0, <2>1, BeginGets DEF TableRoles
  <2> QED BY <2>2 DEF Actor, Registering
<1>6. CASE Request(t, MY_HANDLE)
  <2>1. call'[t].at \in {"append", "idle"}
    BY <1>0, <1>6, Writes DEF Idle
  <2>2. call'[t].at = "append" => FileOf(call'[t].to, "server")
    <3>1. Idle.at # "append"
      BY DEF Idle
    <3> QED BY <1>0, <1>6, <3>1, Writes DEF TableRoles
  <2> QED BY <2>1, <2>2 DEF Actor, Registering
<1>7. CASE ServerRegister(t) \/ ServerLeave(t)
  <2>1. UNCHANGED vars \/ Register(t, MY_HANDLE) \/ Unregister(t)
    BY <1>7 DEF ServerRegister, ServerLeave
  <2>2. \A u \in Thread \ {t} : FdOf[u] # FdOf[t]
    BY <1>7, Alone DEF ServerRegister, ServerLeave, Ready
  <2>3. ServerRegister(t) => ~isServer[FdOf[t]]
    BY <1>0 DEF ServerRegister, Ready, ThreadAt, ServerAt
  <2>4. ServerLeave(t) => call'[t].at # "setRole"
    BY <1>0, BeginGets DEF ServerLeave
  <2>5. UNCHANGED vars \/ call'[t].at \in {"setRole", "clearEntry"}
    BY <1>0, <2>1, BeginGets
  <2> QED BY <1>2, <1>7, <2>2, <2>3, <2>4, <2>5 DEF Actor
<1>8. CASE AsyncRegister(t)
  <2>1. UNCHANGED vars \/ call'[t].at = "setRole"
    BY <1>0, <1>8, BeginGets DEF AsyncRegister
  <2>2. ~isServer[FdOf[t]] /\ Role[t] = "async"
    BY <1>0, <1>8 DEF AsyncRegister, Ready, ThreadAt, AsyncAt
  <2>3. ASSUME NEW u \in Thread \ {t}, FdOf[u] = FdOf[t] PROVE ~Registering(u)
    <3>1. Role[u] = "callback"
      BY <2>2, <2>3, OneMain
    <3>2. CallbackAt(u)
      BY <3>1 DEF AllInv, ProgramsInv, ThreadAt
    <3> QED BY <3>2 DEF CallbackAt, Registering, Idle
  <2> QED BY <1>2, <2>1, <2>2, <2>3 DEF Actor
<1>9. CASE AsyncLeave(t)
  BY <1>9, AsyncNeverLeaves DEF AsyncLeave, Ready
<1>10. \/ UNCHANGED vars \/ Continue(t) \/ Read(t) \/ ReadInterrupt(t) \/ ServerReply(t)
       \/ ServerCallBack(t) \/ Request(t, MY_HANDLE) \/ ServerRegister(t) \/ ServerLeave(t)
       \/ AsyncRegister(t) \/ AsyncLeave(t)
  BY DEF ThreadStep, Server, Client, ServerRead, ServerRestart, ClientWrite, ClientRead,
     SyncLeave, Proceed, Signal, SignalAsleep, Kill, Interrupted
<1> QED BY <1>2, <1>3, <1>4, <1>5, <1>6, <1>7, <1>8, <1>9, <1>10

LEMMA CallRolesStep ==
  ASSUME AllInv, [NextAll]_allVars
  PROVE  CallRoles' /\ RegistersOnce
<1>0. TypeOK /\ CallRoles
  BY DEF AllInv, ProgramsInv
<1>1. ASSUME NEW u \in Thread, Undisturbed(u)
      PROVE  /\ call'[u].at = "append" => FileOf(call'[u].to, "server")
             /\ call'[u].at = "event" => FileOf(call'[u].to, "async")
             /\ Registering(u)' => Registering(u)
  <2>1. call'[u] = call[u] \/ call'[u].at = "check"
    BY <1>1 DEF Undisturbed
  <2> QED BY <1>0, <2>1 DEF CallRoles, Registering
<1>2. ASSUME NEW t \in Thread, ThreadStep(t) PROVE CallRoles' /\ RegistersOnce
  <2>1. \A u \in Thread : u # t => Undisturbed(u)
    <3>1. UNCHANGED vars => \A u : Undisturbed(u)
      BY DEF vars, Undisturbed
    <3> QED BY <1>0, <1>2, <3>1, StepsOfDriver, OthersCalls
  <2>2. Actor(t)
    BY <1>2, ActorStep
  <2>3. CallRoles'
    BY <1>1, <2>1, <2>2 DEF CallRoles, Actor
  <2>4. RegistersOnce
    BY <1>1, <2>1, <2>2 DEF RegistersOnce, Actor
  <2> QED BY <2>3, <2>4
<1>3. ASSUME \A u \in Thread : Undisturbed(u) PROVE CallRoles' /\ RegistersOnce
  BY <1>1, <1>3 DEF CallRoles, RegistersOnce
<1>4. ASSUME NEW c \in Ctx, Open(c) \/ Close(c) \/ Release(c) PROVE CallRoles' /\ RegistersOnce
  BY <1>3, <1>4, FileCalls
<1>5. ASSUME NEW t \in Thread, Start(t) PROVE CallRoles' /\ RegistersOnce
  BY <1>4, <1>5, ConstantsAssumption DEF Start
<1>6. CASE UNCHANGED allVars
  <2>1. \A u \in Thread : Undisturbed(u)
    BY <1>6 DEF allVars, vars, Undisturbed
  <2> QED BY <1>3, <2>1
<1> QED BY <1>2, <1>4, <1>5, <1>6 DEF NextAll, ThreadStep, Gone

\* Steps that enter nothing in the table.
HandlesShrink == \A h \in Handle : handles'[h] = handles[h] \/ handles'[h] = NoCtx

LEMMA ContinueShrinks ==
  ASSUME TypeOK, NEW t \in Thread, Continue(t)
  PROVE  HandlesShrink
BY DEF HandlesShrink, TypeOK, Continue, RegisterRole, RegisterHandle, UnregisterEntry,
   UnregisterRole, RequestAppend, RequestWake, ReplyAnswer, ReplyWake, EventDeliver,
   EventWake, EventUnlink, ReadCheck, ReadAgain, ReadRequest, ReadDispatch, ReadDone,
   table

LEMMA TableRolesStep ==
  ASSUME AllInv, [NextAll]_allVars
  PROVE  TableRoles'
<1>0. TypeOK /\ TableRoles /\ {MY_HANDLE, CB_HANDLE} \subseteq Handle /\ MY_HANDLE # CB_HANDLE
  BY ProgramsAssumption DEF AllInv, ProgramsInv, UserHandle, Handle, MY_HANDLE, CB_HANDLE
<1>1. ASSUME HandlesShrink PROVE TableRoles'
  BY <1>0, <1>1 DEF HandlesShrink, TableRoles
<1>2. handles' = handles => HandlesShrink
  BY DEF HandlesShrink
<1>3. ASSUME NEW t \in Thread, ServerRegister(t) PROVE TableRoles'
  <2>1. CASE Register(t, MY_HANDLE)
    <3>1. FileOf(FdOf[t], "server")
      BY <1>3 DEF ServerRegister, Ready, FileOf
    <3>2. handles'[MY_HANDLE] = FdOf[t] /\ handles'[CB_HANDLE] = handles[CB_HANDLE]
      BY <1>0, <2>1 DEF Register, TypeOK
    <3> QED BY <1>0, <3>1, <3>2 DEF TableRoles
  <2>2. CASE UNCHANGED vars
    BY <1>1, <1>2, <2>2 DEF vars, table
  <2> QED BY <1>3, <2>1, <2>2 DEF ServerRegister
<1>4. ASSUME NEW t \in Thread, AsyncRegister(t) PROVE TableRoles'
  <2>1. CASE Register(t, CB_HANDLE)
    <3>1. FileOf(FdOf[t], "async")
      BY <1>4 DEF AsyncRegister, Ready, FileOf
    <3>2. handles'[CB_HANDLE] = FdOf[t] /\ handles'[MY_HANDLE] = handles[MY_HANDLE]
      BY <1>0, <2>1 DEF Register, TypeOK
    <3> QED BY <1>0, <3>1, <3>2 DEF TableRoles
  <2>2. CASE UNCHANGED vars
    BY <1>1, <1>2, <2>2 DEF vars, table
  <2> QED BY <1>4, <2>1, <2>2 DEF AsyncRegister
<1>5. ASSUME NEW t \in Thread,
             \/ ServerRead(t) \/ ServerRestart(t) \/ ServerLeave(t) \/ ServerReply(t)
             \/ ServerCallBack(t) \/ ClientWrite(t) \/ ClientRead(t) \/ SyncLeave(t)
             \/ AsyncLeave(t) \/ Signal(t) \/ SignalAsleep(t) \/ Kill(t) \/ Interrupted(t)
      PROVE  handles' = handles
  <2>1. \A h, id : (\/ Read(t) \/ Unregister(t) \/ Reply(t, id) \/ Event(t, h, id)
                    \/ Request(t, h) \/ ReadInterrupt(t) \/ UNCHANGED vars)
                       => handles' = handles
    BY DEF Read, Unregister, Reply, Event, Request, ReadInterrupt, vars, table
  <2> QED BY <1>5, <2>1 DEF ServerRead, ServerRestart, ServerLeave, ServerReply, ServerCallBack,
             ClientWrite, ClientRead, SyncLeave, AsyncLeave, Signal, SignalAsleep, Kill, Interrupted
<1>6. ASSUME NEW t \in Thread, Proceed(t) PROVE HandlesShrink
  BY <1>0, <1>6, ContinueShrinks DEF Proceed
<1>7. ASSUME NEW c \in Ctx, Open(c) \/ Close(c) \/ Release(c) PROVE HandlesShrink
  BY <1>0, <1>7 DEF Open, Close, Release, ReleaseHandle, ReleaseDone, ReleasePending,
     ReleaseDispatched, ReleaseWake, table, HandlesShrink, TypeOK
<1>8. ASSUME NEW t \in Thread, Start(t) PROVE HandlesShrink
  BY <1>7, <1>8, ConstantsAssumption DEF Start
<1>9. UNCHANGED allVars => handles' = handles
  BY DEF allVars, vars, table
<1>10. ASSUME NEW t \in Thread, Server(t) \/ Client(t) PROVE TableRoles'
  BY <1>1, <1>2, <1>3, <1>4, <1>5, <1>10 DEF Server, Client
<1> QED BY <1>1, <1>2, <1>5, <1>6, <1>7, <1>8, <1>9, <1>10 DEF NextAll, Gone

-----------------------------------------------------------------------------
(* Files are closed after their requests have been answered.               *)

LEMMA TravellingIsLive ==
  ASSUME TypeOK, HeldOnce, NEW x \in Travelling
  PROVE  x \in Tx /\ fate[x] = "live"
<1>1. CASE \E s \in Ctx : x \in Elements(pending[s]) \cup Elements(dispatched[s])
  <2>1. PICK s \in Ctx : x \in Elements(pending[s]) \/ x \in Elements(dispatched[s])
    BY <1>1
  <2>2. pending[s] \in Seq(Tx) /\ dispatched[s] \in Seq(Tx)
    BY DEF TypeOK
  <2>3. x \in Tx
    <3>1. \A l \in Seq(Tx) : Elements(l) \subseteq Tx
      BY ElementOfSeq DEF Elements
    <3> QED BY <2>1, <2>2, <3>1
  <2> QED BY <2>1, <2>3, HasKinds, PlaceKinds, HeldIsLive
<1>2. CASE \E t \in Thread : x \in InHand(t)
  <2>1. PICK t \in Thread : call[t].at \in HandKind /\ call[t].tx = x
    BY <1>2 DEF InHand, HandKind
  <2>2. x \in Tx
    BY <2>1, CallLocals DEF HandKind, TypeOK
  <2>3. Has(<<call[t].at, t>>, x) /\ <<call[t].at, t>> \in Place
    BY <2>1, HasKinds, PlaceKinds DEF Carries
  <2> QED BY <2>2, <2>3, HeldIsLive
<1> QED BY <1>1, <1>2 DEF Travelling

\* A process that has ended, client or server, has no live request.
LEMMA GoneHasNone ==
  ASSUME AllInv, NEW c \in Ctx, Gone(c)
  PROVE  NoneLive(c)
<1>1. life[c] = "open" /\ \A t \in Thread : FdOf[t] = c => pc[t] = "exit"
  BY DEF Gone, Close
<1>2. PICK t \in Thread : FdOf[t] = c /\ Role[t] # "callback"
  <2>1. PICK u \in Thread : FdOf[u] = c
    BY <1>1 DEF AllInv, ProgramsInv, OthersClosed
  <2> QED BY <2>1, ProgramsAssumption
<1>3. ThreadAt(t) /\ pc[t] = "exit"
  BY <1>1, <1>2 DEF AllInv, ProgramsInv
<1> QED BY <1>2, <1>3, ProgramsAssumption DEF ThreadAt, ServerAt, SyncAt, AsyncAt

LEMMA OpenFiles ==
  ASSUME AllInv, [NextAll]_allVars
  PROVE  OthersClosed' /\ ClosesWhenAnswered
<1>0. TypeOK /\ RequestInv /\ OthersClosed
  BY DEF AllInv, ProgramsInv
<1>1. ASSUME life' = life PROVE OthersClosed' /\ ClosesWhenAnswered
  BY <1>0, <1>1 DEF OthersClosed, ClosesWhenAnswered
<1>2. ASSUME NEW t \in Thread, ThreadStep(t) PROVE life' = life
  <2>1. Begin(t) \/ Continue(t) \/ UNCHANGED vars
    BY <1>2, StepsOfDriver
  <2> QED BY <2>1 DEF vars, Begin, Register, Unregister, Request, Reply, Event, Read,
             ReadInterrupt, Continue, RegisterRole, RegisterHandle, UnregisterEntry,
             UnregisterRole, RequestAppend, RequestWake, ReplyAnswer, ReplyWake,
             EventDeliver, EventWake, EventUnlink, ReadCheck, ReadAgain, ReadRequest,
             ReadDispatch, ReadDone
<1>3. ASSUME NEW t \in Thread, Start(t) PROVE OthersClosed' /\ ClosesWhenAnswered
  <2>1. /\ life[FdOf[t]] = "closed" /\ FdOf[t] \in Ctx
        /\ life' = [life EXCEPT ![FdOf[t]] = "open"]
    BY <1>3, ConstantsAssumption DEF Start, Open
  <2> QED BY <1>0, <2>1 DEF OthersClosed, ClosesWhenAnswered, TypeOK
<1>4. ASSUME NEW c \in Ctx, Gone(c) PROVE OthersClosed' /\ ClosesWhenAnswered
  <2>1. life[c] = "open" /\ life' = [life EXCEPT ![c] = "unregister"]
    BY <1>4 DEF Gone, Close
  <2>2. Outstanding(c) = {}
    BY <1>0, <1>4, GoneHasNone, TravellingIsLive DEF Outstanding, NoneLive, RequestInv
  <2> QED BY <1>0, <2>1, <2>2 DEF OthersClosed, ClosesWhenAnswered, TypeOK
<1>5. ASSUME NEW c \in Ctx, Release(c) PROVE OthersClosed' /\ ClosesWhenAnswered
  <2>1. CASE ReleaseWake(c)
    BY <1>1, <2>1 DEF ReleaseWake
  <2>2. CASE ~ReleaseWake(c)
    <3>1. /\ life[c] # "closed" /\ life[c] # "open"
          /\ \A d \in Ctx : d # c => life'[d] = life[d]
      BY <1>0, <1>5, <2>2 DEF Release, ReleaseHandle, ReleaseDone, ReleasePending,
         ReleaseDispatched, TypeOK
    <3> QED BY <1>0, <3>1 DEF OthersClosed, ClosesWhenAnswered
  <2> QED BY <2>1, <2>2
<1>6. UNCHANGED allVars => life' = life
  BY DEF allVars, vars
<1> QED BY <1>1, <1>2, <1>3, <1>4, <1>5, <1>6 DEF NextAll, ThreadStep

-----------------------------------------------------------------------------
(* The programs are what the driver takes for granted.                     *)

\* Every step is one of the driver.
LEMMA NextOfDriver ==
  ASSUME AllInv, [NextAll]_allVars
  PROVE  [Next]_vars
<1>1. ASSUME NEW t \in Thread, ThreadStep(t) PROVE [Next]_vars
  BY <1>1, StepsOfDriver DEF Next
<1>2. ASSUME NEW t \in Thread, Start(t) PROVE [Next]_vars
  BY <1>2, ConstantsAssumption DEF Next, Start
<1>3. ASSUME NEW c \in Ctx, Gone(c) \/ (Release(c) /\ UNCHANGED programs) PROVE [Next]_vars
  BY <1>3 DEF Next, Gone
<1>4. UNCHANGED allVars => UNCHANGED vars
  BY DEF allVars
<1> QED BY <1>1, <1>2, <1>3, <1>4 DEF NextAll, ThreadStep

LEMMA EchoStep ==
  ASSUME AllInv, [NextAll]_allVars
  PROVE  EchoesItsRequest' /\ echo' \in [Tx -> Tx \cup {Nothing}]
<1>0. EchoesItsRequest /\ echo \in [Tx -> Tx \cup {Nothing}]
  BY DEF AllInv, ProgramsInv, ProgramsOK
<1>1. ASSUME NEW t \in Thread, ServerReply(t)
      PROVE  EchoesItsRequest' /\ echo' \in [Tx -> Tx \cup {Nothing}]
  <2>1. ret[t] \in Tx /\ echo' = [echo EXCEPT ![ret[t]] = ret[t]]
    BY <1>1, ServerReplies DEF ServerReply, Ready
  <2> QED BY <1>0, <2>1 DEF EchoesItsRequest
<1>2. \A t : /\ Step(t, "loop") \/ Step(t, "answer") \/ Step(t, "read") \/ Step(t, "join")
                  \/ Step(t, "unregister") => echo' = echo
             /\ Exit(t) => echo' = echo
  BY DEF Step, Exit
<1>3. ASSUME NEW t \in Thread, Server(t) \/ Client(t), ~ServerReply(t) PROVE echo' = echo
  <2>1. CASE Server(t)
    BY <1>2, <1>3, <2>1 DEF Server, ServerRegister, ServerRead, ServerLeave, ServerCallBack,
       ServerRestart
  <2>2. CASE Client(t)
    BY <1>2, <2>2
       DEF Client, AsyncRegister, ClientWrite, ClientRead, SyncLeave, AsyncLeave, Step
  <2> QED BY <1>3, <2>1, <2>2
<1>4. ASSUME NEW t \in Thread, \/ Start(t) \/ Proceed(t) \/ Signal(t) \/ SignalAsleep(t)
                               \/ Kill(t) \/ Interrupted(t)
      PROVE  echo' = echo
  BY <1>2, <1>4 DEF Start, Proceed, Signal, SignalAsleep, Kill, Interrupted, programs
<1>5. ASSUME NEW c \in Ctx, Gone(c) \/ (Release(c) /\ UNCHANGED programs) PROVE echo' = echo
  BY <1>5 DEF Gone, programs
<1>6. UNCHANGED allVars => echo' = echo
  BY DEF allVars, programs
<1>7. echo' = echo => EchoesItsRequest' /\ echo' \in [Tx -> Tx \cup {Nothing}]
  BY <1>0 DEF EchoesItsRequest
<1> QED BY <1>1, <1>3, <1>4, <1>5, <1>6, <1>7 DEF NextAll

\* Types of the programs' own variables.
LEMMA ProgramsOKStep ==
  ASSUME AllInv, [NextAll]_allVars
  PROVE  ProgramsOK'
<1>0. ProgramsOK /\ TypeOK
  BY DEF AllInv
<1> DEFINE Ok == /\ pc' \in [Thread -> Pc]
                 /\ ret' \in [Thread -> Tx \cup Entry \cup {Nothing}]
                 /\ running' \in [Thread -> BOOLEAN]
<1>1. ASSUME NEW t \in Thread
      PROVE  /\ Exit(t) => Ok
             /\ \A w \in Pc : Step(t, w) => Ok
  BY <1>0, <1>1 DEF Exit, Step, ProgramsOK, Pc
<1>2. ASSUME NEW t \in Thread, Start(t) PROVE Ok
  BY <1>0, <1>2 DEF Start, ProgramsOK, Pc
<1>3. ASSUME NEW t \in Thread, Server(t) PROVE Ok
  <2>1. CASE ServerReply(t)
    BY <1>0, <2>1 DEF ServerReply, ProgramsOK, Pc
  <2>2. CASE ~ServerReply(t)
    <3>1. Exit(t) \/ Step(t, "loop") \/ Step(t, "answer")
      BY <1>3, <2>2 DEF Server, ServerRegister, ServerRead, ServerLeave, ServerCallBack,
         ServerRestart
    <3> QED BY <1>1, <3>1 DEF Pc
  <2> QED BY <2>1, <2>2
<1>4. ASSUME NEW t \in Thread, Client(t) PROVE Ok
  <2>1. CASE AsyncRegister(t)
    <3>1. Exit(t) \/ /\ pc' = [u \in Thread |-> IF u = t THEN "write"
                                               ELSE IF u \in Team(t) THEN "read" ELSE pc[u]]
                     /\ UNCHANGED <<ret, running, echo>>
      BY <2>1 DEF AsyncRegister
    <3> QED BY <1>0, <1>1, <3>1 DEF ProgramsOK, Pc
  <2>2. CASE ~AsyncRegister(t)
    <3>1. Exit(t) \/ Step(t, "read") \/ Step(t, "join") \/ Step(t, "unregister")
      BY <1>4, <2>2 DEF Client, ClientWrite, ClientRead, SyncLeave, AsyncLeave
    <3> QED BY <1>1, <3>1 DEF Pc
  <2> QED BY <2>1, <2>2
<1>5. ASSUME NEW t \in Thread, Proceed(t) PROVE Ok
  <2>1. Result(t) \in Tx \cup Entry \cup {Nothing}
    <3>1. CASE call[t].at = "dispatch"
      BY <1>0, <3>1, CallLocals DEF Result, TypeOK
    <3>2. CASE call[t].at # "dispatch" /\ done[FdOf[t]] # <<>>
      <4>1. Head(done[FdOf[t]]) \in Entry
        BY <1>0, <3>2, HeadTailProperties, ConstantsAssumption DEF TypeOK
      <4> QED BY <1>0, <3>2, <4>1 DEF Result, ProgramsOK
    <3>3. CASE call[t].at # "dispatch" /\ done[FdOf[t]] = <<>>
      BY <1>0, <3>3 DEF Result, ProgramsOK
    <3> QED BY <3>1, <3>2, <3>3
  <2> QED BY <1>0, <1>5, <2>1 DEF Proceed, ProgramsOK
<1>6. ASSUME NEW t \in Thread, Signal(t) \/ SignalAsleep(t) \/ Kill(t) \/ Interrupted(t) PROVE Ok
  BY <1>0, <1>1, <1>6 DEF Signal, SignalAsleep, Kill, Interrupted, programs, ProgramsOK, Pc
<1>7. ASSUME NEW c \in Ctx, Gone(c) \/ (Release(c) /\ UNCHANGED programs) PROVE Ok
  BY <1>0, <1>7 DEF Gone, programs, ProgramsOK
<1>8. ASSUME UNCHANGED allVars PROVE Ok
  BY <1>0, <1>8 DEF allVars, programs, ProgramsOK
<1>9. Ok
  BY <1>2, <1>3, <1>4, <1>5, <1>6, <1>7, <1>8 DEF NextAll
<1> QED BY <1>9, EchoStep DEF ProgramsOK

LEMMA AllInvInit ==
  ASSUME InitAll
  PROVE  AllInv
<1>1. Init /\ /\ pc = [t \in Thread |-> "start"] /\ ret = [t \in Thread |-> Nothing]
              /\ running = [t \in Thread |-> TRUE] /\ echo = [x \in Tx |-> Nothing]
  BY DEF InitAll
<1>2. TypeOK /\ Opened
  <2>1. \A S : <<>> \in Seq(S)
    BY EmptySeq
  <2> QED BY <1>1, <2>1, ConstantsAssumption
          DEF Init, TypeOK, Opened, Life, Handle, Call, Fate
<1>3. RequestInv /\ TableInv /\ OrderInv
  BY <1>1, RequestInvInit, TableInvInit, OrderInvInit
<1>4. ProgramsOK
  BY <1>1 DEF ProgramsOK, Pc
<1>5. TableRoles /\ CallRoles /\ OthersClosed /\ EchoesItsRequest
  <2>1. {MY_HANDLE, CB_HANDLE} \subseteq Handle
    BY ProgramsAssumption DEF UserHandle, Handle
  <2> QED BY <1>1, <2>1 DEF Init, TableRoles, CallRoles, OthersClosed, EchoesItsRequest, Idle
<1>6. ASSUME NEW t \in Thread PROVE ThreadAt(t)
  <2>1. /\ FdOf[t] \in Ctx /\ pc[t] = "start" /\ call[t] = Idle /\ Idle.at = "idle"
        /\ life[FdOf[t]] = "closed" /\ ~isServer[FdOf[t]]
        /\ pending[FdOf[t]] = <<>> /\ dispatched[FdOf[t]] = <<>> /\ done[FdOf[t]] = <<>>
    BY <1>1, ConstantsAssumption DEF Init, Idle
  <2>2. NoneLive(FdOf[t]) /\ NoEvents(done[FdOf[t]])
    BY <1>1, <2>1, NoEventsEmpty DEF Init, NoneLive
  <2> QED BY <2>1, <2>2 DEF ThreadAt, ServerAt, ServerHas, SyncAt, AsyncAt, CallbackAt
<1> QED BY <1>2, <1>3, <1>4, <1>5, <1>6 DEF AllInv, ProgramsInv

LEMMA AllInvStep ==
  ASSUME AllInv, ClientsLive, [NextAll /\ LookupsLandFirst]_allVars
  PROVE  AllInv' /\ [Next /\ Orderly]_vars /\ ClosesWhenAnswered /\ RegistersOnce
<1>1. [NextAll]_allVars /\ [Next]_vars
  BY NextOfDriver
<1>2. CallRoles' /\ RegistersOnce /\ TableRoles'
  BY <1>1, CallRolesStep, TableRolesStep
<1>3. OthersClosed' /\ ClosesWhenAnswered
  BY <1>1, OpenFiles
<1>4. LookupsLandFirst
  <2>1. CASE UNCHANGED allVars
    BY <2>1 DEF allVars, vars, LookupsLandFirst
  <2> QED BY <2>1
<1>5. TypeOK' /\ Opened'
  BY <1>1, TypeStep, OpenedStep DEF AllInv
<1>6. RequestInv' /\ TableInv'
  BY <1>1, <1>2, RequestInvStep, TableInvStep DEF AllInv
<1>7. OrderInv'
  BY <1>1, <1>3, <1>4, OrderInvStep, NamedAreOpen DEF AllInv
<1>8. ProgramsOK' /\ EchoesItsRequest'
  BY <1>1, ProgramsOKStep, EchoStep
<1>9. \A t \in Thread : ThreadAt(t)'
  BY <1>1, ThreadsStep
<1>10. ProgramsInv'
  BY <1>2, <1>3, <1>8, <1>9 DEF ProgramsInv
<1> QED BY <1>1, <1>2, <1>3, <1>4, <1>5, <1>6, <1>7, <1>8, <1>10 DEF AllInv, Orderly

LEMMA AllInvariant ==
  ASSUME ClientsLive
  PROVE  SpecAll => []AllInv
<1>1. InitAll => AllInv
  BY AllInvInit
<1>2. AllInv /\ [NextAll /\ LookupsLandFirst]_allVars => AllInv'
  BY AllInvStep
<1> QED BY <1>1, <1>2, PTL DEF SpecAll

\* dwq_server2, killed, signalled or ended by itself, and dwq_client2, when it
\* is not killed, close no file whose requests are still on their way, and
\* register none twice or by two threads at once: what the driver relies on
\* and does not enforce.
THEOREM ProgramsAreOrderlyHolds ==
  ASSUME ClientsLive
  PROVE  SpecAll => ProgramsAreOrderly
<1>1. AllInv /\ [NextAll /\ LookupsLandFirst]_allVars
        => [ClosesWhenAnswered /\ RegistersOnce]_allVars
  BY AllInvStep
<1> QED BY <1>1, AllInvariant, PTL DEF SpecAll, ProgramsAreOrderly

\* So all that holds of the driver under programs that behave (OrderlySpec:
\* the table names open files only, answers reach their caller, no request is
\* lost) holds under dwq_server2 and dwq_client2.
THEOREM ProgramsUseTheDriverWell ==
  ASSUME ClientsLive
  PROVE  SpecAll => OrderlySpec
<1>1. InitAll => Init
  BY DEF InitAll
<1>2. AllInv /\ [NextAll /\ LookupsLandFirst]_allVars => [Next /\ Orderly]_vars
  BY AllInvStep
<1> QED BY <1>1, <1>2, AllInvariant, PTL DEF SpecAll, OrderlySpec

\* write(REPLY) finds its request by tx_id alone, and the first tx_id of every
\* client is 1; yet a client reads the echo of what it wrote itself, as the
\* server answers each request before it reads the next.
THEOREM EchoesItsRequestHolds ==
  ASSUME ClientsLive
  PROVE  SpecAll => []EchoesItsRequest
<1>1. AllInv => EchoesItsRequest
  BY DEF AllInv, ProgramsInv
<1> QED BY <1>1, AllInvariant, PTL
=============================================================================
