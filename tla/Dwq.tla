-------------------------------- MODULE Dwq --------------------------------
(***************************************************************************)
(* The request/reply and callback core of the character device             *)
(* /dev/dwq (src/delay_work_queue/delay_work_queue.c): the table of        *)
(* handles, the context of every open file, and the path of a transaction  *)
(* through write(), read(), ioctl(REGISTER / UNREGISTER) and release().    *)
(*                                                                         *)
(* One action is what a thread does under one lock, or between two: the    *)
(* places where the code unlocks, sleeps or wakes are the places where     *)
(* other threads run.  call[t] is the system call thread t is inside.      *)
(*                                                                         *)
(* Left to other modules: handle 0 and its worker (WorkQueue), and the     *)
(* subscriber lists (Listener).  A context is an address: after kfree() a  *)
(* later open() may get the same one, which is what gen[c], a ghost that   *)
(* counts the files an address has stood for, tells apart.                 *)
(***************************************************************************)
EXTENDS Naturals, Sequences, FiniteSets

CONSTANTS
    Ctx,        \* addresses of struct dwq_fd_ctx
    NoCtx,      \* the NULL pointer
    Thread,     \* threads of the user programs
    FdOf,       \* FdOf[t]: the file descriptor thread t calls on
    May,        \* May[t]: the calls the program of thread t makes
    NrHandles,  \* DWQ_HANDLE_MAX; handles are 0 .. NrHandles - 1
    MaxTx,      \* bound: requests one file may write
    MaxGen,     \* bound: times one address is handed out by open()
    MaxDone     \* bound: a callback is sent only to a shorter done_list

ASSUME ConstantsAssumption ==
    /\ NoCtx \notin Ctx
    /\ FdOf \in [Thread -> Ctx]
    /\ May \in [Thread -> SUBSET {"register", "request", "reply", "event", "read"}]
    /\ NrHandles \in Nat \ {0}
    /\ MaxTx \in Nat /\ MaxGen \in Nat /\ MaxDone \in Nat

VARIABLES
    life,         \* life[c]: closed, open, or a phase of dwq_release
    gen,          \* ghost: which file the address stands for
    handles,      \* handles[h]: server_ctx of the table entry
    isServer,     \* is_server
    serverHandle, \* server_handle
    txCounter,    \* tx_id_counter
    pending,      \* pending_list: requests no read() has taken
    dispatched,   \* dispatched_list: requests taken and not answered
    done,         \* done_list: answers and events for the file's reader
    waking,       \* waking[c]: the request the release of c has just answered,
                  \* and whose caller it has still to wake
    call,         \* the system call each thread is in, with its locals
    fate          \* ghost: what has become of each request

table == <<handles, isServer, serverHandle>>
lists == <<pending, dispatched, done>>
vars  == <<life, gen, table, txCounter, lists, waking, call, fate>>

Handle     == 0 .. NrHandles - 1
UserHandle == 1 .. NrHandles - 1    \* REGISTER refuses 0 and h >= NR_HANDLES
TxId       == 1 .. MaxTx

\* struct dwq_transaction: the driver matches on msg.tx_id and answers caller;
\* gen is a ghost that makes the record the identity of one request.
Tx == [caller : Ctx, gen : 1 .. MaxGen, id : TxId]

\* What done_list holds: the answer to a request (by write(REPLY), or the
\* ENODEV of a server's release), or a callback event.
Entry == [kind : {"reply", "nodev"}, tx : Tx]
            \cup [kind : {"event"}, id : TxId]

Phase == {"unregister", "freeDone", "drainPending", "drainDispatched"}
Life  == {"closed", "open"} \cup Phase
Fate  == {"none", "refused", "live", "delivered", "calledBack",
          "abandoned", "lost"}

Idle == [at |-> "idle"]
Call ==
    {Idle}
    \* ioctl(REGISTER): after mutex_unlock, before each of the two stores
    \cup [at : {"setRole", "setHandle"}, h : Handle]
    \* ioctl(UNREGISTER): h is read, the table is not cleared; then is_server
    \cup [at : {"clearEntry"}, h : Handle] \cup [at : {"clearRole"}]
    \* write(): a request looked up its server, an answer left the
    \* dispatched_list, an event looked up its target / has been delivered
    \cup [at : {"append"}, tx : Tx, to : Ctx]
    \cup [at : {"answer"}, tx : Tx]
    \cup [at : {"event"}, id : TxId, to : Ctx]
    \cup [at : {"unlink"}, id : TxId]
    \* ... and, after the append and the unlock, the wake-up: of srv, through
    \* tx->caller, of the event's target
    \cup [at : {"wake"}, to : Ctx]
    \cup [at : {"wakeCaller"}, tx : Tx]
    \cup [at : {"wakeTarget"}, id : TxId, to : Ctx]
    \* read(): in wait_event_interruptible (about to test, or asleep), past
    \* it, or between the two lists of a server
    \cup [at : {"check", "asleep", "pop"}, on : {"pending", "done"}]
    \cup [at : {"dispatch"}, tx : Tx]

TypeOK ==
    /\ life \in [Ctx -> Life]
    /\ gen \in [Ctx -> 0 .. MaxGen]
    /\ handles \in [Handle -> Ctx \cup {NoCtx}]
    /\ isServer \in [Ctx -> BOOLEAN]
    /\ serverHandle \in [Ctx -> Handle]
    /\ txCounter \in [Ctx -> 0 .. MaxTx]
    /\ pending \in [Ctx -> Seq(Tx)]
    /\ dispatched \in [Ctx -> Seq(Tx)]
    /\ done \in [Ctx -> Seq(Entry)]
    /\ waking \in [Ctx -> SUBSET Tx]
    /\ call \in [Thread -> Call]
    /\ fate \in [Tx -> Fate]

Init ==
    /\ life = [c \in Ctx |-> "closed"]
    /\ gen = [c \in Ctx |-> 0]
    /\ handles = [h \in Handle |-> NoCtx]
    /\ isServer = [c \in Ctx |-> FALSE]
    /\ serverHandle = [c \in Ctx |-> 0]
    /\ txCounter = [c \in Ctx |-> 0]
    /\ pending = [c \in Ctx |-> <<>>]
    /\ dispatched = [c \in Ctx |-> <<>>]
    /\ done = [c \in Ctx |-> <<>>]
    /\ waking = [c \in Ctx |-> {}]
    /\ call = [t \in Thread |-> Idle]
    /\ fate = [x \in Tx |-> "none"]

-----------------------------------------------------------------------------
(* Helpers.                                                                *)

Elements(s) == {s[i] : i \in 1 .. Len(s)}

\* Mutant of AddTail: list_add, the new node goes to the front.
AddFront(l, c, x) == [l EXCEPT ![c] = <<x>> \o @]

\* list_add_tail
AddTail(l, c, x) == [l EXCEPT ![c] = Append(@, x)]

\* list_del of the element at position i
DelAt(l, c, i) ==
    [l EXCEPT ![c] = SubSeq(@, 1, i - 1) \o SubSeq(@, i + 1, Len(@))]

\* The first entry of the dispatched_list that carries tx_id id.
IsFirstMatch(c, id, i) ==
    /\ i \in 1 .. Len(dispatched[c])
    /\ dispatched[c][i].id = id
    /\ \A j \in 1 .. i - 1 : dispatched[c][j].id # id

\* wake_up_interruptible(&ctx->wait): all sleepers of c test again.
WakeUp(f, c) ==
    [t \in Thread |->
        IF FdOf[t] = c /\ f[t].at = "asleep"
        THEN [at |-> "check", on |-> f[t].on] ELSE f[t]]

Return(t) == call' = [call EXCEPT ![t] = Idle]
Goto(t, r) == call' = [call EXCEPT ![t] = r]

\* Thread t is outside the driver and its file is open.
CanCall(t) == call[t] = Idle /\ life[FdOf[t]] = "open"

-----------------------------------------------------------------------------
(* open()                                                                  *)

Open(c) ==
    /\ life[c] = "closed"
    /\ gen[c] < MaxGen
    /\ life' = [life EXCEPT ![c] = "open"]
    /\ gen' = [gen EXCEPT ![c] = @ + 1]
    /\ isServer' = [isServer EXCEPT ![c] = FALSE]
    /\ serverHandle' = [serverHandle EXCEPT ![c] = 0]
    /\ txCounter' = [txCounter EXCEPT ![c] = 0]
    /\ pending' = [pending EXCEPT ![c] = <<>>]
    /\ dispatched' = [dispatched EXCEPT ![c] = <<>>]
    /\ done' = [done EXCEPT ![c] = <<>>]
    /\ UNCHANGED <<handles, call, waking, fate>>

-----------------------------------------------------------------------------
(* ioctl(REGISTER) and ioctl(UNREGISTER).  A call that fails (EINVAL,      *)
(* EBUSY, EPERM) changes nothing and is not a step.                        *)

Register(t, h) ==
    /\ CanCall(t)
    /\ handles[h] = NoCtx
    /\ handles' = [handles EXCEPT ![h] = FdOf[t]]
    /\ Goto(t, [at |-> "setRole", h |-> h])
    /\ UNCHANGED <<life, gen, isServer, serverHandle, txCounter, lists, waking, fate>>

RegisterRole(t) ==
    /\ call[t].at = "setRole"
    /\ isServer' = [isServer EXCEPT ![FdOf[t]] = TRUE]
    /\ Goto(t, [at |-> "setHandle", h |-> call[t].h])
    /\ UNCHANGED <<life, gen, handles, serverHandle, txCounter, lists, waking, fate>>

RegisterHandle(t) ==
    /\ call[t].at = "setHandle"
    /\ serverHandle' = [serverHandle EXCEPT ![FdOf[t]] = call[t].h]
    /\ Return(t)
    /\ UNCHANGED <<life, gen, handles, isServer, txCounter, lists, waking, fate>>

Unregister(t) ==
    /\ CanCall(t)
    /\ isServer[FdOf[t]]
    /\ Goto(t, [at |-> "clearEntry", h |-> serverHandle[FdOf[t]]])
    /\ UNCHANGED <<life, gen, table, txCounter, lists, waking, fate>>

UnregisterEntry(t) ==
    /\ call[t].at = "clearEntry"
    /\ handles' = [handles EXCEPT ![call[t].h] = NoCtx]
    /\ Goto(t, [at |-> "clearRole"])
    /\ UNCHANGED <<life, gen, isServer, serverHandle, txCounter, lists, waking, fate>>

\* Mutant of UnregisterRole: is_server keeps its value.
UnregisterKeepsRole(t) ==
    /\ call[t].at = "clearRole"
    /\ Return(t)
    /\ UNCHANGED <<life, gen, table, txCounter, lists, waking, fate>>

UnregisterRole(t) ==
    /\ call[t].at = "clearRole"
    /\ isServer' = [isServer EXCEPT ![FdOf[t]] = FALSE]
    /\ Return(t)
    /\ UNCHANGED <<life, gen, handles, serverHandle, txCounter, lists, waking, fate>>

-----------------------------------------------------------------------------
(* Answers and events.  They are appended under the done_lock, and the     *)
(* reader is woken after it is dropped.                                    *)

\* tx->caller (or the callback's target) is a bare pointer.  What is stored
\* through it once the context is freed is gone; if the address has been
\* handed out again, the new file gets it.
Deliver(c, e) ==
    done' = IF life[c] = "closed" THEN done ELSE AddTail(done, c, e)

\* wake_up_interruptible(&tx->caller->wait), with no lock held: the reader may
\* have popped the answer and freed tx meanwhile, and then the caller read
\* from it is anything, or nothing of this driver.
WokenThrough(tx) ==
    IF fate[tx] \in {"delivered", "abandoned"} THEN Ctx \cup {NoCtx}
    ELSE {tx.caller}

Mark(xs, what) == fate' = [x \in Tx |-> IF x \in xs THEN what ELSE fate[x]]

\* The request is lost if the context its transaction is handed to is freed.
MarkIfFreed(c, x) == Mark(IF life[c] = "closed" THEN {x} ELSE {}, "lost")

-----------------------------------------------------------------------------
(* write(), a request for handle h > 0.  The transaction gets its tx_id and *)
(* the server is looked up under the handle's mutex; the mutex is dropped   *)
(* before the transaction is appended.                                      *)

\* Mutant of Request: the tx_id is the counter before it is incremented.
RequestOldId(t, h) ==
    LET c  == FdOf[t]
        tx == [caller |-> c, gen |-> gen[c], id |-> txCounter[c]]
    IN  /\ CanCall(t)
        /\ txCounter[c] < MaxTx
        /\ txCounter' = [txCounter EXCEPT ![c] = @ + 1]
        /\ handles[h] # NoCtx
        /\ Goto(t, [at |-> "append", tx |-> tx, to |-> handles[h]])
        /\ Mark({tx}, "live")
        /\ UNCHANGED <<life, gen, table, lists, waking>>

Request(t, h) ==
    LET c  == FdOf[t]
        tx == [caller |-> c, gen |-> gen[c], id |-> txCounter[c] + 1]
    IN  /\ CanCall(t)
        /\ txCounter[c] < MaxTx
        /\ txCounter' = [txCounter EXCEPT ![c] = @ + 1]
        /\ \/ /\ handles[h] # NoCtx
              /\ Goto(t, [at |-> "append", tx |-> tx, to |-> handles[h]])
              /\ Mark({tx}, "live")
           \/ /\ handles[h] = NoCtx
              /\ Mark({tx}, "refused")
              /\ UNCHANGED call
        /\ UNCHANGED <<life, gen, table, lists, waking>>

\* Mutant of RequestAppend: wakes the server before the append, not after it.
RequestWakesFirst(t) ==
    LET s == call[t].to
    IN  /\ call[t].at = "append"
        /\ life[s] # "drainPending"
        /\ \/ /\ call' = WakeUp(call, s)
              /\ UNCHANGED <<pending, fate>>
           \/ /\ pending' = IF life[s] = "closed" THEN pending
                            ELSE AddTail(pending, s, call[t].tx)
              /\ Return(t)
              /\ MarkIfFreed(s, call[t].tx)
        /\ UNCHANGED <<life, gen, table, txCounter, dispatched, done, waking>>

\* A release that drains the list holds pending_lock until it is empty.
RequestAppend(t) ==
    LET s == call[t].to
    IN  /\ call[t].at = "append"
        /\ life[s] # "drainPending"
        /\ pending' = IF life[s] = "closed" THEN pending
                      ELSE AddTail(pending, s, call[t].tx)
        /\ Goto(t, [at |-> "wake", to |-> s])
        /\ MarkIfFreed(s, call[t].tx)
        /\ UNCHANGED <<life, gen, table, txCounter, dispatched, done, waking>>

RequestWake(t) ==
    /\ call[t].at = "wake"
    /\ call' = WakeUp([call EXCEPT ![t] = Idle], call[t].to)
    /\ UNCHANGED <<life, gen, table, txCounter, lists, waking, fate>>

(* write(cmd = REPLY): the first dispatched transaction with the tx_id is   *)
(* taken off the list and answered.  Nothing to answer is EINVAL, a file    *)
(* that is not a server EPERM: no step.                                     *)

\* Mutant of Reply: the transaction found is not taken off the list.
ReplyKeepsNode(t, id) ==
    LET c == FdOf[t]
    IN  /\ CanCall(t)
        /\ isServer[c]
        /\ \E i \in 1 .. Len(dispatched[c]) :
              /\ IsFirstMatch(c, id, i)
              /\ Goto(t, [at |-> "answer", tx |-> dispatched[c][i]])
        /\ UNCHANGED <<life, gen, table, txCounter, lists, waking, fate>>

Reply(t, id) ==
    LET c == FdOf[t]
    IN  /\ CanCall(t)
        /\ isServer[c]
        /\ \E i \in 1 .. Len(dispatched[c]) :
              /\ IsFirstMatch(c, id, i)
              /\ Goto(t, [at |-> "answer", tx |-> dispatched[c][i]])
              /\ dispatched' = DelAt(dispatched, c, i)
        /\ UNCHANGED <<life, gen, table, txCounter, pending, done, waking, fate>>

\* Mutant of ReplyAnswer: answers the writer's own file, not tx->caller.
ReplyAnswerSelf(t) ==
    LET tx == call[t].tx
    IN  /\ call[t].at = "answer"
        /\ Deliver(FdOf[t], [kind |-> "reply", tx |-> tx])
        /\ Goto(t, [at |-> "wakeCaller", tx |-> tx])
        /\ UNCHANGED <<life, gen, table, txCounter, pending, dispatched, waking, fate>>

ReplyAnswer(t) ==
    LET tx == call[t].tx
    IN  /\ call[t].at = "answer"
        /\ Deliver(tx.caller, [kind |-> "reply", tx |-> tx])
        /\ Goto(t, [at |-> "wakeCaller", tx |-> tx])
        /\ MarkIfFreed(tx.caller, tx)
        /\ UNCHANGED <<life, gen, table, txCounter, pending, dispatched, waking>>

\* Mutant of ReplyWake: wakes the readers of the writer's own file.
ReplyWakesSelf(t) ==
    /\ call[t].at = "wakeCaller"
    /\ call' = WakeUp([call EXCEPT ![t] = Idle], FdOf[t])
    /\ UNCHANGED <<life, gen, table, txCounter, lists, waking, fate>>

ReplyWake(t) ==
    /\ call[t].at = "wakeCaller"
    /\ \E c \in WokenThrough(call[t].tx) :
          call' = WakeUp([call EXCEPT ![t] = Idle], c)
    /\ UNCHANGED <<life, gen, table, txCounter, lists, waking, fate>>

(* write(cmd = EVENT): the file registered for handle h is looked up, the   *)
(* event is appended to its done_list, the file is woken, and if the writer *)
(* is a server it frees the first dispatched transaction with the tx_id.    *)
(* No target is ENODEV: no step.                                            *)

Event(t, h, id) ==
    /\ CanCall(t)
    /\ handles[h] # NoCtx
    /\ Len(done[handles[h]]) < MaxDone
    /\ Goto(t, [at |-> "event", id |-> id, to |-> handles[h]])
    /\ UNCHANGED <<life, gen, table, txCounter, lists, waking, fate>>

\* deliver_event allocates with GFP_ATOMIC; if that fails it returns without a
\* word, and write() goes on as if the event had been sent.
EventDeliver(t) ==
    LET id == call[t].id
    IN  /\ call[t].at = "event"
        /\ \/ /\ Deliver(call[t].to, [kind |-> "event", id |-> id])
              /\ Goto(t, [at |-> "wakeTarget", id |-> id, to |-> call[t].to])
           \/ /\ Goto(t, [at |-> "unlink", id |-> id])
              /\ UNCHANGED done
        /\ UNCHANGED <<life, gen, table, txCounter, pending, dispatched, waking, fate>>

EventWake(t) ==
    /\ call[t].at = "wakeTarget"
    /\ call' = WakeUp([call EXCEPT ![t] = [at |-> "unlink", id |-> call[t].id]],
                      call[t].to)
    /\ UNCHANGED <<life, gen, table, txCounter, lists, waking, fate>>

\* Mutant of EventUnlink: kfree without list_del.
EventFreeLinked(t) ==
    LET c == FdOf[t]
    IN  /\ call[t].at = "unlink"
        /\ Mark({x \in Elements(dispatched[c]) : isServer[c] /\ x.id = call[t].id},
                "calledBack")
        /\ Return(t)
        /\ UNCHANGED <<life, gen, table, txCounter, lists, waking>>

EventUnlink(t) ==
    LET c       == FdOf[t]
        Match   == {i \in 1 .. Len(dispatched[c]) :
                        isServer[c] /\ IsFirstMatch(c, call[t].id, i)}
    IN  /\ call[t].at = "unlink"
        /\ \/ /\ Match = {}
              /\ UNCHANGED <<dispatched, fate>>
           \/ \E i \in Match :
                 /\ dispatched' = DelAt(dispatched, c, i)
                 /\ Mark({dispatched[c][i]}, "calledBack")
        /\ Return(t)
        /\ UNCHANGED <<life, gen, table, txCounter, pending, done, waking>>

-----------------------------------------------------------------------------
(* read(): the role, tested once, selects the list the thread waits for.    *)

Read(t) ==
    /\ CanCall(t)
    /\ Goto(t, [at |-> "check",
                on |-> IF isServer[FdOf[t]] THEN "pending" ELSE "done"])
    /\ UNCHANGED <<life, gen, table, txCounter, lists, waking, fate>>

IsEmpty(c, on) == (IF on = "pending" THEN pending[c] ELSE done[c]) = <<>>

\* wait_event_interruptible tests the condition after it has queued itself
\* on the wait queue, so that a wake-up after the test is not missed.
ReadCheck(t) ==
    /\ call[t].at = "check"
    /\ Goto(t, [at |-> IF IsEmpty(FdOf[t], call[t].on) THEN "asleep" ELSE "pop",
                on |-> call[t].on])
    /\ UNCHANGED <<life, gen, table, txCounter, lists, waking, fate>>

\* A signal ends the wait (-ERESTARTSYS).
ReadInterrupt(t) ==
    /\ call[t].at = "asleep"
    /\ Return(t)
    /\ UNCHANGED <<life, gen, table, txCounter, lists, waking, fate>>

\* Another reader of the file took the last element: EAGAIN.
ReadAgain(t) ==
    /\ call[t].at = "pop"
    /\ IsEmpty(FdOf[t], call[t].on)
    /\ Return(t)
    /\ UNCHANGED <<life, gen, table, txCounter, lists, waking, fate>>

ReadRequest(t) ==
    LET c == FdOf[t]
    IN  /\ call[t].at = "pop" /\ call[t].on = "pending"
        /\ pending[c] # <<>>
        /\ Goto(t, [at |-> "dispatch", tx |-> Head(pending[c])])
        /\ pending' = [pending EXCEPT ![c] = Tail(@)]
        /\ UNCHANGED <<life, gen, table, txCounter, dispatched, done, waking, fate>>

\* The transaction is dispatched even if copying it to the user has failed
\* (EFAULT): it waits for an answer from a server that has not seen it.
ReadDispatch(t) ==
    /\ call[t].at = "dispatch"
    /\ dispatched' = AddTail(dispatched, FdOf[t], call[t].tx)
    /\ Return(t)
    /\ UNCHANGED <<life, gen, table, txCounter, pending, done, waking, fate>>

Answered(es) == {e.tx : e \in {x \in es : x.kind # "event"}}

\* What is popped is freed, also if copying it to the user fails (EFAULT):
\* "delivered" says that a read() took the answer off the list.
ReadDone(t) ==
    LET c == FdOf[t]
    IN  /\ call[t].at = "pop" /\ call[t].on = "done"
        /\ done[c] # <<>>
        /\ done' = [done EXCEPT ![c] = Tail(@)]
        /\ Mark(Answered({Head(done[c])}), "delivered")
        /\ Return(t)
        /\ UNCHANGED <<life, gen, table, txCounter, pending, dispatched, waking>>

-----------------------------------------------------------------------------
(* release(): the last reference to the file is gone, no call is in flight. *)

Close(c) ==
    /\ life[c] = "open"
    /\ \A t \in Thread : FdOf[t] = c => call[t] = Idle
    /\ life' = [life EXCEPT ![c] = "unregister"]
    /\ UNCHANGED <<gen, table, txCounter, lists, call, waking, fate>>

\* Mutant of ReleaseHandle: no auto-unregistration.
ReleaseKeepsHandle(c) ==
    /\ life[c] = "unregister"
    /\ life' = [life EXCEPT ![c] = "freeDone"]
    /\ UNCHANGED <<gen, table, txCounter, lists, call, waking, fate>>

ReleaseHandle(c) ==
    /\ life[c] = "unregister"
    /\ life' = [life EXCEPT ![c] = "freeDone"]
    /\ handles' = IF isServer[c] THEN [handles EXCEPT ![serverHandle[c]] = NoCtx]
                  ELSE handles
    /\ UNCHANGED <<gen, isServer, serverHandle, txCounter, lists, call, waking, fate>>

ReleaseDone(c) ==
    /\ life[c] = "freeDone"
    /\ life' = [life EXCEPT ![c] = "drainPending"]
    /\ done' = [done EXCEPT ![c] = <<>>]
    /\ Mark(Answered(Elements(done[c])), "abandoned")
    /\ UNCHANGED <<gen, table, txCounter, pending, dispatched, waking, call>>

\* One turn of the loops that answer what is left with ENODEV, up to the
\* wake-up of the caller, ...
NotifyClosed(c, tx) ==
    /\ Deliver(tx.caller, [kind |-> "nodev", tx |-> tx])
    /\ MarkIfFreed(tx.caller, tx)
    /\ waking' = [waking EXCEPT ![c] = {tx}]

\* ... which ends the turn; done_lock is dropped, the caller may have read.
ReleaseWake(c) ==
    /\ \E tx \in waking[c] :
          /\ \E a \in WokenThrough(tx) : call' = WakeUp(call, a)
          /\ waking' = [waking EXCEPT ![c] = @ \ {tx}]
    /\ UNCHANGED <<life, gen, table, txCounter, lists, fate>>

ReleasePending(c) ==
    /\ life[c] = "drainPending" /\ waking[c] = {}
    /\ \/ /\ pending[c] # <<>>
          /\ NotifyClosed(c, Head(pending[c]))
          /\ pending' = [pending EXCEPT ![c] = Tail(@)]
          /\ UNCHANGED life
       \/ /\ pending[c] = <<>>
          /\ life' = [life EXCEPT ![c] = "drainDispatched"]
          /\ UNCHANGED <<pending, done, waking, fate>>
    /\ UNCHANGED <<gen, table, txCounter, dispatched, call>>

\* Mutant of ReleaseDispatched: the list is freed, nobody is notified.
ReleaseForgetsDispatched(c) ==
    /\ life[c] = "drainDispatched"
    /\ life' = [life EXCEPT ![c] = "closed"]
    /\ Mark(Elements(pending[c]) \cup Elements(dispatched[c])
              \cup Answered(Elements(done[c])), "lost")
    /\ pending' = [pending EXCEPT ![c] = <<>>]
    /\ dispatched' = [dispatched EXCEPT ![c] = <<>>]
    /\ done' = [done EXCEPT ![c] = <<>>]
    /\ UNCHANGED <<gen, table, txCounter, waking, call>>

\* kfree(ctx) ends the release.  What others appended meanwhile goes with it.
ReleaseDispatched(c) ==
    /\ life[c] = "drainDispatched" /\ waking[c] = {}
    /\ \/ /\ dispatched[c] # <<>>
          /\ NotifyClosed(c, Head(dispatched[c]))
          /\ dispatched' = [dispatched EXCEPT ![c] = Tail(@)]
          /\ UNCHANGED <<life, pending>>
       \/ /\ dispatched[c] = <<>>
          /\ life' = [life EXCEPT ![c] = "closed"]
          /\ Mark(Elements(pending[c]) \cup Answered(Elements(done[c])), "lost")
          /\ pending' = [pending EXCEPT ![c] = <<>>]
          /\ done' = [done EXCEPT ![c] = <<>>]
          /\ UNCHANGED <<dispatched, waking>>
    /\ UNCHANGED <<gen, table, txCounter, call>>

-----------------------------------------------------------------------------
\* What the kernel does once a call or a release has begun.
Continue(t) ==
    \/ RegisterRole(t) \/ RegisterHandle(t)
    \/ UnregisterEntry(t) \/ UnregisterRole(t)
    \/ RequestAppend(t) \/ RequestWake(t) \/ ReplyAnswer(t) \/ ReplyWake(t)
    \/ EventDeliver(t) \/ EventWake(t) \/ EventUnlink(t)
    \/ ReadCheck(t) \/ ReadAgain(t) \/ ReadRequest(t)
    \/ ReadDispatch(t) \/ ReadDone(t)

Release(c) ==
    \/ ReleaseHandle(c) \/ ReleaseDone(c)
    \/ ReleasePending(c) \/ ReleaseDispatched(c) \/ ReleaseWake(c)

\* What the program of a thread may do at any time.
Begin(t) ==
    \/ "register" \in May[t] /\ \E h \in UserHandle : Register(t, h)
    \/ "register" \in May[t] /\ Unregister(t)
    \/ "request"  \in May[t] /\ \E h \in UserHandle : Request(t, h)
    \/ "reply"    \in May[t] /\ \E id \in TxId : Reply(t, id)
    \/ "event"    \in May[t] /\ \E h \in UserHandle, id \in TxId : Event(t, h, id)
    \/ "read"     \in May[t] /\ Read(t)
    \/ ReadInterrupt(t)

Next ==
    \/ \E t \in Thread : Begin(t) \/ Continue(t)
    \/ \E c \in Ctx : Open(c) \/ Close(c) \/ Release(c)

Spec == Init /\ [][Next]_vars

\* A system call that is not asleep runs on, and so does a release.
Fairness ==
    /\ \A t \in Thread : WF_vars(Continue(t))
    /\ \A c \in Ctx : WF_vars(Release(c))

-----------------------------------------------------------------------------
(* What the driver takes for granted of the programs that use it and       *)
(* nothing in it enforces.  Each is a restriction on steps.                *)

\* Requests of the file at c that are in a list or a thread's hands.
InHand(t) == IF call[t].at \in {"append", "answer", "dispatch"}
             THEN {call[t].tx} ELSE {}
Travelling ==
    (UNION {Elements(pending[s]) \cup Elements(dispatched[s]) : s \in Ctx})
        \cup (UNION {InHand(t) : t \in Thread})
Outstanding(c) == {x \in Travelling : x.caller = c}

\* A client closes its file only when its requests have been answered.
ClosesWhenAnswered ==
    \A c \in Ctx : life[c] = "open" /\ life'[c] = "unregister"
                        => Outstanding(c) = {}

\* A thread that looked c up in the table has appended to its list before
\* the release of c, which has emptied the table entry, frees the lists.
LookupsLandFirst ==
    \A c \in Ctx : life[c] = "freeDone" /\ life'[c] = "drainPending"
                        => \A t \in Thread : call[t].at \in {"append", "event"}
                                                => call[t].to # c

\* On one file, REGISTER and UNREGISTER are called one at a time, and REGISTER
\* only when the file is not registered.
Registering(t) == call[t].at \in {"setRole", "setHandle", "clearEntry", "clearRole"}
RegistersOnce ==
    \A t \in Thread : ~Registering(t) /\ Registering(t)'
        => /\ \A u \in Thread \ {t} : FdOf[u] = FdOf[t] => ~Registering(u)
           /\ call'[t].at = "setRole" => ~isServer[FdOf[t]]

Orderly == ClosesWhenAnswered /\ LookupsLandFirst /\ RegistersOnce

OrderlySpec == Init /\ [][Next /\ Orderly]_vars
=============================================================================
