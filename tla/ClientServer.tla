---------------------------- MODULE ClientServer ----------------------------
(***************************************************************************)
(* The programs of src/delay_work_queue on top of the driver: dwq_server2  *)
(* registers handle 1 and serves it; dwq_client2 sends it one request, as   *)
(* `sync' (write, then read the answer) or as `async' (register handle 2 on *)
(* the same file, start a thread that reads the event, write a request that *)
(* names handle 2, join the thread).                                        *)
(*                                                                          *)
(* Every step of a program is a call of the driver (Dwq) or a step between  *)
(* two calls; the driver goes on by itself (Continue, Release).  A process  *)
(* is named by its file's context; its threads are those with FdOf[t] = c.  *)
(* It may be run again once its file is released (MaxGen times in all).     *)
(*                                                                          *)
(* The broadcast of dwq_server2 reaches only subscribers: see Listener.     *)
(***************************************************************************)
EXTENDS DwqProps

MY_HANDLE == 1
CB_HANDLE == 2

CONSTANTS
    Role,       \* Role[t]: which program, or which thread of it, t runs
    Killable    \* the processes that may be killed

\* What is called is up to the programs: the driver lets each call anything.
ASSUME ProgramsAssumption ==
    /\ Role \in [Thread -> {"server", "sync", "async", "callback"}]
    /\ Killable \subseteq Ctx
    /\ May = [t \in Thread |-> {"register", "request", "reply", "event", "read"}]
    /\ {MY_HANDLE, CB_HANDLE} \subseteq UserHandle
    \* A process has one main thread, and `async' starts another.
    /\ \A t, u \in Thread : t # u /\ FdOf[t] = FdOf[u] => "callback" \in {Role[t], Role[u]}
    /\ \A t \in Thread : Role[t] = "callback" =>
          \E u \in Thread : Role[u] = "async" /\ FdOf[u] = FdOf[t]
    /\ \A t \in Thread : Role[t] = "async" =>
          \E u \in Thread : Role[u] = "callback" /\ FdOf[u] = FdOf[t]

VARIABLES
    pc,         \* pc[t]: the next thing the program does once it is not in a call
    ret,        \* ret[t]: what its last read() returned
    running,    \* running[t]: the flag of dwq_server2 that on_signal clears
    echo        \* ghost: echo[x], the request whose echo was written as x's answer
programs == <<pc, ret, running, echo>>
allVars  == <<vars, programs>>

Nothing   == [kind |-> "nothing"]

Pc == {"start", "register", "write", "read", "answer", "restart", "loop",
       "join", "unregister", "exit"}

ProgramsOK ==
    /\ pc \in [Thread -> Pc]
    /\ ret \in [Thread -> Tx \cup Entry \cup {Nothing}]
    /\ running \in [Thread -> BOOLEAN]
    /\ echo \in [Tx -> Tx \cup {Nothing}]

TypesOK == TypeOK /\ ProgramsOK

InitAll ==
    /\ Init
    /\ pc = [t \in Thread |-> "start"]
    /\ ret = [t \in Thread |-> Nothing]
    /\ running = [t \in Thread |-> TRUE]
    /\ echo = [x \in Tx |-> Nothing]

-----------------------------------------------------------------------------
Team(t) == {u \in Thread : FdOf[u] = FdOf[t]}
Ready(t, role, where) == Role[t] \in role /\ pc[t] = where /\ call[t] = Idle

Step(t, where) == /\ pc' = [pc EXCEPT ![t] = where]
                  /\ UNCHANGED <<ret, running, echo>>

\* exit() of the process: none of its threads makes another call.
Exit(t) == /\ pc' = [u \in Thread |-> IF u \in Team(t) THEN "exit" ELSE pc[u]]
           /\ UNCHANGED <<ret, running, echo>>

\* main(): open("/dev/dwq"), by a process that has not run or has gone.
Start(t) ==
    /\ Role[t] # "callback"
    /\ \A u \in Team(t) : pc[u] \in {"start", "exit"}
    /\ Open(FdOf[t])
    /\ pc' = [u \in Thread |->
                IF u = t THEN IF Role[t] = "sync" THEN "write" ELSE "register"
                ELSE IF u \in Team(t) THEN "start" ELSE pc[u]]
    /\ ret' = [ret EXCEPT ![t] = Nothing]
    /\ running' = [running EXCEPT ![t] = TRUE]
    /\ UNCHANGED echo

-----------------------------------------------------------------------------
(* dwq_server2                                                             *)

ServerRegister(t) ==
    /\ Ready(t, {"server"}, "register")
    /\ \/ Register(t, MY_HANDLE) /\ Step(t, "loop")
       \/ handles[MY_HANDLE] # NoCtx /\ Exit(t) /\ UNCHANGED vars

\* while (running): read the next request, or leave.
ServerRead(t) ==
    /\ Ready(t, {"server"}, "loop")
    /\ running[t]
    /\ Read(t)
    /\ Step(t, "answer")

ServerLeave(t) ==
    /\ Ready(t, {"server"}, "loop")
    /\ ~running[t]
    /\ Unregister(t)
    /\ Exit(t)

\* dwq_client2 fills in callback_handle only as `async'.
WantsCallback(x) == \E t \in Thread : FdOf[t] = x.caller /\ Role[t] = "async"

\* Mutant of ServerReply: the answer to a request that wants no callback is
\* left out, the server reads on.
ServerReplyForgotten(t) ==
    /\ Ready(t, {"server"}, "answer")
    /\ ~WantsCallback(ret[t])
    /\ Step(t, "loop")
    /\ UNCHANGED vars

\* write(REPLY) with the tx_id and the echo of the request just read.
ServerReply(t) ==
    /\ Ready(t, {"server"}, "answer")
    /\ ~WantsCallback(ret[t])
    /\ pc' = [pc EXCEPT ![t] = "loop"]
    /\ \/ /\ Reply(t, ret[t].id)
          /\ echo' = [echo EXCEPT ![call'[t].tx] = ret[t]]
       \/ /\ \A x \in Elements(dispatched[FdOf[t]]) : x.id # ret[t].id
          /\ UNCHANGED <<vars, echo>>
    /\ UNCHANGED <<ret, running>>

\* write(EVENT) to the handle the request names; if nobody is registered there
\* any more the callback is skipped, and no REPLY is written in its place.
ServerCallBack(t) ==
    /\ Ready(t, {"server"}, "answer")
    /\ WantsCallback(ret[t])
    /\ \/ Event(t, CB_HANDLE, ret[t].id)
       \/ handles[CB_HANDLE] = NoCtx /\ UNCHANGED vars
    /\ Step(t, "loop")

\* SIGINT or SIGTERM, outside read().
Signal(t) ==
    /\ Role[t] = "server" /\ pc[t] \in {"register", "loop", "answer"}
    /\ call[t].at # "asleep"
    /\ running[t]
    /\ running' = [running EXCEPT ![t] = FALSE]
    /\ UNCHANGED <<vars, pc, ret, echo>>

\* ... and asleep in it.  The handlers are installed with signal(), so that
\* the C library has an interrupted read() begun again: the loop does not see
\* it.
SignalAsleep(t) ==
    /\ Role[t] = "server" /\ pc[t] = "answer"
    /\ running[t]
    /\ running' = [running EXCEPT ![t] = FALSE]
    /\ ReadInterrupt(t)
    /\ pc' = [pc EXCEPT ![t] = "restart"]
    /\ UNCHANGED <<ret, echo>>

ServerRestart(t) ==
    /\ Ready(t, {"server"}, "restart")
    /\ Read(t)
    /\ Step(t, "answer")

-----------------------------------------------------------------------------
(* dwq_client2                                                             *)

AsyncRegister(t) ==
    /\ Ready(t, {"async"}, "register")
    /\ \/ /\ Register(t, CB_HANDLE)
          /\ pc' = [u \in Thread |-> IF u = t THEN "write"
                                     ELSE IF u \in Team(t) THEN "read" ELSE pc[u]]
          /\ UNCHANGED <<ret, running, echo>>
       \/ handles[CB_HANDLE] # NoCtx /\ Exit(t) /\ UNCHANGED vars

\* Mutant of ClientWrite: a client that does not wait for its answer.
ClientWriteAndGo(t) ==
    /\ Ready(t, {"sync", "async"}, "write")
    /\ Request(t, MY_HANDLE)
    /\ Exit(t)

\* The request; a refused one (ENODEV) ends the program.
ClientWrite(t) ==
    /\ Ready(t, {"sync", "async"}, "write")
    /\ Request(t, MY_HANDLE)
    /\ IF call'[t] = Idle THEN Exit(t)
       ELSE Step(t, IF Role[t] = "sync" THEN "read" ELSE "join")

\* read() by `sync', and by the callback thread of `async' once the file has
\* been registered (pthread_create comes after the ioctl).
ClientRead(t) ==
    /\ Ready(t, {"sync", "callback"}, "read")
    /\ \A u \in Team(t) : ~Registering(u)
    /\ Read(t)
    /\ Step(t, "unregister")

\* After the read: `sync' closes its file; cb_thread returns, and then main()
\* of `async', which has joined it, unregisters handle 2 and closes.
SyncLeave(t) ==
    /\ Ready(t, {"sync"}, "unregister")
    /\ Exit(t)
    /\ UNCHANGED vars

AsyncLeave(t) ==
    /\ Ready(t, {"async"}, "join")
    /\ \A u \in Team(t) \ {t} : pc[u] = "unregister" /\ call[u] = Idle
    /\ Unregister(t)
    /\ Exit(t)

-----------------------------------------------------------------------------
(* What happens to every process.                                          *)

\* The driver goes on with a call; read() leaves its result with the program.
Result(t) ==
    IF call[t].at = "dispatch" THEN call[t].tx
    ELSE IF call[t].at = "pop" /\ call[t].on = "done" /\ done[FdOf[t]] # <<>>
         THEN Head(done[FdOf[t]])
    ELSE ret[t]

Proceed(t) ==
    /\ Continue(t)
    /\ ret' = [ret EXCEPT ![t] = Result(t)]
    /\ UNCHANGED <<pc, running, echo>>

\* A signal that is not caught.
Kill(t) ==
    /\ FdOf[t] \in Killable
    /\ life[FdOf[t]] = "open"
    /\ pc[t] # "exit"
    /\ Exit(t)
    /\ UNCHANGED vars

\* A thread of a process that ends does not stay asleep, ...
Interrupted(t) ==
    /\ pc[t] = "exit"
    /\ ReadInterrupt(t)
    /\ UNCHANGED programs

\* ... and the last one takes the file with it.
Gone(c) ==
    /\ \A t \in Thread : FdOf[t] = c => pc[t] = "exit"
    /\ Close(c)
    /\ UNCHANGED programs

Server(t) == ServerRegister(t) \/ ServerRead(t) \/ ServerLeave(t)
                \/ ServerReply(t) \/ ServerCallBack(t) \/ ServerRestart(t)
Client(t) == AsyncRegister(t) \/ ClientWrite(t) \/ ClientRead(t)
                \/ SyncLeave(t) \/ AsyncLeave(t)

NextAll ==
    \/ \E t \in Thread : \/ Start(t) \/ Server(t) \/ Client(t) \/ Proceed(t)
                         \/ Signal(t) \/ SignalAsleep(t) \/ Kill(t)
                         \/ Interrupted(t)
    \/ \E c \in Ctx : Gone(c) \/ (Release(c) /\ UNCHANGED programs)

\* The race of write() with dwq_release, which is the driver's own (Dwq), is
\* left out here.
SpecAll == InitAll /\ [][NextAll /\ LookupsLandFirst]_allVars

\* Threads that are not asleep run, in the program or in the driver; a process
\* that ends gives up its file, and the release of a file runs on.
FairnessAll ==
    /\ \A t \in Thread :
          WF_allVars(Server(t) \/ Client(t) \/ Proceed(t) \/ Interrupted(t))
    /\ \A c \in Ctx :
          WF_allVars(Gone(c) \/ (Release(c) /\ UNCHANGED programs))

FairSpecAll == SpecAll /\ FairnessAll

-----------------------------------------------------------------------------
\* Clients that are not killed, and dwq_server2 however it ends, are programs
\* as the driver takes them for granted: no file is closed before its requests
\* are answered, and none is registered twice or by two threads at once.
ProgramsAreOrderly == [][ClosesWhenAnswered /\ RegistersOnce]_allVars

\* The text a client reads is the echo of the text it wrote: write(REPLY)
\* matches by tx_id alone, and every client's first tx_id is 1.
EchoesItsRequest == \A x \in Tx : echo[x] \in {x, Nothing}

\* A `sync' client that has written its request ends: with its answer, or with
\* "server closed" when the server goes away first, however it goes.
SyncEnds ==
    \A t \in Thread : (Role[t] = "sync" /\ pc[t] = "read") ~> pc[t] = "exit"

\* A thread that sleeps in read(), and that nobody is about to wake, has no
\* event to read: the callback thread of an `async' client gets the event that
\* was sent to its handle.
CallbackIsRead ==
    \A t \in Thread : call[t].at = "asleep" =>
        \/ WakeDue(FdOf[t])
        \/ \A e \in Elements(done[FdOf[t]]) : e.kind # "event"
=============================================================================
