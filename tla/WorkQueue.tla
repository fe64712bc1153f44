------------------------------ MODULE WorkQueue ------------------------------
(***************************************************************************)
(* Handle 0 of /dev/dwq: requests go to one list, wq_pending, and a        *)
(* delayed_work answers them one by one; every run of delay_func answers   *)
(* one request and queues the work again if there are more.  ioctl(STOP)   *)
(* cancels the work, and so does the unloading of the module.              *)
(*                                                                         *)
(* The kernel's delayed_work is external: it is queued or not (queueing a  *)
(* queued work does nothing), it is never run twice at a time, it is no     *)
(* longer queued once it runs, and cancel_delayed_work_sync refuses every  *)
(* attempt to queue it, by the work itself or by others, until the run in   *)
(* progress has ended.                                                     *)
(*                                                                         *)
(* A file is used by one thread and opened once: what becomes of an address *)
(* that open() hands out again is the subject of Dwq.                       *)
(***************************************************************************)
EXTENDS Naturals, Sequences, FiniteSets

CONSTANTS
    Ctx,        \* files
    Stoppers,   \* the files whose programs call ioctl(STOP)
    Module,     \* dwq_exit, as one that cancels the work
    MaxTx       \* bound: requests one file writes to handle 0

ASSUME ConstantsAssumption ==
    /\ Stoppers \subseteq Ctx
    /\ Module \notin Ctx
    /\ MaxTx \in Nat

VARIABLES
    life,        \* life[c]: unopened, open or closed
    txCounter,   \* tx_id_counter of the file
    wqPending,   \* wq_pending
    queued,      \* the work is on the workqueue
    worker,      \* where the run of delay_func is, with its tx
    cancelling,  \* who is inside cancel_delayed_work_sync
    done,        \* done_list of the file
    asleep,      \* the files whose thread sleeps in read()
    loaded,      \* the module: loaded, exiting (dwq_exit), unloaded
    fate,        \* ghost: what has become of each request
    stopped      \* ghost: the work was cancelled and not queued since
vars == <<life, txCounter, wqPending, queued, worker, cancelling, done,
          asleep, loaded, fate, stopped>>

Tx == [caller : Ctx, id : 1 .. MaxTx]

Resting == [at |-> "resting"]
Worker ==
    {Resting} \cup [at : {"entered", "leaving"}] \cup [at : {"working", "waking"}, tx : Tx]

TypeOK ==
    /\ life \in [Ctx -> {"unopened", "open", "closed"}]
    /\ txCounter \in [Ctx -> 0 .. MaxTx]
    /\ wqPending \in Seq(Tx)
    /\ queued \in BOOLEAN
    /\ worker \in Worker
    /\ cancelling \in SUBSET (Ctx \cup {Module})
    /\ done \in [Ctx -> Seq(Tx)]
    /\ asleep \in SUBSET Ctx
    /\ loaded \in {"loaded", "exiting", "unloaded"}
    /\ fate \in [Tx -> {"none", "live", "delivered", "abandoned", "lost"}]
    /\ stopped \in BOOLEAN

Init ==
    /\ life = [c \in Ctx |-> "unopened"]
    /\ txCounter = [c \in Ctx |-> 0]
    /\ wqPending = <<>>
    /\ queued = FALSE
    /\ worker = Resting
    /\ cancelling = {}
    /\ done = [c \in Ctx |-> <<>>]
    /\ asleep = {}
    /\ loaded = "loaded"
    /\ fate = [x \in Tx |-> "none"]
    /\ stopped = FALSE

-----------------------------------------------------------------------------
Elements(s) == {s[i] : i \in 1 .. Len(s)}
Mark(xs, what) == fate' = [x \in Tx |-> IF x \in xs THEN what ELSE fate[x]]

\* queue_delayed_work(dev->wq, &dev->dwork, 0)
QueueWork ==
    /\ queued' = (queued \/ cancelling = {})
    /\ stopped' = (stopped /\ cancelling # {})

Open(c) ==
    /\ life[c] = "unopened" /\ loaded = "loaded"
    /\ life' = [life EXCEPT ![c] = "open"]
    /\ UNCHANGED <<txCounter, wqPending, queued, worker, cancelling, done,
                   asleep, loaded, fate, stopped>>

CanCall(c) == life[c] = "open" /\ c \notin cancelling /\ c \notin asleep

\* Mutant of Request: the tx_id is the counter before it is incremented.
RequestOldId(c) ==
    LET tx == [caller |-> c, id |-> txCounter[c]]
    IN  /\ CanCall(c)
        /\ txCounter[c] < MaxTx
        /\ txCounter' = [txCounter EXCEPT ![c] = @ + 1]
        /\ wqPending' = Append(wqPending, tx)
        /\ QueueWork
        /\ Mark({tx}, "live")
        /\ UNCHANGED <<life, worker, cancelling, done, asleep, loaded>>

\* Mutant of Request: list_add instead of list_add_tail.
RequestInFront(c) ==
    LET tx == [caller |-> c, id |-> txCounter[c] + 1]
    IN  /\ CanCall(c)
        /\ txCounter[c] < MaxTx
        /\ txCounter' = [txCounter EXCEPT ![c] = @ + 1]
        /\ wqPending' = <<tx>> \o wqPending
        /\ QueueWork
        /\ Mark({tx}, "live")
        /\ UNCHANGED <<life, worker, cancelling, done, asleep, loaded>>

\* write() to handle 0: server_ctx of handle 0 is always NULL, REGISTER
\* refuses it.  The append and the queueing are one critical section.
Request(c) ==
    LET tx == [caller |-> c, id |-> txCounter[c] + 1]
    IN  /\ CanCall(c)
        /\ txCounter[c] < MaxTx
        /\ txCounter' = [txCounter EXCEPT ![c] = @ + 1]
        /\ wqPending' = Append(wqPending, tx)
        /\ QueueWork
        /\ Mark({tx}, "live")
        /\ UNCHANGED <<life, worker, cancelling, done, asleep, loaded>>

\* read() takes the oldest answer, ...
ReadDone(c) ==
    /\ CanCall(c)
    /\ done[c] # <<>>
    /\ done' = [done EXCEPT ![c] = Tail(@)]
    /\ Mark({Head(done[c])}, "delivered")
    /\ UNCHANGED <<life, txCounter, wqPending, queued, worker, cancelling,
                   asleep, loaded, stopped>>

\* ... or waits for one.  The thread is on the wait queue before it tests the
\* list, so that a wake-up after the test is not missed.
ReadSleep(c) ==
    /\ CanCall(c)
    /\ done[c] = <<>>
    /\ asleep' = asleep \cup {c}
    /\ UNCHANGED <<life, txCounter, wqPending, queued, worker, cancelling, done,
                   loaded, fate, stopped>>

\* A signal ends the wait (-ERESTARTSYS).
ReadInterrupt(c) ==
    /\ c \in asleep
    /\ asleep' = asleep \ {c}
    /\ UNCHANGED <<life, txCounter, wqPending, queued, worker, cancelling, done,
                   loaded, fate, stopped>>

\* release(): steps 3 and 6; requests of the file in wq_pending stay there.
Close(c) ==
    /\ CanCall(c)
    /\ life' = [life EXCEPT ![c] = "closed"]
    /\ done' = [done EXCEPT ![c] = <<>>]
    /\ Mark(Elements(done[c]), "abandoned")
    /\ UNCHANGED <<txCounter, wqPending, queued, worker, cancelling, asleep,
                   loaded, stopped>>

-----------------------------------------------------------------------------
(* cancel_delayed_work_sync: from the moment the work is off the queue to   *)
(* the moment no run is in progress.                                        *)

CancelBegin(x) ==
    /\ queued' = FALSE
    /\ stopped' = TRUE
    /\ cancelling' = cancelling \cup {x}

CancelEnd(x) ==
    /\ x \in cancelling
    /\ worker = Resting
    /\ cancelling' = cancelling \ {x}

Stop(c) ==
    /\ CanCall(c)
    /\ CancelBegin(c)
    /\ UNCHANGED <<life, txCounter, wqPending, worker, done, asleep, loaded, fate>>

StopEnd(c) ==
    /\ CancelEnd(c)
    /\ UNCHANGED <<life, txCounter, wqPending, queued, worker, done, asleep,
                   loaded, fate, stopped>>

\* Mutant of Exit: cancel_delayed_work, which does not wait for the run.
ExitAtOnce ==
    /\ loaded = "loaded"
    /\ \A c \in Ctx : life[c] # "open"
    /\ loaded' = "unloaded"
    /\ queued' = FALSE
    /\ stopped' = TRUE
    /\ wqPending' = <<>>
    /\ Mark(Elements(wqPending), "lost")
    /\ UNCHANGED <<life, txCounter, worker, cancelling, done, asleep>>

\* dwq_exit: the owner of the file operations is not unloaded while a file
\* is open.
Exit ==
    /\ loaded = "loaded"
    /\ \A c \in Ctx : life[c] # "open"
    /\ loaded' = "exiting"
    /\ CancelBegin(Module)
    /\ UNCHANGED <<life, txCounter, wqPending, worker, done, asleep, fate>>

ExitEnd ==
    /\ CancelEnd(Module)
    /\ loaded' = "unloaded"
    /\ wqPending' = <<>>
    /\ Mark(Elements(wqPending), "lost")
    /\ UNCHANGED <<life, txCounter, queued, worker, done, asleep, stopped>>

-----------------------------------------------------------------------------
(* delay_func, run by the workqueue.                                       *)

WorkStart ==
    /\ queued /\ worker = Resting
    /\ queued' = FALSE
    /\ worker' = [at |-> "entered"]
    /\ UNCHANGED <<life, txCounter, wqPending, cancelling, done, asleep, loaded,
                   fate, stopped>>

\* Mutant of WorkTake: the request is not taken off the list.
WorkTakeKeeps ==
    /\ worker.at = "entered"
    /\ wqPending # <<>>
    /\ worker' = [at |-> "working", tx |-> Head(wqPending)]
    /\ UNCHANGED <<life, txCounter, wqPending, queued, cancelling, done, asleep,
                   loaded, fate, stopped>>

WorkTake ==
    /\ worker.at = "entered"
    /\ \/ /\ wqPending = <<>>
          /\ worker' = Resting
          /\ UNCHANGED wqPending
       \/ /\ wqPending # <<>>
          /\ worker' = [at |-> "working", tx |-> Head(wqPending)]
          /\ wqPending' = Tail(wqPending)
    /\ UNCHANGED <<life, txCounter, queued, cancelling, done, asleep, loaded,
                   fate, stopped>>

\* Mutant of WorkAnswer: wakes the caller before the append, not after it.
WorkWakesFirst ==
    LET tx == worker.tx
    IN  /\ worker.at = "working"
        /\ \/ /\ asleep' = asleep \ {tx.caller}
              /\ UNCHANGED <<worker, done, fate>>
           \/ /\ worker' = [at |-> "leaving"]
              /\ IF life[tx.caller] = "closed"
                 THEN Mark({tx}, "lost") /\ UNCHANGED done
                 ELSE done' = [done EXCEPT ![tx.caller] = Append(@, tx)] /\ UNCHANGED fate
              /\ UNCHANGED asleep
        /\ UNCHANGED <<life, txCounter, wqPending, queued, cancelling, loaded,
                       stopped>>

\* tx->caller is a bare pointer: the answer is lost if the file is closed.
WorkAnswer ==
    LET tx == worker.tx
    IN  /\ worker.at = "working"
        /\ worker' = [at |-> "waking", tx |-> tx]
        /\ IF life[tx.caller] = "closed"
           THEN Mark({tx}, "lost") /\ UNCHANGED done
           ELSE done' = [done EXCEPT ![tx.caller] = Append(@, tx)] /\ UNCHANGED fate
        /\ UNCHANGED <<life, txCounter, wqPending, queued, cancelling, asleep,
                       loaded, stopped>>

\* wake_up_interruptible(&tx->caller->wait), with done_lock dropped: a reader
\* that was not asleep may have popped and freed tx, the file may be closed,
\* and then the caller read from it may be anything.
WorkWake ==
    LET tx == worker.tx
    IN  /\ worker.at = "waking"
        /\ worker' = [at |-> "leaving"]
        /\ \/ asleep' = asleep \ {tx.caller}
           \/ fate[tx] # "live" /\ \E c \in Ctx : asleep' = asleep \ {c}
           \/ fate[tx] # "live" /\ UNCHANGED asleep
        /\ UNCHANGED <<life, txCounter, wqPending, queued, cancelling, done, loaded,
                       fate, stopped>>

\* Mutant of WorkLeave: the work is not queued for the rest of the list.
WorkLeaveIdle ==
    /\ worker.at = "leaving"
    /\ worker' = Resting
    /\ UNCHANGED <<life, txCounter, wqPending, queued, cancelling, done, asleep,
                   loaded, fate, stopped>>

WorkLeave ==
    /\ worker.at = "leaving"
    /\ worker' = Resting
    /\ IF wqPending = <<>> THEN UNCHANGED <<queued, stopped>> ELSE QueueWork
    /\ UNCHANGED <<life, txCounter, wqPending, cancelling, done, asleep, loaded,
                   fate>>

Work == WorkStart \/ WorkTake \/ WorkAnswer \/ WorkWake \/ WorkLeave

-----------------------------------------------------------------------------
Next ==
    \/ \E c \in Ctx : \/ Open(c) \/ Request(c) \/ Close(c) \/ StopEnd(c)
                      \/ ReadDone(c) \/ ReadSleep(c) \/ ReadInterrupt(c)
    \/ \E c \in Stoppers : Stop(c)
    \/ Exit \/ ExitEnd \/ Work

Spec == Init /\ [][Next]_vars

\* The workqueue runs what is queued; a run that has begun ends.
FairSpec == Spec /\ WF_vars(Work)

-----------------------------------------------------------------------------
\* delay_func answers one request per run, so somebody must queue the work
\* again: while requests wait, the work is queued or a run is in progress that
\* will queue it - unless the work has been cancelled since a request queued it.
WaitingIsQueued ==
    wqPending # <<>> =>
        queued \/ worker.at \in {"entered", "working", "waking", "leaving"} \/ stopped

\* The answer of delay_func is not missed: done_lock is dropped before the
\* wake-up, and the wake-up goes through a transaction that may be freed by
\* then; yet a thread that sleeps in read() while its file has an answer is
\* about to be woken, through a transaction that nobody has freed.
SleepersAreWoken ==
    \A c \in asleep : done[c] # <<>> =>
        worker.at = "waking" /\ worker.tx.caller = c /\ fate[worker.tx] = "live"

\* Once the module is gone, its code does not run and will not be run.
UnloadedIsQuiet == loaded = "unloaded" => worker = Resting /\ ~queued /\ wqPending = <<>>

\* Handle 0 serves one list in its order: of the requests a file has written,
\* the oldest have been read, and the others, every one of them, stand in the
\* order they were written, first the answers in its done_list, then the one
\* delay_func has, then those that wait, whoever else's wait between them.
InWork(c) == IF worker.at = "working" /\ worker.tx.caller = c THEN <<worker.tx>> ELSE <<>>
Standing(c) == done[c] \o InWork(c) \o wqPending
AnswersInOrder ==
    \A c \in Ctx : life[c] = "open" =>
        LET s    == Standing(c)
            mine == {i \in DOMAIN s : s[i].caller = c}
        IN  /\ \A i, j \in mine : i < j => s[i].id < s[j].id
            /\ \E n \in 0 .. txCounter[c] : {s[i].id : i \in mine} = n + 1 .. txCounter[c]

\* Every request written to handle 0 is answered, or its file is closed, or
\* somebody cancels the work (STOP, or the unloading of the module) before.
RequestsAreAnswered ==
    \A x \in Tx : fate[x] = "live"
        ~> (\/ x \in Elements(done[x.caller])
            \/ fate[x] = "delivered"
            \/ life[x.caller] = "closed"
            \/ stopped)

\* Handle 0 is an RpcService too; the worker is its only server.
StatusOf(x) ==
    IF fate[x] # "live" THEN fate[x]
    ELSE IF x \in Elements(wqPending) THEN "queued"
    ELSE IF worker.at = "working" /\ worker.tx = x THEN "serving" ELSE "replied"
Rpc == INSTANCE RpcService WITH status <- [x \in Tx |-> StatusOf(x)]
RpcSpec == Rpc!Spec
=============================================================================
