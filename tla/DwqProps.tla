------------------------------ MODULE DwqProps ------------------------------
(***************************************************************************)
(* What the core of the driver (Dwq) is checked for.                       *)
(***************************************************************************)
EXTENDS Dwq

-----------------------------------------------------------------------------
(* The driver implements RpcService, whatever the programs do.             *)

StatusOf(x) ==
    IF fate[x] # "live" THEN fate[x]
    ELSE IF \E s \in Ctx : x \in Elements(pending[s]) THEN "queued"
    ELSE IF \E t \in Thread : call[t].at = "append" /\ call[t].tx = x
         THEN "queued"
    ELSE IF \E c \in Ctx : [kind |-> "reply", tx |-> x] \in Elements(done[c])
         THEN "replied"
    ELSE IF \E c \in Ctx : [kind |-> "nodev", tx |-> x] \in Elements(done[c])
         THEN "unserved"
    ELSE "serving"

Rpc == INSTANCE RpcService WITH status <- [x \in Tx |-> StatusOf(x)]

\* Every step of the driver (dwq_write, dwq_read, dwq_release) is a step of
\* the service for at most the requests it may touch: no request is taken
\* twice, answered twice, answered by REPLY before a read() took it, or
\* answered after it was called back.
RpcSpec == Rpc!Spec

-----------------------------------------------------------------------------
(* Properties that hold whatever the programs do.                          *)

\* Positions of x in the lists of the open files, and threads that hold it.
Holders(x) ==
    (UNION { {<<c, "pending", i>>    : i \in {j \in DOMAIN pending[c]    : pending[c][j] = x}}
        \cup {<<c, "dispatched", i>> : i \in {j \in DOMAIN dispatched[c] : dispatched[c][j] = x}}
        \cup {<<c, "done", i>>       : i \in {j \in DOMAIN done[c] :
                                        done[c][j].kind # "event" /\ done[c][j].tx = x}}
        : c \in Ctx })
    \cup {t \in Thread : x \in InHand(t)}

\* A transaction is a list node: it is on one list, once, or in the hands of
\* the one thread that moves it (list_del before every list_add_tail).  It is
\* nowhere once it has been freed.
OneHolder ==
    \A x \in Tx :
        Cardinality(Holders(x)) = IF fate[x] = "live" THEN 1 ELSE 0

\* The readers of c are still to be woken, by somebody who cannot miss them:
\* nobody has freed the transaction he wakes them through.
WakeDue(c) ==
    \/ \E t \in Thread : call[t].at \in {"wake", "wakeTarget"} /\ call[t].to = c
    \/ \E t \in Thread : call[t].at = "wakeCaller" /\ WokenThrough(call[t].tx) = {c}
    \/ \E s \in Ctx : \E x \in waking[s] : WokenThrough(x) = {c}

\* A read() asleep in wait_event_interruptible has nothing to read, or will be
\* woken.  Every append unlocks first and wakes afterwards, and the wake-up may
\* go astray because another reader has popped and freed the transaction it is
\* done through; but then what is left on the list has a wake-up of its own.
NoMissedWakeUp ==
    \A t \in Thread : call[t].at = "asleep" =>
        IsEmpty(FdOf[t], call[t].on) \/ WakeDue(FdOf[t])

-----------------------------------------------------------------------------
(* Properties that need programs that behave (Orderly).                    *)

\* An entry of the table points to an open file: dwq_release clears the entry
\* before it frees the context, so no write() finds a freed server there.
EntriesAreOpen ==
    \A h \in Handle : handles[h] # NoCtx =>
        life[handles[h]] \in {"open", "unregister"}

\* A file that is not inside REGISTER or UNREGISTER is a server exactly if the
\* table names it, and then under server_handle and no other handle, which is
\* all that dwq_release and UNREGISTER know of the table.
EntryKnownToServer ==
    \A c \in Ctx :
        (/\ life[c] \in {"open", "unregister"}
         /\ \A t \in Thread : FdOf[t] = c => ~Registering(t))
            => {h \in Handle : handles[h] = c}
                 = IF isServer[c] THEN {serverHandle[c]} ELSE {}

\* The answer in a done_list is to a request of the file that reads the list,
\* not of an earlier file whose context had the address (tx->caller).
AnswersReachTheCaller ==
    \A c \in Ctx : \A x \in Answered(Elements(done[c])) :
        x.caller = c /\ x.gen = gen[c]

\* No request vanishes: each is refused, on its way, or has been answered or
\* called back, unless its file was closed with the answer unread.
NothingLost == \A x \in Tx : fate[x] # "lost"

\* A request that a server has when its file is closed is answered, whoever
\* had taken it, unless its own file is closed: steps 4 and 5 of dwq_release.
CloseAnswers ==
    \A x \in Tx : \A s \in Ctx :
        (life[s] = "unregister" /\ x \in Elements(pending[s]) \cup Elements(dispatched[s]))
            ~> \/ StatusOf(x) \in {"unserved", "delivered", "abandoned"}
               \/ life[x.caller] = "closed"

\* A client that waits in read() while its done_list stays non-empty returns;
\* only another reader of the file can take what it was woken for.
WaitingOn(t, on) ==
    call[t].at \in {"check", "asleep", "pop"} /\ call[t].on = on
ReadersReturn ==
    \A t \in Thread :
        (WaitingOn(t, "done") /\ done[FdOf[t]] # <<>>)
            ~> (call[t] = Idle \/ done[FdOf[t]] = <<>>)

-----------------------------------------------------------------------------
(* Properties of files that one thread uses.                               *)

Ascending(s) ==
    \A i, j \in DOMAIN s :
        i < j /\ s[i].caller = s[j].caller /\ s[i].gen = s[j].gen
            => s[i].id < s[j].id

\* The requests of one client wait for, and are taken by, a server in the
\* order they were written: tx_ids ascend in dispatched_list and pending_list
\* together.  (The answers may come in any order.)
ServedInOrder ==
    \A s \in Ctx : life[s] \in {"open", "unregister"}
                        => Ascending(dispatched[s] \o pending[s])
=============================================================================
