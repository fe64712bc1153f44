------------------------------- MODULE ShmRpc -------------------------------
(***************************************************************************)
(* The shared-memory protocol of dwq_client.c and dwq_server.c: one page,  *)
(* mapped by every process (dwq_mmap), no lock, no system call on the way.  *)
(* A client fills in a request, increments seq and sets state to PENDING;   *)
(* the server polls for PENDING with a seq it has not seen, answers after a *)
(* second and sets DONE; the client polls for DONE for five seconds.        *)
(*                                                                          *)
(* Each load and store of the page is a step of its own, in program order:  *)
(* both programs are compiled without optimisation, and both put a barrier  *)
(* before the store to state and before each poll of it.  A process can be  *)
(* interrupted between any two.                                             *)
(***************************************************************************)
EXTENDS Naturals, Sequences

CONSTANTS
    Client,     \* runs of dwq_client
    Nobody,     \* no client
    SeqMod,     \* the values of seq, 2^32
    MaxStarts   \* bound: how often dwq_server is started

ASSUME ConstantsAssumption ==
    /\ Nobody \notin Client
    /\ SeqMod \in Nat \ {0, 1}
    /\ MaxStarts \in Nat

VARIABLES
    seq, state, \* words of the page
    request,    \* cmd and data: whose they are
    replyData,  \* reply_data: the seq and cmd the text names, or Empty
    client,     \* client[c]: where the client is
    tmp,        \* tmp[c]: seq as the client loaded it for seq++
    got,        \* got[c]: the reply it printed
    server,     \* where the server is
    lastSeq,    \* last_seq
    named,      \* the seq the server's reply will name
    starts,     \* how often the server was started
    taken,      \* ghost: the seqs taken, and by which run of the server
    gaveUp,     \* ghost: some client has timed out
    ready       \* ghost: the clients whose request the server, as it runs now,
                \* was there to see published
page == <<seq, state, request, replyData>>
vars == <<page, client, tmp, got, server, lastSeq, named, starts, taken, gaveUp,
          ready>>

SeqNo == 0 .. SeqMod - 1
Empty == [seq |-> 0, cmd |-> Nobody]    \* reply_data[0] = '\0'
Reply == [seq : SeqNo, cmd : Client \cup {Nobody}]

TypeOK ==
    /\ seq \in SeqNo
    /\ state \in {"IDLE", "PENDING", "DONE"}
    /\ request \in Client \cup {Nobody}
    /\ replyData \in Reply
    /\ client \in [Client -> {"new", "clear", "load", "store", "publish", "poll",
                              "final", "read", "reset", "ended"}]
    /\ tmp \in [Client -> SeqNo]
    /\ got \in [Client -> Reply]
    /\ server \in {"down", "poll", "test", "take", "answer", "write", "done"}
    /\ lastSeq \in SeqNo /\ named \in SeqNo
    /\ starts \in 0 .. MaxStarts
    /\ taken \in Seq([run : 1 .. MaxStarts, seq : SeqNo])
    /\ gaveUp \in BOOLEAN
    /\ ready \in SUBSET Client

\* The page is allocated zeroed by dwq_init.
Init ==
    /\ seq = 0 /\ state = "IDLE" /\ request = Nobody /\ replyData = Empty
    /\ client = [c \in Client |-> "new"]
    /\ tmp = [c \in Client |-> 0]
    /\ got = [c \in Client |-> Empty]
    /\ server = "down" /\ lastSeq = 0 /\ named = 0 /\ starts = 0
    /\ taken = <<>>
    /\ gaveUp = FALSE
    /\ ready = {}

-----------------------------------------------------------------------------
(* dwq_client                                                              *)

Serving == <<server, lastSeq, named, starts, taken, ready>>

Go(c, from, to) ==
    /\ client[c] = from
    /\ client' = [client EXCEPT ![c] = to]

Fill(c) ==
    /\ Go(c, "new", "clear")
    /\ request' = c
    /\ UNCHANGED <<seq, state, replyData, tmp, got, Serving, gaveUp>>

ClearReply(c) ==
    /\ Go(c, "clear", "load")
    /\ replyData' = Empty
    /\ UNCHANGED <<seq, state, request, tmp, got, Serving, gaveUp>>

\* seq++ is a load and a store.
LoadSeq(c) ==
    /\ Go(c, "load", "store")
    /\ tmp' = [tmp EXCEPT ![c] = seq]
    /\ UNCHANGED <<page, got, Serving, gaveUp>>

StoreSeq(c) ==
    /\ Go(c, "store", "publish")
    /\ seq' = (tmp[c] + 1) % SeqMod
    /\ UNCHANGED <<state, request, replyData, tmp, got, Serving, gaveUp>>

\* Mutant of Publish: the state is not set.
PublishNothing(c) ==
    /\ Go(c, "publish", "poll")
    /\ ready' = IF server = "down" THEN ready ELSE ready \cup {c}
    /\ UNCHANGED <<page, tmp, got, server, lastSeq, named, starts, taken, gaveUp>>

Publish(c) ==
    /\ Go(c, "publish", "poll")
    /\ state' = "PENDING"
    /\ ready' = IF server = "down" THEN ready ELSE ready \cup {c}
    /\ UNCHANGED <<seq, request, replyData, tmp, got, server, lastSeq, named, starts,
                   taken, gaveUp>>

\* The loop ends because state is DONE, or after five seconds, ...
SeeDone(c) ==
    /\ state = "DONE"
    /\ Go(c, "poll", "final")
    /\ UNCHANGED <<page, tmp, got, Serving, gaveUp>>

TimeOut(c) ==
    /\ state # "DONE"
    /\ Go(c, "poll", "final")
    /\ UNCHANGED <<page, tmp, got, Serving, gaveUp>>

\* ... and in both cases state is tested once more.
Final(c) ==
    /\ Go(c, "final", IF state = "DONE" THEN "read" ELSE "ended")
    /\ gaveUp' = (gaveUp \/ state # "DONE")
    /\ UNCHANGED <<page, tmp, got, Serving>>

ReadReply(c) ==
    /\ Go(c, "read", "reset")
    /\ got' = [got EXCEPT ![c] = replyData]
    /\ UNCHANGED <<page, tmp, Serving, gaveUp>>

ResetState(c) ==
    /\ Go(c, "reset", "ended")
    /\ state' = "IDLE"
    /\ UNCHANGED <<seq, request, replyData, tmp, got, Serving, gaveUp>>

-----------------------------------------------------------------------------
(* dwq_server                                                              *)

Asking == <<client, tmp, got, gaveUp, ready>>

Start ==
    /\ server = "down"
    /\ starts < MaxStarts
    /\ server' = "poll" /\ lastSeq' = 0
    /\ starts' = starts + 1
    /\ UNCHANGED <<page, Asking, named, taken>>

\* The server loops for ever; only a signal ends it.
Kill ==
    /\ server # "down"
    /\ server' = "down"
    /\ ready' = {}
    /\ UNCHANGED <<page, client, tmp, got, gaveUp, lastSeq, named, starts, taken>>

Poll ==
    /\ server = "poll" /\ state = "PENDING"
    /\ server' = "test"
    /\ UNCHANGED <<page, Asking, lastSeq, named, starts, taken>>

TestSeq ==
    /\ server = "test"
    /\ server' = IF seq # lastSeq THEN "take" ELSE "poll"
    /\ UNCHANGED <<page, Asking, lastSeq, named, starts, taken>>

\* Mutant of Take: last_seq is not updated.
TakeForgets ==
    /\ server = "take"
    /\ server' = "answer"
    /\ taken' = Append(taken, [run |-> starts, seq |-> seq])
    /\ UNCHANGED <<page, Asking, lastSeq, named, starts>>

\* last_seq = shm->seq loads seq again.
Take ==
    /\ server = "take"
    /\ server' = "answer"
    /\ lastSeq' = seq
    /\ taken' = Append(taken, [run |-> starts, seq |-> seq])
    /\ UNCHANGED <<page, Asking, named, starts>>

\* After the second of processing: the reply is made of what the page holds
\* now, not of what was taken.
Answer ==
    /\ server = "answer"
    /\ server' = "write"
    /\ named' = seq
    /\ UNCHANGED <<page, Asking, lastSeq, starts, taken>>

\* Mutant of WriteReply: the store to state comes before the text.
WriteReplyLate ==
    /\ server = "write"
    /\ server' = "done"
    /\ state' = "DONE"
    /\ UNCHANGED <<seq, request, replyData, Asking, lastSeq, named, starts, taken>>

WriteReply ==
    /\ server = "write"
    /\ server' = "done"
    /\ replyData' = [seq |-> named, cmd |-> request]
    /\ UNCHANGED <<seq, state, request, Asking, lastSeq, named, starts, taken>>

SetDone ==
    /\ server = "done"
    /\ server' = "poll"
    /\ state' = "DONE"
    /\ UNCHANGED <<seq, request, replyData, Asking, lastSeq, named, starts, taken>>

-----------------------------------------------------------------------------
Waits(c) == SeeDone(c) \/ TimeOut(c)
Runs(c) ==
    \/ ClearReply(c) \/ LoadSeq(c) \/ StoreSeq(c) \/ Publish(c)
    \/ Waits(c) \/ Final(c) \/ ReadReply(c) \/ ResetState(c)
Serve == Poll \/ TestSeq \/ Take \/ Answer \/ WriteReply \/ SetDone

Next ==
    \/ \E c \in Client : Fill(c) \/ Runs(c)
    \/ Start \/ Kill \/ Serve

Spec == Init /\ [][Next]_vars

\* Clients are run one after the other.
OneAtATime ==
    \A c \in Client : client[c] = "new" /\ client'[c] # "new"
        => \A d \in Client \ {c} : client[d] \in {"new", "ended"}

CarefulSpec == Init /\ [][Next /\ OneAtATime]_vars

\* Five seconds are more than the server needs for the request it is at, the
\* one before included: a client that the running server was there to see
\* publish times out only if that server has nothing to do.  A server started
\* while the client waits may well be too late.
Busy ==
    \/ server \notin {"down", "poll"}
    \/ server = "poll" /\ state = "PENDING" /\ seq # lastSeq
PromptServer ==
    \A c \in ready : client[c] = "poll" /\ client'[c] = "final" /\ state # "DONE"
        => ~Busy

\* A client that has begun runs on, and the server while it is up.
FairCarefulSpec ==
    /\ Init /\ [][Next /\ OneAtATime /\ PromptServer]_vars
    /\ \A c \in Client : WF_vars(Runs(c) /\ PromptServer)
    /\ WF_vars(Serve)

-----------------------------------------------------------------------------
\* One run of the server takes a request once, although it looks at state and
\* seq in three loads: the number it has taken keeps it from taking it again
\* when the client publishes it after that.
TakenOnce ==
    \A i, j \in 1 .. Len(taken) : i # j => taken[i] # taken[j]

\* The number client c stored.
OwnSeq(c) == (tmp[c] + 1) % SeqMod

\* Unless a client has given up before, a client that has a reply has its own:
\* the text names its seq and its cmd.
RepliesMatch ==
    ~gaveUp => \A c \in Client :
        client[c] = "ended" => got[c] = [seq |-> OwnSeq(c), cmd |-> c]

\* A client that reads a reply has been seen by the server.
SeenBeforeDone ==
    \A c \in Client : client[c] \in {"read", "reset"} =>
        \E i \in 1 .. Len(taken) : taken[i].seq = OwnSeq(c)

\* A client that publishes its request while the server is up prints its reply,
\* unless the server is killed or an earlier client has given up.  (After 2^32
\* requests one has the seq 0, and a server just started takes that for one it
\* has seen.)
RequestsAreAnswered ==
    \A c \in Client :
        (client[c] = "poll" /\ c \in ready /\ seq # 0 /\ ~gaveUp)
            ~> (client[c] = "reset" \/ server = "down")
=============================================================================
