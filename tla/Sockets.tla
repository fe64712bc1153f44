------------------------------- MODULE Sockets -------------------------------
(***************************************************************************)
(* src/30-question-writing-test-xianfengshangtai/jichu12.cpp and            *)
(* jichu13.cpp: a server that forks a child for every connection, which     *)
(* writes Count numbers of Width bytes each, and clients that read as many  *)
(* times up to Width bytes and print what is then in their buffer.  The     *)
(* kernel keeps the bytes of a connection in order; read() returns any      *)
(* number of those that are there.                                          *)
(***************************************************************************)
EXTENDS Integers, Sequences

CONSTANTS
    Client,     \* client processes
    Count,      \* numbers per connection: 100 in the code
    Width       \* sizeof(double): 8 in the code

VARIABLES
    server,     \* main of jichu12.cpp: "listens" or "exited"
    child,      \* the connection's child: "none", "writes", "closed"
    i,          \* its loop variable i: numbers written
    client,     \* main of jichu13.cpp: "connects", "reads", "exited"
    reads,      \* the client's loop variable
    taken,      \* bytes of the connection that it has read
    data,       \* the bytes of its variable data: <<number, place>>
    printed,    \* what it has printed
    short       \* ghost: a read came back short
vars == <<server, child, i, client, reads, taken, data, printed, short>>

\* The double n as bytes; data is 0 at first, as the first number is.
Bytes(n) == [k \in 1 .. Width |-> <<n, k>>]

Init ==
    /\ server = "listens"
    /\ child = [c \in Client |-> "none"]
    /\ client = [c \in Client |-> "connects"]
    /\ i = [c \in Client |-> 0] /\ reads = i /\ taken = i
    /\ data = [c \in Client |-> Bytes(0)]
    /\ printed = [c \in Client |-> <<>>]
    /\ short = {}

ServerOnly == UNCHANGED <<client, reads, taken, data, printed, short>>
ClientOnly == UNCHANGED <<server, child, i>>

-----------------------------------------------------------------------------
\* accept() and fork(): the child keeps the connection open, main closes its end.
\* If fork() fails nobody keeps it.
Accept(c, forked) ==
    /\ server = "listens" /\ client[c] = "reads" /\ child[c] = "none"
    /\ child' = [child EXCEPT ![c] = IF forked THEN "writes" ELSE "closed"]
    /\ UNCHANGED <<server, i>> /\ ServerOnly

\* An error of accept() ends main; the children go on.  Connections that wait to
\* be accepted are reset.
AcceptFails ==
    /\ server = "listens"
    /\ server' = "exited"
    /\ child' = [c \in Client |-> IF child[c] = "none" THEN "closed" ELSE child[c]]
    /\ UNCHANGED i /\ ServerOnly

\* One turn of str_ser: a number, or an error once the client has closed (a write
\* that the kernel still takes reaches nobody), or the end, after which the child
\* closes and exits.
WriteUpTo(c, last) ==
    /\ child[c] = "writes"
    /\ IF i[c] = last \/ client[c] = "exited"
       THEN child' = [child EXCEPT ![c] = "closed"] /\ UNCHANGED i
       ELSE i' = [i EXCEPT ![c] = @ + 1] /\ UNCHANGED child
    /\ UNCHANGED server /\ ServerOnly

\* Mutant of Write: the loop ends a turn too early.
WriteOneLess(c) == WriteUpTo(c, Count - 1)

Write(c) == WriteUpTo(c, Count)

\* connect(): refused when nobody listens
Connect(c) ==
    /\ client[c] = "connects"
    /\ client' = [client EXCEPT ![c] = IF server = "listens" THEN "reads" ELSE "exited"]
    /\ UNCHANGED <<reads, taken, data, printed, short>> /\ ClientOnly

Ready(c) == i[c] * Width - taken[c]
Byte(t) == <<t \div Width, (t % Width) + 1>>

\* read() overwrites the first n bytes of data; all of data is printed.
ReadBytes(c, n, got) ==
    /\ client[c] = "reads" /\ reads[c] < Count
    /\ data' = [data EXCEPT ![c] = [k \in 1 .. Width |-> IF k <= n THEN got[k] ELSE @[k]]]
    /\ printed' = [printed EXCEPT ![c] = Append(@, data'[c])]
    /\ taken' = [taken EXCEPT ![c] = @ + n]
    /\ reads' = [reads EXCEPT ![c] = @ + 1]
    /\ short' = IF n < Width THEN short \cup {c} ELSE short
    /\ UNCHANGED client /\ ClientOnly

Read(c) ==
    \E n \in 1 .. Width :
        n <= Ready(c) /\ ReadBytes(c, n, [k \in 1 .. n |-> Byte(taken[c] + k - 1)])

\* Mutant of Leave: the end of the connection does not end the loop.
LeaveWhenDone(c) ==
    /\ client[c] = "reads"
    /\ reads[c] = Count
    /\ client' = [client EXCEPT ![c] = "exited"]
    /\ UNCHANGED <<reads, taken, data, printed, short>> /\ ClientOnly

\* No turn is left, or read() returns 0 or an error: the client closes and exits.
Leave(c) ==
    /\ client[c] = "reads"
    /\ reads[c] = Count \/ (child[c] = "closed" /\ Ready(c) = 0)
    /\ client' = [client EXCEPT ![c] = "exited"]
    /\ UNCHANGED <<reads, taken, data, printed, short>> /\ ClientOnly

Next ==
    \/ AcceptFails
    \/ \E c \in Client :
          \/ \E forked \in BOOLEAN : Accept(c, forked)
          \/ Write(c)
          \/ Connect(c)
          \/ Read(c)
          \/ Leave(c)

Spec == Init /\ [][Next]_vars

-----------------------------------------------------------------------------
\* As long as every read has returned a whole number a client prints the numbers
\* from 0 on, and all of them unless its child never was; after a short read it
\* may print anything, but it gives up early only when it has read all there was.
NumbersAreWhole ==
    \A c \in Client :
        /\ c \notin short =>
              /\ printed[c] = [k \in 1 .. reads[c] |-> Bytes(k - 1)]
              /\ client[c] = "exited" => reads[c] \in {0, Count}
        /\ (client[c] = "exited" /\ reads[c] < Count) => taken[c] = i[c] * Width

\* Every client ends.
ClientsEnd == <>(\A c \in Client : client[c] = "exited")
=============================================================================
