---------------------------- MODULE ShmRpcProofs ----------------------------
(***************************************************************************)
(* Proofs about ShmRpc, for any number of clients and any width of seq: the *)
(* types, for processes that run as they like, and what the protocol gives  *)
(* when the clients are run one after the other.                            *)
(***************************************************************************)
EXTENDS ShmRpc, SequenceTheorems, FiniteSetTheorems, TLAPS

-----------------------------------------------------------------------------
(* Type correctness.                                                        *)

\* A server that is up has been started.
UpIsStarted == server # "down" => starts > 0

LEMMA SeqNoFacts ==
  /\ 0 \in SeqNo
  /\ \A n \in Nat : n % SeqMod \in SeqNo
  /\ \A n \in SeqNo : n \in Nat
BY ConstantsAssumption DEF SeqNo

\* Types of the page and of what dwq_client and dwq_server keep in variables.
THEOREM TypeCorrect == Spec => [](TypeOK /\ UpIsStarted)
<1> DEFINE Entry == [run : 1 .. MaxStarts, seq : SeqNo]
<1>1. Init => TypeOK /\ UpIsStarted
  <2> SUFFICES ASSUME Init PROVE TypeOK /\ UpIsStarted
    OBVIOUS
  <2>1. Empty \in Reply
    BY SeqNoFacts DEF Empty, Reply
  <2>2. <<>> \in Seq(Entry)
    BY EmptySeq
  <2>3. seq \in SeqNo /\ lastSeq \in SeqNo /\ named \in SeqNo /\ tmp \in [Client -> SeqNo]
    BY SeqNoFacts DEF Init
  <2>4. starts \in 0 .. MaxStarts
    BY ConstantsAssumption DEF Init
  <2>5. replyData \in Reply /\ got \in [Client -> Reply]
    BY <2>1 DEF Init
  <2>6. taken \in Seq(Entry)
    BY <2>2 DEF Init
  <2> QED BY <2>3, <2>4, <2>5, <2>6 DEF Init, TypeOK, UpIsStarted
<1>2. TypeOK /\ UpIsStarted /\ [Next]_vars => TypeOK' /\ UpIsStarted'
  <2> SUFFICES ASSUME TypeOK, UpIsStarted, [Next]_vars PROVE TypeOK' /\ UpIsStarted'
    OBVIOUS
  <2> USE DEF TypeOK, UpIsStarted
  <2>1. ASSUME NEW c \in Client, Fill(c) PROVE TypeOK' /\ UpIsStarted'
    BY <2>1 DEF Fill, Go, Serving
  <2>2. ASSUME NEW c \in Client, ClearReply(c) PROVE TypeOK' /\ UpIsStarted'
    <3>1. Empty \in Reply
      BY SeqNoFacts DEF Empty, Reply
    <3> QED BY <2>2, <3>1 DEF ClearReply, Go, Serving
  <2>3. ASSUME NEW c \in Client, LoadSeq(c) PROVE TypeOK' /\ UpIsStarted'
    BY <2>3 DEF LoadSeq, Go, Serving, page
  <2>4. ASSUME NEW c \in Client, StoreSeq(c) PROVE TypeOK' /\ UpIsStarted'
    <3>1. (tmp[c] + 1) % SeqMod \in SeqNo
      BY SeqNoFacts
    <3> QED BY <2>4, <3>1 DEF StoreSeq, Go, Serving
  <2>5. ASSUME NEW c \in Client, Publish(c) PROVE TypeOK' /\ UpIsStarted'
    BY <2>5 DEF Publish, Go, Serving
  <2>6. ASSUME NEW c \in Client, Waits(c) PROVE TypeOK' /\ UpIsStarted'
    BY <2>6 DEF Waits, SeeDone, TimeOut, Go, Serving, page
  <2>7. ASSUME NEW c \in Client, Final(c) PROVE TypeOK' /\ UpIsStarted'
    BY <2>7 DEF Final, Go, Serving, page
  <2>8. ASSUME NEW c \in Client, ReadReply(c) PROVE TypeOK' /\ UpIsStarted'
    BY <2>8 DEF ReadReply, Go, Serving, page
  <2>9. ASSUME NEW c \in Client, ResetState(c) PROVE TypeOK' /\ UpIsStarted'
    BY <2>9 DEF ResetState, Go, Serving
  <2>10. ASSUME Start PROVE TypeOK' /\ UpIsStarted'
    <3>1. starts' \in 0 .. MaxStarts /\ starts' > 0
      BY <2>10, ConstantsAssumption DEF Start
    <3>2. lastSeq' \in SeqNo
      BY <2>10, SeqNoFacts DEF Start
    <3> QED BY <2>10, <3>1, <3>2 DEF Start, Asking, page
  <2>11. ASSUME Kill \/ Poll \/ TestSeq \/ Answer PROVE TypeOK' /\ UpIsStarted'
    BY <2>11 DEF Kill, Poll, TestSeq, Answer, Asking, page
  <2>12. ASSUME Take PROVE TypeOK' /\ UpIsStarted'
    <3>1. [run |-> starts, seq |-> seq] \in Entry
      BY <2>12, ConstantsAssumption DEF Take
    <3>2. taken' \in Seq(Entry)
      BY <2>12, <3>1, AppendProperties DEF Take
    <3> QED BY <2>12, <3>2 DEF Take, Asking, page
  <2>13. ASSUME WriteReply PROVE TypeOK' /\ UpIsStarted'
    BY <2>13 DEF WriteReply, Asking, Reply
  <2>14. ASSUME SetDone PROVE TypeOK' /\ UpIsStarted'
    BY <2>14 DEF SetDone, Asking
  <2>15. ASSUME UNCHANGED vars PROVE TypeOK' /\ UpIsStarted'
    BY <2>15 DEF vars, page
  <2> QED
    BY <2>1, <2>2, <2>3, <2>4, <2>5, <2>6, <2>7, <2>8, <2>9, <2>10, <2>11, <2>12,
       <2>13, <2>14, <2>15 DEF Next, Runs, Serve
<1> QED BY <1>1, <1>2, PTL DEF Spec

\* Clients that are run one after the other are clients.
LEMMA CarefulIsSpec == CarefulSpec => Spec
<1>1. [Next /\ OneAtATime]_vars => [Next]_vars
  OBVIOUS
<1> QED BY <1>1, PTL DEF CarefulSpec, Spec

-----------------------------------------------------------------------------
(* One client at a time.                                                    *)

Active(c) == client[c] \notin {"new", "ended"}
OneActive == \A c, d \in Client : Active(c) /\ Active(d) => c = d

LEMMA OneActiveInvariant == CarefulSpec => []OneActive
<1>1. Init => OneActive
  BY DEF Init, OneActive, Active
<1>2. TypeOK /\ OneActive /\ [Next /\ OneAtATime]_vars => OneActive'
  <2> SUFFICES ASSUME TypeOK, OneActive, [Next /\ OneAtATime]_vars
               PROVE  OneActive'
    OBVIOUS
  <2>1. CASE client' = client
    BY <2>1 DEF OneActive, Active
  <2>2. CASE Next /\ OneAtATime /\ client' # client
    <3>1. PICK c \in Client : Fill(c) \/ Runs(c)
      BY <2>2 DEF Next, Start, Kill, Serve, Poll, TestSeq, Take, Answer, WriteReply,
                  SetDone, Asking
    <3>2. CASE Fill(c)
      <4>1. client[c] = "new" /\ client' = [client EXCEPT ![c] = "clear"]
        BY <3>2 DEF Fill, Go
      <4>2. \A d \in Client \ {c} : client[d] \in {"new", "ended"}
        BY <2>2, <4>1 DEF OneAtATime, TypeOK
      <4> QED BY <4>1, <4>2 DEF OneActive, Active, TypeOK
    <3>3. CASE Runs(c)
      <4>1. Active(c) /\ \E to : client' = [client EXCEPT ![c] = to]
        BY <3>3 DEF Runs, ClearReply, LoadSeq, StoreSeq, Publish, Waits, SeeDone, TimeOut,
                    Final, ReadReply, ResetState, Go, Active
      <4> QED BY <4>1 DEF OneActive, Active, TypeOK
    <3> QED BY <3>1, <3>2, <3>3
  <2> QED BY <2>1, <2>2 DEF vars
<1> QED BY <1>1, <1>2, TypeCorrect, CarefulIsSpec, PTL DEF CarefulSpec

-----------------------------------------------------------------------------
(* The inductive invariant behind RepliesMatch.                             *)

Before  == {"clear", "load", "store", "publish"}
Waiting == {"poll", "final", "read", "reset"}

\* The text that belongs to client c.
OwnReply(c) == [seq |-> OwnSeq(c), cmd |-> c]

\* The page is nobody's, or still being filled in: the server leaves it alone.
Quiet == state = "IDLE" /\ server \in {"down", "poll"}

\* The request on the page is c's until the server has set DONE, and the reply
\* is c's from then on.
Answering(c) ==
    /\ request = c /\ seq = OwnSeq(c)
    /\ \/ /\ state = "PENDING"
          /\ server = "write" => named = seq
          /\ server = "done" => replyData = OwnReply(c)
       \/ /\ state = "DONE" /\ server \in {"down", "poll"}
          /\ replyData = OwnReply(c)

PageInv ==
    /\ (\A c \in Client : client[c] \notin Waiting) => Quiet
    /\ \A c \in Client :
          /\ client[c] \in Before => request = c
          /\ client[c] = "publish" => seq = OwnSeq(c)
          /\ client[c] \in Waiting => Answering(c)
          /\ client[c] \in {"read", "reset"} => state = "DONE"
          /\ client[c] \in {"reset", "ended"} => got[c] = OwnReply(c)

\* Until a client gives up.
ReplyInv == ~gaveUp => PageInv

LEMMA PageInvInit == Init => ReplyInv
BY DEF Init, ReplyInv, PageInv, Quiet, Waiting, Before

\* What a client does to the page is what its place in the program allows.
LEMMA ClientPage ==
  ASSUME TypeOK, OneActive, OneActive', PageInv, ~gaveUp', NEW c \in Client,
         Fill(c) \/ Runs(c)
  PROVE  PageInv'
<1> USE DEF TypeOK
<1>1. ASSUME NEW d \in Client, d # c, client[c] \notin {"new", "ended"}
      PROVE  client[d] \in {"new", "ended"}
  BY <1>1 DEF OneActive, Active
<1>2. ASSUME NEW d \in Client, d # c, client'[c] \notin {"new", "ended"}
      PROVE  client'[d] \in {"new", "ended"}
  BY <1>2 DEF OneActive, Active
\* The others are not on the way, and what they got stays.
<1>3. ASSUME \A d \in Client : d # c => client'[d] = client[d] /\ got'[d] = got[d]
                                       /\ tmp'[d] = tmp[d],
             \A d \in Client : d # c => client'[d] \in {"new", "ended"}
      PROVE  \A d \in Client : d # c =>
               /\ client'[d] \notin Before /\ client'[d] # "publish" /\ client'[d] \notin Waiting
               /\ client'[d] \in {"reset", "ended"} => got'[d] = OwnReply(d)'
  BY <1>3 DEF Before, Waiting, PageInv, OwnReply, OwnSeq
<1>4. CASE Fill(c)
  <2>1. client[c] = "new" /\ client' = [client EXCEPT ![c] = "clear"]
        /\ request' = c /\ UNCHANGED <<seq, state, tmp, got, server>>
    BY <1>4 DEF Fill, Go, Serving
  <2>2. client'[c] = "clear" /\ \A d \in Client : d # c => client'[d] = client[d]
    BY <2>1
  <2>3. \A d \in Client : d # c => client'[d] \in {"new", "ended"}
    BY <2>2, <1>2
  <2>4. Quiet
    <3>1. \A d \in Client : client[d] \notin Waiting
      BY <2>1, <2>2, <2>3 DEF Waiting
    <3> QED BY <3>1 DEF PageInv
  <2> QED BY <2>1, <2>2, <2>3, <2>4, <1>3 DEF PageInv, Quiet, Waiting, Before
<1>5. CASE ClearReply(c) \/ LoadSeq(c)
  <2>1. PICK to \in {"load", "store"} :
          client[c] \in {"clear", "load"} /\ client' = [client EXCEPT ![c] = to]
    BY <1>5 DEF ClearReply, LoadSeq, Go
  <2>2. UNCHANGED <<state, request, got, server>>
        /\ \A d \in Client : d # c => tmp'[d] = tmp[d]
    BY <1>5 DEF ClearReply, LoadSeq, Serving, page
  <2>3. client'[c] = to /\ \A d \in Client : d # c => client'[d] = client[d]
    BY <2>1
  <2>4. \A d \in Client : d # c => client'[d] \in {"new", "ended"}
    BY <2>1, <2>3, <1>1
  <2>5. Quiet
    <3>1. \A d \in Client : client[d] \notin Waiting
      BY <2>1, <2>3, <2>4 DEF Waiting
    <3> QED BY <3>1 DEF PageInv
  <2>6. request = c
    BY <2>1 DEF PageInv, Before
  <2> QED BY <2>1, <2>2, <2>3, <2>4, <2>5, <2>6, <1>3 DEF PageInv, Quiet, Waiting, Before
<1>6. CASE StoreSeq(c)
  <2>1. client[c] = "store" /\ client' = [client EXCEPT ![c] = "publish"]
        /\ seq' = (tmp[c] + 1) % SeqMod
        /\ UNCHANGED <<state, request, tmp, got, server>>
    BY <1>6 DEF StoreSeq, Go, Serving
  <2>2. client'[c] = "publish" /\ \A d \in Client : d # c => client'[d] = client[d]
    BY <2>1
  <2>3. \A d \in Client : d # c => client'[d] \in {"new", "ended"}
    BY <2>1, <2>2, <1>1
  <2>4. Quiet
    <3>1. \A d \in Client : client[d] \notin Waiting
      BY <2>1, <2>2, <2>3 DEF Waiting
    <3> QED BY <3>1 DEF PageInv
  <2>5. request = c
    BY <2>1 DEF PageInv, Before
  <2>6. seq' = OwnSeq(c)'
    BY <2>1 DEF OwnSeq
  <2> QED BY <2>1, <2>2, <2>3, <2>4, <2>5, <2>6, <1>3 DEF PageInv, Quiet, Waiting, Before
<1>7. CASE Publish(c)
  <2>1. client[c] = "publish" /\ client' = [client EXCEPT ![c] = "poll"]
        /\ state' = "PENDING" /\ UNCHANGED <<seq, request, replyData, tmp, got, server, named>>
    BY <1>7 DEF Publish, Go, Serving
  <2>2. client'[c] = "poll" /\ \A d \in Client : d # c => client'[d] = client[d]
    BY <2>1
  <2>3. \A d \in Client : d # c => client'[d] \in {"new", "ended"}
    BY <2>1, <2>2, <1>1
  <2>4. Quiet
    <3>1. \A d \in Client : client[d] \notin Waiting
      BY <2>1, <2>2, <2>3 DEF Waiting
    <3> QED BY <3>1 DEF PageInv
  <2>5. request = c /\ seq = OwnSeq(c)
    BY <2>1 DEF PageInv, Before
  <2>6. Answering(c)'
    BY <2>1, <2>4, <2>5 DEF Answering, Quiet, OwnSeq
  <2> QED BY <2>1, <2>2, <2>3, <2>5, <2>6, <1>3 DEF PageInv, Waiting, Before
\* From here on the client changes nothing that Answering speaks of.
<1>8. ASSUME NEW from \in Waiting, NEW to \in Waiting,
             client[c] = from, client' = [client EXCEPT ![c] = to],
             UNCHANGED <<page, tmp, server, named>>,
             \A d \in Client : d # c => got'[d] = got[d],
             to \in {"read", "reset"} => state = "DONE",
             to = "reset" => got'[c] = replyData
      PROVE  PageInv'
  <2>1. client'[c] = to /\ \A d \in Client : d # c => client'[d] = client[d]
    BY <1>8
  <2>2. \A d \in Client : d # c => client'[d] \in {"new", "ended"}
    BY <1>8, <2>1, <1>1 DEF Waiting
  <2>3. Answering(c)
    BY <1>8 DEF PageInv
  <2>4. Answering(c)'
    BY <1>8, <2>3 DEF Answering, OwnSeq, OwnReply, page
  <2>5. state = "DONE" => replyData = OwnReply(c)
    BY <2>3 DEF Answering
  <2>6. OwnReply(c)' = OwnReply(c)
    BY <1>8 DEF OwnReply, OwnSeq
  <2>7. client'[c] \in {"reset", "ended"} => got'[c] = OwnReply(c)'
    BY <1>8, <2>1, <2>5, <2>6 DEF Waiting
  <2>8. client'[c] \notin Before /\ client'[c] # "publish"
    BY <2>1, <1>8 DEF Waiting, Before
  <2>9. \A d \in Client : d # c => tmp'[d] = tmp[d]
    BY <1>8
  <2>10. state' = state
    BY <1>8 DEF page
  <2> QED BY <1>3, <1>8, <2>1, <2>2, <2>4, <2>7, <2>8, <2>9, <2>10 DEF PageInv
<1>9. CASE Waits(c)
  <2>1. client[c] = "poll" /\ client' = [client EXCEPT ![c] = "final"]
        /\ UNCHANGED <<page, tmp, got, server, named>>
    BY <1>9 DEF Waits, SeeDone, TimeOut, Go, Serving
  <2> QED BY <2>1, <1>8 DEF Waiting
<1>10. CASE Final(c)
  <2>1. state = "DONE"
    BY <1>10 DEF Final
  <2>2. client[c] = "final" /\ client' = [client EXCEPT ![c] = "read"]
        /\ UNCHANGED <<page, tmp, got, server, named>>
    BY <1>10, <2>1 DEF Final, Go, Serving
  <2> QED BY <2>1, <2>2, <1>8 DEF Waiting
<1>11. CASE ReadReply(c)
  <2>1. client[c] = "read" /\ client' = [client EXCEPT ![c] = "reset"]
        /\ got' = [got EXCEPT ![c] = replyData]
        /\ UNCHANGED <<page, tmp, server, named>>
    BY <1>11 DEF ReadReply, Go, Serving
  <2>2. state = "DONE"
    BY <2>1 DEF PageInv
  <2>3. got'[c] = replyData /\ \A d \in Client : d # c => got'[d] = got[d]
    BY <2>1
  <2> QED BY <2>1, <2>2, <2>3, <1>8 DEF Waiting
<1>12. CASE ResetState(c)
  <2>1. client[c] = "reset" /\ client' = [client EXCEPT ![c] = "ended"]
        /\ state' = "IDLE" /\ UNCHANGED <<seq, request, tmp, got, server>>
    BY <1>12 DEF ResetState, Go, Serving
  <2>2. client'[c] = "ended" /\ \A d \in Client : d # c => client'[d] = client[d]
    BY <2>1
  <2>3. \A d \in Client : d # c => client'[d] \in {"new", "ended"}
    BY <2>1, <2>2, <1>1
  <2>4. state = "DONE" /\ Answering(c) /\ got[c] = OwnReply(c)
    BY <2>1 DEF PageInv, Waiting
  <2>5. Quiet'
    BY <2>1, <2>4 DEF Quiet, Answering
  <2>6. got'[c] = OwnReply(c)'
    BY <2>1, <2>4 DEF OwnReply, OwnSeq
  <2> QED BY <2>1, <2>2, <2>3, <2>5, <2>6, <1>3 DEF PageInv, Waiting, Before
<1> QED BY <1>4, <1>5, <1>6, <1>7, <1>9, <1>10, <1>11, <1>12 DEF Runs

\* What the server does to the page it does for the client that waits.
LEMMA ServerPage ==
  ASSUME TypeOK, PageInv, Start \/ Kill \/ Serve
  PROVE  PageInv'
<1> USE DEF TypeOK
<1>1. UNCHANGED <<client, tmp, got, seq, request>>
  BY DEF Start, Kill, Serve, Poll, TestSeq, Take, Answer, WriteReply, SetDone, Asking, page
<1>2. \A c \in Client : OwnReply(c)' = OwnReply(c) /\ OwnSeq(c)' = OwnSeq(c)
  BY <1>1 DEF OwnReply, OwnSeq
<1>3. SUFFICES /\ (\A c \in Client : client[c] \notin Waiting) => Quiet'
               /\ \A c \in Client : client[c] \in Waiting => Answering(c)'
               /\ \A c \in Client : client[c] \in {"read", "reset"} => state' = "DONE"
  BY <1>1, <1>2 DEF PageInv
<1>4. ASSUME Quiet PROVE Quiet'
  BY <1>4 DEF Quiet, Start, Kill, Serve, Poll, TestSeq, Take, Answer, WriteReply, SetDone, page
<1>5. ASSUME NEW c \in Client, Answering(c)
      PROVE  Answering(c)' /\ (state = "DONE" => state' = "DONE")
  <2>1. request' = c /\ seq' = OwnSeq(c)'
    BY <1>1, <1>2, <1>5 DEF Answering
  <2>2. CASE state = "DONE"
    <3>1. server \in {"down", "poll"} /\ replyData = OwnReply(c)
      BY <2>2, <1>5 DEF Answering
    <3>2. state' = "DONE" /\ server' \in {"down", "poll"} /\ replyData' = replyData
      BY <2>2, <3>1 DEF Start, Kill, Serve, Poll, TestSeq, Take, Answer, WriteReply, SetDone, page
    <3> QED BY <2>1, <3>1, <3>2, <1>2 DEF Answering
  <2>3. CASE state = "PENDING"
    <3>1. /\ server = "write" => named = seq
          /\ server = "done" => replyData = OwnReply(c)
          /\ request = c /\ seq = OwnSeq(c)
      BY <2>3, <1>5 DEF Answering
    <3>2. CASE Start \/ Kill \/ Poll \/ TestSeq \/ Take
      BY <2>1, <2>3, <3>2 DEF Answering, Start, Kill, Poll, TestSeq, Take, page
    <3>3. CASE Answer
      BY <2>1, <2>3, <3>3 DEF Answering, Answer, page
    <3>4. CASE WriteReply
      <4>1. replyData' = OwnReply(c)
        BY <3>1, <3>4 DEF WriteReply, OwnReply
      <4> QED BY <2>1, <2>3, <3>4, <4>1, <1>2 DEF Answering, WriteReply
    <3>5. CASE SetDone
      BY <2>1, <2>3, <3>1, <3>5, <1>2 DEF Answering, SetDone
    <3> QED BY <2>3, <3>2, <3>3, <3>4, <3>5 DEF Serve
  <2> QED BY <2>2, <2>3, <1>5 DEF Answering
<1> QED BY <1>4, <1>5 DEF PageInv, Waiting

LEMMA ReplyInvariant == CarefulSpec => []ReplyInv
<1>1. /\ TypeOK /\ OneActive /\ OneActive' /\ ReplyInv
      /\ [Next /\ OneAtATime]_vars
      => ReplyInv'
  <2> SUFFICES ASSUME TypeOK, OneActive, OneActive', ReplyInv, [Next]_vars, ~gaveUp'
               PROVE  PageInv'
    BY DEF ReplyInv
  <2>1. ~gaveUp
    BY DEF Next, Fill, Runs, ClearReply, LoadSeq, StoreSeq, Publish, Waits, SeeDone, TimeOut,
           Final, ReadReply, ResetState, Start, Kill, Serve, Poll, TestSeq, Take, Answer,
           WriteReply, SetDone, Asking, vars
  <2>2. PageInv
    BY <2>1 DEF ReplyInv
  <2>3. CASE UNCHANGED vars
    BY <2>2, <2>3 DEF vars, page, PageInv, Quiet, Answering, OwnReply, OwnSeq
  <2> QED BY <2>2, <2>3, ClientPage, ServerPage DEF Next
<1> QED BY <1>1, PageInvInit, OneActiveInvariant, TypeCorrect, CarefulIsSpec, PTL DEF CarefulSpec

\* As long as no client has given up, a client that ended printed the answer to
\* its own request, although request, number and answer share one page and the
\* server may be killed and started again at any point.
THEOREM RepliesMatchHolds == CarefulSpec => []RepliesMatch
<1>1. ReplyInv => RepliesMatch
  BY DEF ReplyInv, PageInv, RepliesMatch, OwnReply
<1> QED BY <1>1, ReplyInvariant, PTL

-----------------------------------------------------------------------------
(* The inductive invariant behind TakenOnce.                                *)

\* The clients that have stored a number.
Stored == {c \in Client : client[c] \notin {"new", "clear", "load", "store"}}
Number == Cardinality(Stored)

\* seq counts them; the client that is about to store loaded the count.
SeqCounts ==
    /\ seq = Number % SeqMod
    /\ \A c \in Client : client[c] = "store" => tmp[c] = seq

\* The last request that this run of the server took was the k-th, those it
\* took before came before the k-th, and it is not about to take that one again.
Within(k) ==
    /\ k <= Number
    /\ lastSeq = k % SeqMod
    /\ server = "take" => k < Number
    /\ \A i \in 1 .. Len(taken) : taken[i].run = starts =>
          \E n \in 1 .. k : taken[i].seq = n % SeqMod

\* A server that is down will be started anew.
TakenInv ==
    /\ SeqCounts
    /\ server # "down" => \E k \in Nat : Within(k)
    /\ \A i \in 1 .. Len(taken) : taken[i].run <= starts
    /\ TakenOnce

\* seq is the count modulo SeqMod: no two counts of one round are the same.
LEMMA ModSmall ==
  /\ \A n \in Nat : n < SeqMod => n % SeqMod = n
  /\ SeqMod % SeqMod = 0
<1>1. SeqMod \in Nat \ {0, 1}
  BY ConstantsAssumption
<1>2. ASSUME NEW n \in Nat, n < SeqMod PROVE n % SeqMod = n
  BY <1>1, <1>2
<1>3. SeqMod % SeqMod = 0
  BY <1>1
<1> QED BY <1>2, <1>3

LEMMA ModInjective ==
  ASSUME NEW m \in 1 .. SeqMod, NEW n \in 1 .. SeqMod, m # n
  PROVE  m % SeqMod # n % SeqMod
<1>1. SeqMod \in Nat \ {0, 1}
  BY ConstantsAssumption
<1>2. CASE m < SeqMod /\ n < SeqMod
  BY <1>1, <1>2, ModSmall
<1>3. CASE m = SeqMod
  BY <1>1, <1>3, ModSmall
<1>4. CASE n = SeqMod
  BY <1>1, <1>4, ModSmall
<1> QED BY <1>1, <1>2, <1>3, <1>4

LEMMA NumberBound ==
  ASSUME IsFiniteSet(Client), Cardinality(Client) <= SeqMod
  PROVE  /\ IsFiniteSet(Stored) /\ Number \in Nat /\ Number <= SeqMod
         /\ \A c \in Client \ Stored : Number + 1 <= SeqMod
<1>1. Stored \in SUBSET Client
  BY DEF Stored
<1>2. IsFiniteSet(Stored) /\ Cardinality(Stored) <= Cardinality(Client)
      /\ (Cardinality(Client) = Cardinality(Stored) => Client = Stored)
  BY <1>1, FS_Subset
<1>3. Cardinality(Stored) \in Nat /\ Cardinality(Client) \in Nat
  BY <1>2, FS_CardinalityType
<1>4. SeqMod \in Nat
  BY ConstantsAssumption
<1>5. \A c \in Client \ Stored : Cardinality(Stored) < Cardinality(Client)
  BY <1>2, <1>3
<1> QED BY <1>2, <1>3, <1>4, <1>5 DEF Number

LEMMA TakenInvInit == Init => TakenInv
<1> SUFFICES ASSUME Init PROVE TakenInv
  OBVIOUS
<1>1. Number = 0
  <2>1. Stored = {}
    BY DEF Init, Stored
  <2> QED BY <2>1, FS_EmptySet DEF Number
<1>2. 0 < SeqMod
  BY ConstantsAssumption
<1>3. SeqCounts
  BY <1>1, <1>2, ModSmall DEF Init, SeqCounts
<1>4. Len(taken) = 0
  BY EmptySeq DEF Init
<1> QED BY <1>3, <1>4 DEF TakenInv, TakenOnce, Init

\* Clients count and are counted, whatever the server does.
LEMMA ClientCounts ==
  ASSUME IsFiniteSet(Client), Cardinality(Client) <= SeqMod, TypeOK, OneActive, TakenInv,
         NEW c \in Client, Fill(c) \/ Runs(c)
  PROVE  TakenInv'
<1> USE DEF TypeOK
<1>1. UNCHANGED <<server, lastSeq, starts, taken>>
  BY DEF Fill, Runs, ClearReply, LoadSeq, StoreSeq, Publish, Waits, SeeDone, TimeOut,
         Final, ReadReply, ResetState, Serving
<1>2. ASSUME Number' \in Nat, Number <= Number', Number \in Nat, SeqCounts' PROVE TakenInv'
  <2>1. ASSUME NEW k \in Nat, Within(k) PROVE Within(k)'
    BY <1>1, <1>2, <2>1 DEF Within
  <2>2. TakenOnce'
    BY <1>1 DEF TakenInv, TakenOnce
  <2> QED BY <1>1, <1>2, <2>1, <2>2 DEF TakenInv
<1>3. Number \in Nat /\ IsFiniteSet(Stored)
  BY NumberBound
<1>4. CASE StoreSeq(c)
  <2>1. client[c] = "store" /\ client' = [client EXCEPT ![c] = "publish"]
        /\ seq' = (tmp[c] + 1) % SeqMod /\ tmp' = tmp
    BY <1>4 DEF StoreSeq, Go
  <2>2. Stored' = Stored \cup {c} /\ c \notin Stored
    BY <2>1 DEF Stored
  <2>3. Number' = Number + 1
    BY <2>2, <1>3, FS_AddElement DEF Number
  <2>4. Number + 1 <= SeqMod
    BY <2>2, NumberBound
  <2>5. tmp[c] = Number
    <3>1. tmp[c] = Number % SeqMod
      BY <2>1 DEF TakenInv, SeqCounts
    <3>2. Number < SeqMod
      BY <2>4, <1>3, ConstantsAssumption
    <3> QED BY <3>1, <3>2, <1>3, ModSmall
  <2>6. seq' = Number' % SeqMod
    BY <2>1, <2>3, <2>5
  <2>7. \A d \in Client : client'[d] # "store"
    BY <2>1 DEF OneActive, Active
  <2>8. SeqCounts'
    BY <2>6, <2>7 DEF SeqCounts
  <2> QED BY <1>2, <1>3, <2>3, <2>8
<1>5. CASE LoadSeq(c)
  <2>1. client[c] = "load" /\ client' = [client EXCEPT ![c] = "store"]
        /\ tmp' = [tmp EXCEPT ![c] = seq] /\ seq' = seq
    BY <1>5 DEF LoadSeq, Go, page
  <2>2. Stored' = Stored
    BY <2>1 DEF Stored
  <2>3. Number' = Number
    BY <2>2 DEF Number
  <2>4. SeqCounts'
    BY <2>1, <2>3 DEF TakenInv, SeqCounts
  <2> QED BY <1>2, <1>3, <2>3, <2>4
<1>6. CASE ~(StoreSeq(c) \/ LoadSeq(c))
  <2>1. PICK to : /\ to # "store" /\ client' = [client EXCEPT ![c] = to]
                  /\ to \in {"clear", "load"} <=> client[c] \in {"new", "clear"}
                  /\ client[c] \notin {"load", "store"}
                  /\ to # "new"
                  /\ UNCHANGED <<seq, tmp>>
    <3>1. CASE Fill(c)
      BY <3>1 DEF Fill, Go
    <3>2. CASE ClearReply(c)
      BY <3>2 DEF ClearReply, Go
    <3>3. CASE Publish(c)
      BY <3>3 DEF Publish, Go
    <3>4. CASE Waits(c)
      BY <3>4 DEF Waits, SeeDone, TimeOut, Go, page
    <3>5. CASE Final(c)
      BY <3>5 DEF Final, Go, page
    <3>6. CASE ReadReply(c) \/ ResetState(c)
      BY <3>6 DEF ReadReply, ResetState, Go, page
    <3> QED BY <1>6, <3>1, <3>2, <3>3, <3>4, <3>5, <3>6 DEF Runs
  <2>2. Stored' = Stored
    BY <2>1 DEF Stored
  <2>3. Number' = Number
    BY <2>2 DEF Number
  <2>4. SeqCounts'
    BY <2>1, <2>3 DEF TakenInv, SeqCounts
  <2> QED BY <1>2, <1>3, <2>3, <2>4
<1> QED BY <1>4, <1>5, <1>6

\* The server takes a request it has not taken before.
LEMMA TakeOnce ==
  ASSUME IsFiniteSet(Client), Cardinality(Client) <= SeqMod, TypeOK, TakenInv, Take
  PROVE  TakenInv'
<1> USE DEF TypeOK
<1> DEFINE e == [run |-> starts, seq |-> seq]
           L == Len(taken)
<1>1. /\ server = "take" /\ server' = "answer" /\ lastSeq' = seq
      /\ taken' = Append(taken, e) /\ UNCHANGED <<client, tmp, seq, starts>>
  BY DEF Take, Asking, page
<1>2. PICK k \in Nat : Within(k)
  BY <1>1 DEF TakenInv
<1>3. k < Number /\ Number \in Nat /\ Number <= SeqMod
  BY <1>1, <1>2, NumberBound DEF Within
<1>4. L \in Nat /\ Len(taken') = L + 1 /\ taken'[L + 1] = e
      /\ \A i \in 1 .. L : taken'[i] = taken[i]
  <2>1. ASSUME NEW s \in Seq([run : 1 .. MaxStarts, seq : SeqNo]), NEW x
        PROVE  Len(s) \in Nat /\ Len(Append(s, x)) = Len(s) + 1
               /\ Append(s, x)[Len(s) + 1] = x /\ \A i \in 1 .. Len(s) : Append(s, x)[i] = s[i]
    BY LenProperties
  <2> QED BY <1>1, <2>1
<1>5. e.run = starts /\ e.seq = seq
  OBVIOUS
<1> HIDE DEF e, L
<1>6. Stored' = Stored
  BY <1>1 DEF Stored
<1>7. Number' = Number
  BY <1>6 DEF Number
<1>8. SeqCounts'
  BY <1>1, <1>7 DEF TakenInv, SeqCounts
<1>9. seq = Number % SeqMod
  BY DEF TakenInv, SeqCounts
<1>10. \A i \in 1 .. L : taken[i].run = starts => taken[i].seq # seq
  <2> SUFFICES ASSUME NEW i \in 1 .. L, taken[i].run = starts PROVE taken[i].seq # seq
    OBVIOUS
  <2>1. PICK n \in 1 .. k : taken[i].seq = n % SeqMod
    BY <1>2 DEF Within, L
  <2>2. n \in 1 .. SeqMod /\ Number \in 1 .. SeqMod /\ n # Number
    BY <1>3, <2>1, ConstantsAssumption
  <2> QED BY <2>1, <2>2, <1>9, ModInjective
<1>11. TakenOnce'
  <2> SUFFICES ASSUME NEW i \in 1 .. L + 1, NEW j \in 1 .. L + 1, i # j
               PROVE  taken'[i] # taken'[j]
    BY <1>4 DEF TakenOnce
  <2>1. CASE i \in 1 .. L /\ j \in 1 .. L
    BY <2>1, <1>4 DEF TakenInv, TakenOnce, L
  <2>2. CASE i \in 1 .. L /\ j = L + 1
    BY <2>2, <1>4, <1>5, <1>10
  <2>3. CASE i = L + 1 /\ j \in 1 .. L
    BY <2>3, <1>4, <1>5, <1>10
  <2> QED BY <2>1, <2>2, <2>3, <1>4
<1>12. Within(Number)'
  <2>1. \A i \in 1 .. L + 1 : taken'[i].run = starts =>
          \E n \in 1 .. Number : taken'[i].seq = n % SeqMod
    <3> SUFFICES ASSUME NEW i \in 1 .. L + 1, taken'[i].run = starts
                 PROVE  \E n \in 1 .. Number : taken'[i].seq = n % SeqMod
      OBVIOUS
    <3>1. CASE i = L + 1
      <4>1. Number \in 1 .. Number
        BY <1>3
      <4> QED BY <3>1, <4>1, <1>4, <1>5, <1>9
    <3>2. CASE i # L + 1
      <4>1. i \in 1 .. L
        BY <3>2, <1>4
      <4>2. PICK n \in 1 .. k : taken[i].seq = n % SeqMod
        BY <4>1, <1>2, <1>4 DEF Within, L
      <4>3. n \in 1 .. Number
        BY <4>2, <1>3
      <4> QED BY <4>1, <4>2, <4>3, <1>4
    <3> QED BY <3>1, <3>2
  <2> QED BY <2>1, <1>1, <1>3, <1>4, <1>7, <1>9 DEF Within
<1>13. \A i \in 1 .. L + 1 : taken'[i].run <= starts
  <2> SUFFICES ASSUME NEW i \in 1 .. L + 1 PROVE taken'[i].run <= starts
    OBVIOUS
  <2>1. starts \in Nat
    BY ConstantsAssumption
  <2>2. CASE i = L + 1
    BY <2>1, <2>2, <1>4, <1>5
  <2>3. CASE i # L + 1
    <3>1. i \in 1 .. L
      BY <2>3, <1>4
    <3> QED BY <3>1, <1>4 DEF TakenInv, L
  <2> QED BY <2>2, <2>3
<1> QED BY <1>1, <1>3, <1>4, <1>7, <1>8, <1>11, <1>12, <1>13 DEF TakenInv

LEMMA ServerTakes ==
  ASSUME IsFiniteSet(Client), Cardinality(Client) <= SeqMod, TypeOK, TakenInv,
         Start \/ Kill \/ Serve
  PROVE  TakenInv'
<1> USE DEF TypeOK
<1>1. UNCHANGED <<client, tmp, seq>>
  BY DEF Start, Kill, Serve, Poll, TestSeq, Take, Answer, WriteReply, SetDone, Asking, page
<1>2. Stored' = Stored
  BY <1>1 DEF Stored
<1>3. Number' = Number /\ Number \in Nat
  BY <1>2, NumberBound DEF Number
<1>4. SeqCounts'
  BY <1>1, <1>3 DEF TakenInv, SeqCounts
<1>5. CASE Start
  <2>1. server' = "poll" /\ lastSeq' = 0 /\ starts' = starts + 1 /\ taken' = taken
    BY <1>5 DEF Start
  <2>2. 0 % SeqMod = 0
    BY ModSmall, ConstantsAssumption
  <2>3. Len(taken) \in Nat /\ \A i \in 1 .. Len(taken) : taken[i].run \in Nat
    <3>1. \A i \in 1 .. Len(taken) : taken[i] \in [run : 1 .. MaxStarts, seq : SeqNo]
      BY ElementOfSeq
    <3> QED BY <3>1, LenProperties, ConstantsAssumption
  <2>4. \A i \in 1 .. Len(taken) : taken[i].run # starts + 1 /\ taken[i].run <= starts + 1
    <3>1. \A n, m \in Nat : n <= m => n # m + 1 /\ n <= m + 1
      OBVIOUS
    <3>2. starts \in Nat /\ \A i \in 1 .. Len(taken) : taken[i].run <= starts
      BY DEF TakenInv
    <3> HIDE DEF TypeOK
    <3> QED BY <2>3, <3>1, <3>2
  <2>5. Within(0)'
    BY <1>3, <2>1, <2>2, <2>4 DEF Within
  <2> QED BY <1>4, <2>1, <2>4, <2>5 DEF TakenInv, TakenOnce
<1>6. CASE Kill
  BY <1>4, <1>6 DEF Kill, TakenInv, TakenOnce
<1>7. CASE Take
  BY <1>7, TakeOnce
<1>8. CASE Poll \/ TestSeq \/ Answer \/ WriteReply \/ SetDone
  <2>1. server # "down" /\ UNCHANGED <<lastSeq, starts, taken>>
        /\ (server' = "take" => TestSeq /\ seq # lastSeq)
    BY <1>8 DEF Poll, TestSeq, Answer, WriteReply, SetDone
  <2>2. PICK k \in Nat : Within(k)
    BY <2>1 DEF TakenInv
  <2>3. server' = "take" => k < Number
    BY <1>3, <2>1, <2>2 DEF Within, TakenInv, SeqCounts
  <2>4. Within(k)'
    BY <1>3, <2>1, <2>2, <2>3 DEF Within
  <2> QED BY <1>4, <2>1, <2>4 DEF TakenInv, TakenOnce
<1> QED BY <1>5, <1>6, <1>7, <1>8 DEF Serve

\* A request is answered by one run of the server once, although the server
\* looks at state and at seq in three loads, and state may say PENDING again
\* after it was taken: as long as the counter has not come round, that is with no
\* more runs of dwq_client than seq has values.
THEOREM TakenOnceHolds ==
  ASSUME IsFiniteSet(Client), Cardinality(Client) <= SeqMod
  PROVE  CarefulSpec => []TakenOnce
<1>1. TypeOK /\ OneActive /\ TakenInv /\ [Next /\ OneAtATime]_vars => TakenInv'
  <2> SUFFICES ASSUME TypeOK, OneActive, TakenInv, [Next]_vars PROVE TakenInv'
    OBVIOUS
  <2>1. CASE UNCHANGED vars
    <3>1. \A k : Within(k) => Within(k)'
      BY <2>1 DEF vars, Within, Number, Stored
    <3>2. SeqCounts'
      BY <2>1 DEF vars, page, TakenInv, SeqCounts, Number, Stored
    <3> QED BY <2>1, <3>1, <3>2 DEF vars, TakenInv, TakenOnce
  <2> QED BY <2>1, ClientCounts, ServerTakes DEF Next
<1>2. TakenInv => TakenOnce
  BY DEF TakenInv
<1> QED BY <1>1, <1>2, TakenInvInit, OneActiveInvariant, TypeCorrect, CarefulIsSpec, PTL
        DEF CarefulSpec
=============================================================================
