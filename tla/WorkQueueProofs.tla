--------------------------- MODULE WorkQueueProofs ---------------------------
(***************************************************************************)
(* Proofs about WorkQueue, for any files, any set of stoppers and any       *)
(* bound on the requests.                                                   *)
(***************************************************************************)
EXTENDS WorkQueue, SequenceTheorems, TLAPS

\* The type invariant of handle 0 and its worker (write, read, release,
\* ioctl(STOP), delay_func and dwq_exit).
THEOREM TypeCorrect == Spec => []TypeOK
<1>1. Init => TypeOK
  <2>1. <<>> \in Seq(Tx)
    OBVIOUS
  <2>2. Init => done \in [Ctx -> Seq(Tx)] /\ wqPending \in Seq(Tx)
    BY <2>1 DEF Init
  <2>3. Init => txCounter \in [Ctx -> 0 .. MaxTx]
    BY ConstantsAssumption DEF Init
  <2>4. Init => worker \in Worker
    BY DEF Init, Worker
  <2>5. Init => life \in [Ctx -> {"unopened", "open", "closed"}]
             /\ fate \in [Tx -> {"none", "live", "delivered", "abandoned", "lost"}]
             /\ queued \in BOOLEAN /\ stopped \in BOOLEAN
             /\ loaded \in {"loaded", "exiting", "unloaded"}
             /\ cancelling \in SUBSET (Ctx \cup {Module}) /\ asleep \in SUBSET Ctx
    BY DEF Init
  <2> QED BY <2>2, <2>3, <2>4, <2>5 DEF TypeOK
<1>2. TypeOK /\ [Next]_vars => TypeOK'
  <2> SUFFICES ASSUME TypeOK, [Next]_vars PROVE TypeOK'
    OBVIOUS
  <2> USE DEF TypeOK
  <2>1. ASSUME NEW c \in Ctx, Open(c) PROVE TypeOK'
    BY <2>1 DEF Open
  <2>2. ASSUME NEW c \in Ctx, Request(c) PROVE TypeOK'
    <3>1. [caller |-> c, id |-> txCounter[c] + 1] \in Tx
      BY <2>2, ConstantsAssumption DEF Request, Tx
    <3>2. wqPending' \in Seq(Tx)
      BY <2>2, <3>1, AppendProperties DEF Request
    <3>3. txCounter' \in [Ctx -> 0 .. MaxTx]
      BY <2>2, ConstantsAssumption DEF Request
    <3>4. queued' \in BOOLEAN /\ stopped' \in BOOLEAN
      BY <2>2 DEF Request, QueueWork
    <3> QED BY <2>2, <3>2, <3>3, <3>4 DEF Request, Mark
  <2>3. ASSUME NEW c \in Ctx, ReadDone(c) PROVE TypeOK'
    <3>1. done' \in [Ctx -> Seq(Tx)]
      BY <2>3, HeadTailProperties DEF ReadDone
    <3> QED BY <2>3, <3>1 DEF ReadDone, Mark
  <2>4. ASSUME NEW c \in Ctx, Close(c) PROVE TypeOK'
    <3>1. <<>> \in Seq(Tx)
      OBVIOUS
    <3> QED BY <2>4, <3>1 DEF Close, Mark
  <2>5. ASSUME NEW c \in Ctx, Stop(c) PROVE TypeOK'
    BY <2>5 DEF Stop, CancelBegin
  <2>6. ASSUME NEW c \in Ctx, StopEnd(c) PROVE TypeOK'
    BY <2>6 DEF StopEnd, CancelEnd
  <2>7. ASSUME Exit PROVE TypeOK'
    BY <2>7 DEF Exit, CancelBegin
  <2>8. ASSUME ExitEnd PROVE TypeOK'
    <3>1. <<>> \in Seq(Tx)
      OBVIOUS
    <3> QED BY <2>8, <3>1 DEF ExitEnd, CancelEnd, Mark
  <2>9. ASSUME WorkStart PROVE TypeOK'
    BY <2>9 DEF WorkStart, Worker
  <2>10. ASSUME WorkTake PROVE TypeOK'
    <3>1. wqPending # <<>> => Head(wqPending) \in Tx /\ Tail(wqPending) \in Seq(Tx)
      BY HeadTailProperties
    <3>2. wqPending' \in Seq(Tx)
      BY <2>10, <3>1 DEF WorkTake
    <3>3. worker' \in Worker
      BY <2>10, <3>1 DEF WorkTake, Worker
    <3> QED BY <2>10, <3>2, <3>3 DEF WorkTake
  <2>11. ASSUME WorkAnswer PROVE TypeOK'
    <3>1. worker.tx \in Tx /\ worker.tx.caller \in Ctx
      BY <2>11 DEF WorkAnswer, Worker, Resting, Tx
    <3>2. Append(done[worker.tx.caller], worker.tx) \in Seq(Tx)
      BY <3>1, AppendProperties
    <3>3. done' \in [Ctx -> Seq(Tx)]
      BY <2>11, <3>1, <3>2 DEF WorkAnswer
    <3>4. worker' \in Worker
      BY <2>11, <3>1 DEF WorkAnswer, Worker
    <3> QED BY <2>11, <3>3, <3>4 DEF WorkAnswer, Mark
  <2>12. ASSUME WorkLeave PROVE TypeOK'
    BY <2>12 DEF WorkLeave, Worker, QueueWork
  <2>13. ASSUME NEW c \in Ctx, ReadSleep(c) \/ ReadInterrupt(c) PROVE TypeOK'
    BY <2>13 DEF ReadSleep, ReadInterrupt
  <2>14. ASSUME WorkWake PROVE TypeOK'
    BY <2>14 DEF WorkWake, Worker
  <2>15. ASSUME UNCHANGED vars PROVE TypeOK'
    BY <2>15 DEF vars
  <2> QED
    BY <2>1, <2>2, <2>3, <2>4, <2>5, <2>6, <2>7, <2>8, <2>9, <2>10, <2>11,
       <2>12, <2>13, <2>14, <2>15, ConstantsAssumption DEF Next, Work
<1> QED BY <1>1, <1>2, PTL DEF Spec

-----------------------------------------------------------------------------
\* The module is unloaded through dwq_exit: no file is open from then on, and
\* dwq_exit is inside the cancellation only while the module is being unloaded.
ExitInv ==
    /\ loaded # "loaded" => \A c \in Ctx : life[c] # "open"
    /\ Module \in cancelling => loaded = "exiting"

\* While somebody is inside the cancellation, the work is off the queue.
CancelKeepsOff == cancelling # {} => ~queued /\ stopped

\* The inductive invariant behind the safety properties of the worker; TypeOK,
\* proved on its own, is assumed where it is needed.
WorkInv == ExitInv /\ CancelKeepsOff /\ WaitingIsQueued /\ UnloadedIsQuiet

LEMMA WorkInvInit == Init => WorkInv
BY ConstantsAssumption
   DEF Init, WorkInv, ExitInv, CancelKeepsOff, WaitingIsQueued, UnloadedIsQuiet

LEMMA WorkInvStep == TypeOK /\ WorkInv /\ [Next]_vars => WorkInv'
<1> SUFFICES ASSUME TypeOK, WorkInv, [Next]_vars PROVE WorkInv'
  OBVIOUS
<1> USE DEF WorkInv, ExitInv, CancelKeepsOff, WaitingIsQueued, UnloadedIsQuiet, Resting
<1>1. ASSUME NEW c \in Ctx, Open(c) PROVE WorkInv'
  BY <1>1 DEF Open
<1>2. ASSUME NEW c \in Ctx, Request(c) PROVE WorkInv'
  <2>1. loaded = "loaded"
    BY <1>2 DEF Request, CanCall
  <2>2. WaitingIsQueued'
    BY <1>2 DEF Request, QueueWork
  <2>3. CancelKeepsOff'
    BY <1>2 DEF Request, QueueWork
  <2> QED BY <1>2, <2>1, <2>2, <2>3 DEF Request
<1>3. ASSUME NEW c \in Ctx, ReadDone(c) PROVE WorkInv'
  BY <1>3 DEF ReadDone
<1>4. ASSUME NEW c \in Ctx, Close(c) PROVE WorkInv'
  BY <1>4 DEF Close, TypeOK
<1>5. ASSUME NEW c \in Ctx, Stop(c) PROVE WorkInv'
  BY <1>5, ConstantsAssumption DEF Stop, CanCall, CancelBegin
<1>6. ASSUME NEW c \in Ctx, StopEnd(c) PROVE WorkInv'
  BY <1>6 DEF StopEnd, CancelEnd
<1>7. ASSUME Exit PROVE WorkInv'
  BY <1>7 DEF Exit, CancelBegin
<1>8. ASSUME ExitEnd PROVE WorkInv'
  BY <1>8 DEF ExitEnd, CancelEnd
<1>9. ASSUME WorkStart PROVE WorkInv'
  BY <1>9 DEF WorkStart
<1>10. ASSUME WorkTake PROVE WorkInv'
  BY <1>10 DEF WorkTake
<1>11. ASSUME WorkAnswer PROVE WorkInv'
  BY <1>11 DEF WorkAnswer
<1>12. ASSUME WorkLeave PROVE WorkInv'
  <2>1. WaitingIsQueued' /\ CancelKeepsOff'
    BY <1>12 DEF WorkLeave, QueueWork
  <2>2. loaded # "unloaded"
    BY <1>12 DEF WorkLeave
  <2> QED BY <1>12, <2>1, <2>2 DEF WorkLeave
<1>13. ASSUME NEW c \in Ctx, ReadSleep(c) \/ ReadInterrupt(c) PROVE WorkInv'
  BY <1>13 DEF ReadSleep, ReadInterrupt
<1>14. ASSUME WorkWake PROVE WorkInv'
  BY <1>14 DEF WorkWake
<1>15. ASSUME UNCHANGED vars PROVE WorkInv'
  BY <1>15 DEF vars
<1> QED
  BY <1>1, <1>2, <1>3, <1>4, <1>5, <1>6, <1>7, <1>8, <1>9, <1>10, <1>11, <1>12,
     <1>13, <1>14, <1>15, ConstantsAssumption DEF Next, Work

LEMMA WorkInvariant == Spec => []WorkInv
<1>1. WorkInv /\ TypeOK /\ [Next]_vars => WorkInv'
  BY WorkInvStep
<1> QED BY <1>1, WorkInvInit, TypeCorrect, PTL DEF Spec

\* delay_func, which answers one request per run, always queues itself again or
\* leaves an empty list, unless cancel_delayed_work_sync kept it from doing so.
THEOREM WaitingIsQueuedHolds == Spec => []WaitingIsQueued
<1>1. WorkInv => WaitingIsQueued
  BY DEF WorkInv
<1> QED BY <1>1, WorkInvariant, PTL

\* After dwq_exit no run of delay_func is in progress or queued, and nothing
\* waits to be served.
THEOREM UnloadedIsQuietHolds == Spec => []UnloadedIsQuiet
<1>1. WorkInv => UnloadedIsQuiet
  BY DEF WorkInv
<1> QED BY <1>1, WorkInvariant, PTL
-----------------------------------------------------------------------------
(* Where a request is: with its id it stands in one list, at one place.     *)

Working(x) == worker.at = "working" /\ worker.tx = x

\* The requests that a list, or the worker, holds are live; those of a done_list
\* are its file's; and the ids above the counter are still to be given out.
PlacesAreLive ==
    /\ \A i \in 1 .. Len(wqPending) : fate[wqPending[i]] = "live"
    /\ worker.at = "working" => fate[worker.tx] = "live"
    /\ \A c \in Ctx : \A i \in 1 .. Len(done[c]) :
          done[c][i].caller = c /\ fate[done[c][i]] = "live"
Numbered ==
    /\ \A x \in Tx : x.id > txCounter[x.caller] => fate[x] = "none"
    /\ \A c \in Ctx : life[c] = "unopened" => txCounter[c] = 0
    /\ \A c \in Ctx : life[c] = "closed" => done[c] = <<>>

\* The requests of one file stand in the order of their ids: its done_list,
\* then the worker, then the list of what waits.
DoneInOrder ==
    \A c \in Ctx : \A i, j \in 1 .. Len(done[c]) : i < j => done[c][i].id < done[c][j].id
PendingInOrder ==
    \A i, j \in 1 .. Len(wqPending) :
        (i < j /\ wqPending[i].caller = wqPending[j].caller)
            => wqPending[i].id < wqPending[j].id
DoneBeforePending ==
    \A c \in Ctx : \A i \in 1 .. Len(done[c]), j \in 1 .. Len(wqPending) :
        wqPending[j].caller = c => done[c][i].id < wqPending[j].id
WorkBetween ==
    worker.at = "working" =>
        /\ \A i \in 1 .. Len(done[worker.tx.caller]) :
              done[worker.tx.caller][i].id < worker.tx.id
        /\ \A j \in 1 .. Len(wqPending) :
              wqPending[j].caller = worker.tx.caller => worker.tx.id < wqPending[j].id

\* Nothing is missing from the line of a file that is not closed.
Placed(x) ==
    \/ x \in Elements(done[x.caller])
    \/ Working(x)
    \/ x \in Elements(wqPending)
NoGaps ==
    \A c \in Ctx : life[c] # "closed" =>
        \E n \in 0 .. txCounter[c] :
            \A x \in Tx : x.caller = c => (Placed(x) <=> n < x.id /\ x.id <= txCounter[c])

LineInv ==
    PlacesAreLive /\ Numbered /\ DoneInOrder /\ PendingInOrder /\ DoneBeforePending
        /\ WorkBetween /\ NoGaps

LEMMA TxFields ==
  /\ \A x \in Tx : x.caller \in Ctx /\ x.id \in 1 .. MaxTx /\ x.id \in Nat
  /\ \A x, y \in Tx : x.caller = y.caller /\ x.id = y.id => x = y
BY ConstantsAssumption DEF Tx

\* What the lists and the worker hold are requests.
LEMMA PlaceTypes ==
  ASSUME TypeOK
  PROVE  /\ Len(wqPending) \in Nat
         /\ \A i \in 1 .. Len(wqPending) : wqPending[i] \in Tx
         /\ \A c \in Ctx : Len(done[c]) \in Nat /\ \A i \in 1 .. Len(done[c]) : done[c][i] \in Tx
         /\ worker.at = "working" => worker.tx \in Tx
         /\ \A c \in Ctx : txCounter[c] \in Nat
<1>1. wqPending \in Seq(Tx) /\ done \in [Ctx -> Seq(Tx)]
  BY DEF TypeOK
<1>2. worker.at = "working" => worker.tx \in Tx
  BY DEF TypeOK, Worker, Resting
<1>3. \A c \in Ctx : txCounter[c] \in Nat
  BY ConstantsAssumption DEF TypeOK
<1> QED BY <1>1, <1>2, <1>3, LenProperties, ElementOfSeq

\* A request that is live has been given its number.
LEMMA LiveIsNumbered ==
  ASSUME TypeOK, Numbered, NEW x \in Tx, fate[x] = "live"
  PROVE  x.id <= txCounter[x.caller]
BY PlaceTypes, TxFields DEF Numbered

\* One list element more, at its end, or one less, at its head.
LEMMA TailPlaces ==
  ASSUME NEW S, NEW s \in Seq(S), s # <<>>
  PROVE  /\ Len(s) \in Nat \ {0} /\ Len(Tail(s)) = Len(s) - 1
         /\ Head(s) = s[1] /\ Head(s) \in S
         /\ \A i \in 1 .. Len(Tail(s)) : Tail(s)[i] = s[i + 1]
         /\ Elements(s) = Elements(Tail(s)) \cup {Head(s)}
<1>1. /\ Head(s) \in S
      /\ Len(Tail(s)) = Len(s) - 1
      /\ \A i \in 1 .. Len(Tail(s)) : Tail(s)[i] = s[i + 1]
  BY HeadTailProperties
<1>2. Len(s) \in Nat \ {0}
  BY EmptySeq
<1>3. Head(s) = s[1]
  OBVIOUS
<1>4. Elements(s) \subseteq Elements(Tail(s)) \cup {Head(s)}
  <2> SUFFICES ASSUME NEW i \in 1 .. Len(s) PROVE s[i] \in Elements(Tail(s)) \cup {Head(s)}
    BY DEF Elements
  <2>1. CASE i = 1
    BY <2>1, <1>3
  <2>2. CASE i # 1
    <3>1. i - 1 \in 1 .. Len(Tail(s)) /\ (i - 1) + 1 = i
      BY <2>2, <1>1, <1>2
    <3>2. Tail(s)[i - 1] = s[i]
      BY <3>1, <1>1
    <3> QED BY <3>1, <3>2 DEF Elements
  <2> QED BY <2>1, <2>2
<1>5. Elements(Tail(s)) \cup {Head(s)} \subseteq Elements(s)
  BY <1>1, <1>2, <1>3 DEF Elements
<1> QED BY <1>1, <1>2, <1>3, <1>4, <1>5

LEMMA AppendPlaces ==
  ASSUME NEW S, NEW s \in Seq(S), NEW x \in S
  PROVE  /\ Len(s) \in Nat /\ Len(Append(s, x)) = Len(s) + 1
         /\ \A i \in 1 .. Len(s) : Append(s, x)[i] = s[i]
         /\ Append(s, x)[Len(s) + 1] = x
         /\ Elements(Append(s, x)) = Elements(s) \cup {x}
<1>1. /\ Len(Append(s, x)) = Len(s) + 1
      /\ \A i \in 1 .. Len(s) : Append(s, x)[i] = s[i]
      /\ Append(s, x)[Len(s) + 1] = x
  BY AppendProperties
<1>2. Len(s) \in Nat
  BY LenProperties
<1>3. Elements(Append(s, x)) = Elements(s) \cup {x}
  BY <1>1, <1>2 DEF Elements
<1> QED BY <1>1, <1>2, <1>3

LEMMA EmptyPlaces == Len(<<>>) = 0 /\ Elements(<<>>) = {}
<1>1. Len(<<>>) = 0
  BY EmptySeq
<1> QED BY <1>1 DEF Elements

LEMMA LineInvInit == ASSUME Init PROVE LineInv
<1>1. /\ wqPending = <<>> /\ worker.at # "working"
      /\ \A c \in Ctx : done[c] = <<>> /\ txCounter[c] = 0 /\ life[c] = "unopened"
      /\ \A x \in Tx : fate[x] = "none"
  BY DEF Init, Resting
<1>2. PlacesAreLive /\ Numbered
  BY <1>1, EmptyPlaces DEF PlacesAreLive, Numbered
<1>3. DoneInOrder /\ PendingInOrder /\ DoneBeforePending /\ WorkBetween
  BY <1>1, EmptyPlaces DEF DoneInOrder, PendingInOrder, DoneBeforePending, WorkBetween
<1>4. NoGaps
  <2> SUFFICES ASSUME NEW c \in Ctx
               PROVE  \A x \in Tx : x.caller = c => ~Placed(x) /\ ~(0 < x.id /\ x.id <= 0)
    BY <1>1 DEF NoGaps
  <2> QED BY <1>1, EmptyPlaces, TxFields DEF Placed, Working
<1> QED BY <1>2, <1>3, <1>4 DEF LineInv

\* write(): the new request, with the next id, goes to the end of its line.
LEMMA RequestLine ==
  ASSUME TypeOK, LineInv, NEW c \in Ctx, Request(c)
  PROVE  LineInv'
<1> DEFINE tx == [caller |-> c, id |-> txCounter[c] + 1]
           L  == Len(wqPending)
<1>1. /\ txCounter[c] < MaxTx /\ life[c] = "open"
      /\ txCounter' = [txCounter EXCEPT ![c] = @ + 1]
      /\ wqPending' = Append(wqPending, tx)
      /\ fate' = [x \in Tx |-> IF x \in {tx} THEN "live" ELSE fate[x]]
      /\ UNCHANGED <<life, worker, done>>
  BY DEF Request, CanCall, Mark
<1>2. tx \in Tx /\ tx.caller = c /\ tx.id = txCounter[c] + 1
  BY <1>1, ConstantsAssumption DEF TypeOK, Tx
<1>3. fate[tx] = "none"
  BY <1>2, PlaceTypes DEF LineInv, Numbered
<1> HIDE DEF tx
<1>4. /\ L \in Nat /\ Len(wqPending') = L + 1
      /\ \A i \in 1 .. L : wqPending'[i] = wqPending[i]
      /\ wqPending'[L + 1] = tx
      /\ Elements(wqPending') = Elements(wqPending) \cup {tx}
  BY <1>1, <1>2, AppendPlaces DEF TypeOK
<1>5. txCounter'[c] = txCounter[c] + 1 /\ \A b \in Ctx : b # c => txCounter'[b] = txCounter[b]
  BY <1>1 DEF TypeOK
<1>6. fate'[tx] = "live" /\ \A x \in Tx : x # tx => fate'[x] = fate[x]
  BY <1>1, <1>2
<1>7. \A x \in Tx : (fate[x] = "live" /\ x.caller = c) => x.id < tx.id
  BY <1>2, LiveIsNumbered, PlaceTypes, TxFields DEF LineInv
<1>8. PlacesAreLive'
  <2>1. \A i \in 1 .. L + 1 : fate'[wqPending'[i]] = "live"
    BY <1>4, <1>6, PlaceTypes DEF LineInv, PlacesAreLive
  <2>2. \A x \in Tx : fate[x] = "live" => fate'[x] = "live"
    BY <1>6
  <2> QED BY <2>1, <2>2, <1>1, <1>4, PlaceTypes DEF LineInv, PlacesAreLive
<1>9. Numbered'
  <2>1. \A x \in Tx : x.id > txCounter'[x.caller] => fate'[x] = "none"
    <3> SUFFICES ASSUME NEW x \in Tx, x.id > txCounter'[x.caller] PROVE fate'[x] = "none"
      OBVIOUS
    <3>1. x.id > txCounter[x.caller] /\ x # tx
      BY <1>2, <1>5, PlaceTypes, TxFields
    <3> QED BY <3>1, <1>6 DEF LineInv, Numbered
  <2> QED BY <2>1, <1>1, <1>5 DEF LineInv, Numbered
<1>10. DoneInOrder'
  BY <1>1 DEF LineInv, DoneInOrder
<1>11. \A i \in 1 .. L : fate[wqPending[i]] = "live" /\ wqPending[i] \in Tx
  BY PlaceTypes DEF LineInv, PlacesAreLive
<1>12. PendingInOrder'
  <2> SUFFICES ASSUME NEW i \in 1 .. L + 1, NEW j \in 1 .. L + 1, i < j,
                      wqPending'[i].caller = wqPending'[j].caller
               PROVE  wqPending'[i].id < wqPending'[j].id
    BY <1>4 DEF PendingInOrder
  <2>1. i \in 1 .. L
    BY <1>4
  <2>2. CASE j = L + 1
    BY <2>1, <2>2, <1>2, <1>4, <1>7, <1>11
  <2>3. CASE j # L + 1
    <3>1. j \in 1 .. L
      BY <2>3, <1>4
    <3> QED BY <2>1, <3>1, <1>4 DEF LineInv, PendingInOrder
  <2> QED BY <2>2, <2>3
<1>13. DoneBeforePending'
  <2> SUFFICES ASSUME NEW b \in Ctx, NEW i \in 1 .. Len(done[b]), NEW j \in 1 .. L + 1,
                      wqPending'[j].caller = b
               PROVE  done[b][i].id < wqPending'[j].id
    BY <1>1, <1>4 DEF DoneBeforePending
  <2>1. CASE j = L + 1
    <3>1. b = c /\ wqPending'[j] = tx
      BY <2>1, <1>2, <1>4
    <3>2. done[b][i] \in Tx /\ done[b][i].caller = b /\ fate[done[b][i]] = "live"
      BY PlaceTypes DEF LineInv, PlacesAreLive
    <3> QED BY <3>1, <3>2, <1>7
  <2>2. CASE j # L + 1
    <3>1. j \in 1 .. L
      BY <2>2, <1>4
    <3> QED BY <3>1, <1>4 DEF LineInv, DoneBeforePending
  <2> QED BY <2>1, <2>2
<1>14. WorkBetween'
  <2> SUFFICES ASSUME worker.at = "working"
               PROVE  /\ \A i \in 1 .. Len(done[worker.tx.caller]) :
                           done[worker.tx.caller][i].id < worker.tx.id
                      /\ \A j \in 1 .. L + 1 : wqPending'[j].caller = worker.tx.caller
                           => worker.tx.id < wqPending'[j].id
    BY <1>1, <1>4 DEF WorkBetween
  <2>1. worker.tx \in Tx /\ fate[worker.tx] = "live"
    BY PlaceTypes DEF LineInv, PlacesAreLive
  <2>2. tx.caller = worker.tx.caller => worker.tx.id < tx.id
    BY <2>1, <1>2, <1>7
  <2> QED BY <2>2, <1>4 DEF LineInv, WorkBetween
<1>15. NoGaps'
  <2> SUFFICES ASSUME NEW b \in Ctx, life[b] # "closed"
               PROVE  \E n \in 0 .. txCounter'[b] :
                         \A x \in Tx : x.caller = b =>
                            (Placed(x)' <=> n < x.id /\ x.id <= txCounter'[b])
    BY <1>1 DEF NoGaps
  <2>1. PICK n \in 0 .. txCounter[b] :
          \A x \in Tx : x.caller = b => (Placed(x) <=> n < x.id /\ x.id <= txCounter[b])
    BY DEF LineInv, NoGaps
  <2>2. \A x : Placed(x)' <=> Placed(x) \/ x = tx
    BY <1>1, <1>4 DEF Placed, Working
  <2>3. n \in 0 .. txCounter'[b] /\ txCounter[b] \in Nat /\ n \in Nat
    BY <1>5, PlaceTypes
  <2>4. CASE b = c
    <3>1. \A x \in Tx : x.caller = b => (x = tx <=> x.id = txCounter[b] + 1)
      BY <2>4, <1>2, TxFields
    <3>2. \A x \in Tx : x.caller = b =>
            (Placed(x)' <=> n < x.id /\ x.id <= txCounter'[b])
      BY <2>1, <2>2, <2>3, <2>4, <3>1, <1>5, TxFields
    <3> QED BY <2>3, <3>2
  <2>5. CASE b # c
    BY <2>1, <2>2, <2>3, <2>5, <1>2, <1>5
  <2> QED BY <2>4, <2>5
<1> QED BY <1>8, <1>9, <1>10, <1>12, <1>13, <1>14, <1>15 DEF LineInv

\* delay_func takes the head of the list: the line of its file is as it was,
\* and the others have one stranger less between them.
LEMMA WorkTakeLine ==
  ASSUME TypeOK, LineInv, worker.at = "entered", wqPending # <<>>,
         worker' = [at |-> "working", tx |-> Head(wqPending)],
         wqPending' = Tail(wqPending),
         UNCHANGED <<life, txCounter, done, fate>>
  PROVE  LineInv'
<1> DEFINE h == Head(wqPending)
           L == Len(wqPending)
<1>1. /\ L \in Nat \ {0} /\ Len(wqPending') = L - 1
      /\ h = wqPending[1] /\ h \in Tx
      /\ \A i \in 1 .. L - 1 : wqPending'[i] = wqPending[i + 1]
      /\ Elements(wqPending) = Elements(wqPending') \cup {h}
  BY TailPlaces DEF TypeOK
<1> HIDE DEF h
<1>2. worker'.at = "working" /\ worker'.tx = h
  BY DEF h
<1>3. \A i \in 1 .. L - 1 : i \in Nat /\ i + 1 \in 1 .. L
  BY <1>1
<1>4. 1 \in 1 .. L
  BY <1>1
<1>5. PlacesAreLive'
  <2>1. \A i \in 1 .. L - 1 : fate[wqPending'[i]] = "live"
    BY <1>1, <1>3 DEF LineInv, PlacesAreLive
  <2>2. fate[h] = "live"
    BY <1>1, <1>4 DEF LineInv, PlacesAreLive
  <2> QED BY <2>1, <2>2, <1>1, <1>2 DEF LineInv, PlacesAreLive
<1>6. Numbered' /\ DoneInOrder'
  BY DEF LineInv, Numbered, DoneInOrder
<1>7. PendingInOrder'
  BY <1>1, <1>3 DEF LineInv, PendingInOrder
<1>8. DoneBeforePending'
  BY <1>1, <1>3 DEF LineInv, DoneBeforePending
<1>9. WorkBetween'
  <2>1. \A i \in 1 .. Len(done[h.caller]) : done[h.caller][i].id < h.id
    BY <1>1, <1>4, TxFields DEF LineInv, DoneBeforePending
  <2>2. \A j \in 1 .. L - 1 : wqPending'[j].caller = h.caller => h.id < wqPending'[j].id
    <3> SUFFICES ASSUME NEW j \in 1 .. L - 1, wqPending'[j].caller = h.caller
                 PROVE  h.id < wqPending'[j].id
      OBVIOUS
    <3>1. j + 1 \in 1 .. L /\ 1 < j + 1 /\ wqPending'[j] = wqPending[j + 1]
      BY <1>1, <1>3
    <3> QED BY <3>1, <1>1, <1>4 DEF LineInv, PendingInOrder
  <2> QED BY <2>1, <2>2, <1>1, <1>2 DEF WorkBetween
<1>10. \A x : Placed(x)' <=> Placed(x)
  BY <1>1, <1>2 DEF Placed, Working
<1>11. NoGaps'
  BY <1>10 DEF LineInv, NoGaps
<1> QED BY <1>5, <1>6, <1>7, <1>8, <1>9, <1>11 DEF LineInv

\* delay_func puts the answer at the end of its file's done_list: the request
\* stays where it stood, unless the file is closed and has no line any more.
LEMMA WorkAnswerLine ==
  ASSUME TypeOK, LineInv, WorkAnswer
  PROVE  LineInv'
<1> DEFINE tx == worker.tx
           d  == tx.caller
           L  == Len(done[d])
<1>1. /\ worker.at = "working" /\ worker' = [at |-> "waking", tx |-> tx]
      /\ UNCHANGED <<life, txCounter, wqPending>>
  BY DEF WorkAnswer
<1>2. tx \in Tx /\ d \in Ctx /\ fate[tx] = "live" /\ done[d] \in Seq(Tx)
  BY <1>1, PlaceTypes, TxFields DEF LineInv, PlacesAreLive, TypeOK
<1>3. worker'.at # "working"
  BY <1>1
<1>4. WorkBetween' /\ PendingInOrder'
  BY <1>1, <1>3 DEF LineInv, WorkBetween, PendingInOrder
<1>5. CASE life[d] = "closed"
  <2>1. done' = done /\ fate' = [x \in Tx |-> IF x \in {tx} THEN "lost" ELSE fate[x]]
    BY <1>5, <1>1 DEF WorkAnswer, Mark
  <2>2. \A x \in Tx : x # tx => fate'[x] = fate[x]
    BY <2>1
  <2>3. \A i \in 1 .. Len(wqPending) : wqPending[i] \in Tx /\ wqPending[i] # tx
    BY <1>1, <1>2, PlaceTypes, TxFields DEF LineInv, WorkBetween
  <2>4. \A c \in Ctx : \A i \in 1 .. Len(done[c]) : done[c][i] \in Tx /\ done[c][i] # tx
    BY <1>1, <1>2, PlaceTypes, TxFields DEF LineInv, WorkBetween, PlacesAreLive
  <2>5. PlacesAreLive'
    BY <2>1, <2>2, <2>3, <2>4, <1>1, <1>3 DEF LineInv, PlacesAreLive
  <2>6. Numbered'
    <3>1. tx.id <= txCounter[d]
      BY <1>2, LiveIsNumbered DEF LineInv
    <3>2. ~(tx.id > txCounter[d])
      BY <3>1, <1>2, PlaceTypes, TxFields
    <3>3. \A x \in Tx : x.id > txCounter[x.caller] => fate'[x] = "none"
      BY <3>2, <2>2 DEF LineInv, Numbered
    <3> QED BY <3>3, <2>1, <1>1 DEF LineInv, Numbered
  <2>7. DoneInOrder' /\ DoneBeforePending'
    BY <2>1, <1>1 DEF LineInv, DoneInOrder, DoneBeforePending
  <2>8. \A x : x.caller # d => (Placed(x)' <=> Placed(x))
    BY <2>1, <1>1, <1>3 DEF Placed, Working
  <2>9. NoGaps'
    <3> SUFFICES ASSUME NEW c \in Ctx, life[c] # "closed"
                 PROVE  \E n \in 0 .. txCounter[c] : \A x \in Tx : x.caller = c =>
                           (Placed(x)' <=> n < x.id /\ x.id <= txCounter[c])
      BY <1>1 DEF NoGaps
    <3>1. c # d
      BY <1>5
    <3> QED BY <3>1, <2>8 DEF LineInv, NoGaps
  <2> QED BY <2>5, <2>6, <2>7, <2>9, <1>4 DEF LineInv
<1>6. CASE life[d] # "closed"
  <2>1. done' = [done EXCEPT ![d] = Append(@, tx)] /\ fate' = fate
    BY <1>6, <1>1 DEF WorkAnswer
  <2> HIDE DEF tx, d, L
  <2>2. done'[d] = Append(done[d], tx) /\ \A c \in Ctx : c # d => done'[c] = done[c]
    BY <2>1, <1>2 DEF TypeOK
  <2>3. /\ L \in Nat /\ Len(done'[d]) = L + 1
        /\ \A i \in 1 .. L : done'[d][i] = done[d][i]
        /\ done'[d][L + 1] = tx
        /\ Elements(done'[d]) = Elements(done[d]) \cup {tx}
    BY <2>2, <1>2, AppendPlaces DEF L
  <2>4. tx.caller = d /\ worker.tx = tx
    BY DEF tx, d
  <2>5. PlacesAreLive'
    <3>1. \A c \in Ctx : \A i \in 1 .. Len(done'[c]) :
            done'[c][i].caller = c /\ fate[done'[c][i]] = "live"
      <4> SUFFICES ASSUME NEW c \in Ctx, NEW i \in 1 .. Len(done'[c])
                   PROVE  done'[c][i].caller = c /\ fate[done'[c][i]] = "live"
        OBVIOUS
      <4>1. CASE c # d
        BY <4>1, <2>2 DEF LineInv, PlacesAreLive
      <4>2. CASE c = d /\ i = L + 1
        BY <4>2, <2>3, <2>4, <1>2
      <4>3. CASE c = d /\ i # L + 1
        <5>1. i \in 1 .. L
          BY <4>3, <2>3
        <5> QED BY <4>3, <5>1, <2>3 DEF LineInv, PlacesAreLive, L
      <4> QED BY <4>1, <4>2, <4>3
    <3> QED BY <3>1, <2>1, <1>1, <1>3 DEF LineInv, PlacesAreLive
  <2>6. Numbered'
    BY <2>1, <2>2, <1>1, <1>6 DEF LineInv, Numbered
  <2>7. \A i \in 1 .. L : done[d][i].id < tx.id
    BY <2>4, <1>1 DEF LineInv, WorkBetween, L
  <2>8. \A j \in 1 .. Len(wqPending) : wqPending[j].caller = d => tx.id < wqPending[j].id
    BY <2>4, <1>1 DEF LineInv, WorkBetween
  <2>9. DoneInOrder'
    <3> SUFFICES ASSUME NEW c \in Ctx, NEW i \in 1 .. Len(done'[c]),
                        NEW j \in 1 .. Len(done'[c]), i < j
                 PROVE  done'[c][i].id < done'[c][j].id
      BY DEF DoneInOrder
    <3>1. CASE c # d
      BY <3>1, <2>2 DEF LineInv, DoneInOrder
    <3>2. CASE c = d
      <4>1. i \in 1 .. L
        BY <3>2, <2>3
      <4>2. CASE j = L + 1
        BY <3>2, <4>1, <4>2, <2>3, <2>7
      <4>3. CASE j # L + 1
        <5>1. j \in 1 .. L
          BY <3>2, <4>3, <2>3
        <5> QED BY <3>2, <4>1, <5>1, <2>3 DEF LineInv, DoneInOrder, L
      <4> QED BY <4>2, <4>3
    <3> QED BY <3>1, <3>2
  <2>10. DoneBeforePending'
    <3> SUFFICES ASSUME NEW c \in Ctx, NEW i \in 1 .. Len(done'[c]),
                        NEW j \in 1 .. Len(wqPending), wqPending[j].caller = c
                 PROVE  done'[c][i].id < wqPending[j].id
      BY <1>1 DEF DoneBeforePending
    <3>1. CASE c # d
      BY <3>1, <2>2 DEF LineInv, DoneBeforePending
    <3>2. CASE c = d /\ i = L + 1
      BY <3>2, <2>3, <2>8
    <3>3. CASE c = d /\ i # L + 1
      <4>1. i \in 1 .. L
        BY <3>3, <2>3
      <4> QED BY <3>3, <4>1, <2>3 DEF LineInv, DoneBeforePending, L
    <3> QED BY <3>1, <3>2, <3>3
  <2>11. \A x \in Tx : Placed(x)' <=> Placed(x)
    <3> SUFFICES ASSUME NEW x \in Tx PROVE Placed(x)' <=> Placed(x)
      OBVIOUS
    <3>1. CASE x.caller = d
      BY <3>1, <2>3, <2>4, <1>1, <1>3 DEF Placed, Working
    <3>2. CASE x.caller # d
      BY <3>2, <2>2, <2>4, <1>1, <1>3, TxFields DEF Placed, Working
    <3> QED BY <3>1, <3>2
  <2>12. NoGaps'
    BY <2>11, <1>1 DEF LineInv, NoGaps
  <2> QED BY <2>5, <2>6, <2>9, <2>10, <2>12, <1>4 DEF LineInv
<1> QED BY <1>5, <1>6

\* read() takes the first of the line, and the line starts one id later.
LEMMA ReadDoneLine ==
  ASSUME TypeOK, LineInv, NEW d \in Ctx, ReadDone(d)
  PROVE  LineInv'
<1> DEFINE h == Head(done[d])
           L == Len(done[d])
<1>1. /\ life[d] = "open" /\ done[d] # <<>>
      /\ done' = [done EXCEPT ![d] = Tail(@)]
      /\ fate' = [x \in Tx |-> IF x \in {h} THEN "delivered" ELSE fate[x]]
      /\ UNCHANGED <<life, txCounter, wqPending, worker>>
  BY DEF ReadDone, CanCall, Mark
<1>2. /\ L \in Nat \ {0} /\ Len(Tail(done[d])) = L - 1
      /\ h = done[d][1] /\ h \in Tx
      /\ \A i \in 1 .. L - 1 : Tail(done[d])[i] = done[d][i + 1]
      /\ Elements(done[d]) = Elements(Tail(done[d])) \cup {h}
  <2>1. done[d] \in Seq(Tx)
    BY DEF TypeOK
  <2> QED BY <2>1, <1>1, TailPlaces
<1> HIDE DEF h, L
<1>3. done'[d] = Tail(done[d]) /\ \A c \in Ctx : c # d => done'[c] = done[c]
  BY <1>1 DEF TypeOK
<1>4. 1 \in 1 .. L /\ \A i \in 1 .. L - 1 : i + 1 \in 1 .. L /\ 1 < i + 1
  BY <1>2
<1>5. h.caller = d /\ fate[h] = "live"
  BY <1>2, <1>4 DEF LineInv, PlacesAreLive, L
\* h is the first of its line.
<1>6. /\ \A c \in Ctx : \A i \in 1 .. Len(done'[c]) : done'[c][i].caller = d =>
            h.id < done'[c][i].id
      /\ worker.at = "working" /\ worker.tx.caller = d => h.id < worker.tx.id
      /\ \A j \in 1 .. Len(wqPending) : wqPending[j].caller = d => h.id < wqPending[j].id
  <2>1. \A i \in 1 .. Len(done'[d]) : h.id < done'[d][i].id
    BY <1>2, <1>3, <1>4 DEF LineInv, DoneInOrder, L
  <2>2. \A c \in Ctx : c # d => \A i \in 1 .. Len(done'[c]) : done'[c][i].caller # d
    BY <1>3 DEF LineInv, PlacesAreLive
  <2>3. (worker.at = "working" /\ worker.tx.caller = d) => h.id < worker.tx.id
    BY <1>2, <1>4 DEF LineInv, WorkBetween, L
  <2>4. \A j \in 1 .. Len(wqPending) : wqPending[j].caller = d => h.id < wqPending[j].id
    BY <1>2, <1>4 DEF LineInv, DoneBeforePending, L
  <2> QED BY <2>1, <2>2, <2>3, <2>4
<1>7. \A x \in Tx : x # h => fate'[x] = fate[x]
  BY <1>1
<1>8. PlacesAreLive'
  <2>1. \A i \in 1 .. Len(wqPending) : fate'[wqPending[i]] = "live"
    <3>1. \A i \in 1 .. Len(wqPending) : wqPending[i] \in Tx /\ wqPending[i] # h
      BY <1>5, <1>6, PlaceTypes, TxFields
    <3> QED BY <3>1, <1>7 DEF LineInv, PlacesAreLive
  <2>2. worker.at = "working" => fate'[worker.tx] = "live"
    <3>1. worker.at = "working" => worker.tx \in Tx /\ worker.tx # h
      BY <1>5, <1>6, PlaceTypes, TxFields
    <3> QED BY <3>1, <1>7 DEF LineInv, PlacesAreLive
  <2>3. \A c \in Ctx : \A i \in 1 .. Len(done'[c]) :
          done'[c][i].caller = c /\ fate'[done'[c][i]] = "live"
    <3> SUFFICES ASSUME NEW c \in Ctx, NEW i \in 1 .. Len(done'[c])
                 PROVE  done'[c][i].caller = c /\ fate'[done'[c][i]] = "live"
      OBVIOUS
    <3>1. done'[c][i] \in Tx /\ done'[c][i].caller = c /\ fate[done'[c][i]] = "live"
      <4>1. CASE c # d
        BY <4>1, <1>3, PlaceTypes DEF LineInv, PlacesAreLive
      <4>2. CASE c = d
        <5>1. i + 1 \in 1 .. L /\ done'[d][i] = done[d][i + 1]
          BY <4>2, <1>2, <1>3, <1>4
        <5> QED BY <4>2, <5>1, PlaceTypes DEF LineInv, PlacesAreLive, L
      <4> QED BY <4>1, <4>2
    <3>2. done'[c][i] # h
      BY <3>1, <1>5, <1>6, TxFields
    <3> QED BY <3>1, <3>2, <1>7
  <2> QED BY <2>1, <2>2, <2>3, <1>1 DEF PlacesAreLive
<1>9. Numbered'
  <2>1. ~(h.id > txCounter[h.caller])
    BY <1>2, <1>5, LiveIsNumbered, PlaceTypes, TxFields DEF LineInv
  <2>2. \A x \in Tx : x.id > txCounter[x.caller] => fate'[x] = "none"
    BY <2>1, <1>7 DEF LineInv, Numbered
  <2> QED BY <2>2, <1>1, <1>3 DEF LineInv, Numbered
<1>10. DoneInOrder'
  <2> SUFFICES ASSUME NEW c \in Ctx, NEW i \in 1 .. Len(done'[c]),
                      NEW j \in 1 .. Len(done'[c]), i < j
               PROVE  done'[c][i].id < done'[c][j].id
    BY DEF DoneInOrder
  <2>1. CASE c # d
    BY <2>1, <1>3 DEF LineInv, DoneInOrder
  <2>2. CASE c = d
    <3>1. i + 1 \in 1 .. L /\ j + 1 \in 1 .. L /\ i + 1 < j + 1
          /\ done'[d][i] = done[d][i + 1] /\ done'[d][j] = done[d][j + 1]
      BY <2>2, <1>2, <1>3
    <3> QED BY <2>2, <3>1 DEF LineInv, DoneInOrder, L
  <2> QED BY <2>1, <2>2
<1>11. DoneBeforePending'
  <2> SUFFICES ASSUME NEW c \in Ctx, NEW i \in 1 .. Len(done'[c]),
                      NEW j \in 1 .. Len(wqPending), wqPending[j].caller = c
               PROVE  done'[c][i].id < wqPending[j].id
    BY <1>1 DEF DoneBeforePending
  <2>1. CASE c # d
    BY <2>1, <1>3 DEF LineInv, DoneBeforePending
  <2>2. CASE c = d
    <3>1. i + 1 \in 1 .. L /\ done'[d][i] = done[d][i + 1]
      BY <2>2, <1>2, <1>3, <1>4
    <3> QED BY <2>2, <3>1 DEF LineInv, DoneBeforePending, L
  <2> QED BY <2>1, <2>2
<1>12. PendingInOrder'
  BY <1>1 DEF LineInv, PendingInOrder
<1>13. WorkBetween'
  <2> SUFFICES ASSUME worker.at = "working", NEW i \in 1 .. Len(done'[worker.tx.caller])
               PROVE  done'[worker.tx.caller][i].id < worker.tx.id
    BY <1>1 DEF LineInv, WorkBetween
  <2>1. worker.tx.caller \in Ctx
    BY PlaceTypes, TxFields
  <2>2. CASE worker.tx.caller # d
    BY <2>1, <2>2, <1>3 DEF LineInv, WorkBetween
  <2>3. CASE worker.tx.caller = d
    <3>1. i + 1 \in 1 .. L /\ done'[d][i] = done[d][i + 1]
      BY <2>3, <1>2, <1>3, <1>4
    <3> QED BY <2>3, <3>1 DEF LineInv, WorkBetween, L
  <2> QED BY <2>2, <2>3
<1>14. \A x \in Tx : Placed(x)' <=> (Placed(x) /\ x # h)
  <2> SUFFICES ASSUME NEW x \in Tx PROVE Placed(x)' <=> (Placed(x) /\ x # h)
    OBVIOUS
  <2>1. Placed(x)' => x # h
    <3>1. x.caller \in Ctx /\ h.id \in Nat
      BY <1>2, TxFields
    <3>2. h \in Elements(done'[d]) => FALSE
      <4> SUFFICES ASSUME NEW i \in 1 .. Len(done'[d]), done'[d][i] = h PROVE FALSE
        BY DEF Elements
      <4> QED BY <3>1, <1>5, <1>6
    <3>3. h \in Elements(wqPending) => FALSE
      BY <3>1, <1>5, <1>6 DEF Elements
    <3>4. ~Working(h)
      BY <3>1, <1>5, <1>6 DEF Working
    <3> QED BY <3>2, <3>3, <3>4, <1>1, <1>5 DEF Placed, Working
  <2>2. CASE x.caller = d
    BY <2>1, <2>2, <1>1, <1>2, <1>3 DEF Placed, Working
  <2>3. CASE x.caller # d
    BY <2>3, <1>1, <1>3, <1>5, TxFields DEF Placed, Working
  <2> QED BY <2>2, <2>3
<1>15. NoGaps'
  <2> SUFFICES ASSUME NEW c \in Ctx, life[c] # "closed"
               PROVE  \E n \in 0 .. txCounter[c] : \A x \in Tx : x.caller = c =>
                         (Placed(x)' <=> n < x.id /\ x.id <= txCounter[c])
    BY <1>1 DEF NoGaps
  <2>1. PICK n \in 0 .. txCounter[c] :
          \A x \in Tx : x.caller = c => (Placed(x) <=> n < x.id /\ x.id <= txCounter[c])
    BY DEF LineInv, NoGaps
  <2>2. CASE c # d
    BY <2>1, <2>2, <1>5, <1>14
  <2>3. CASE c = d
    <3>1. n \in Nat /\ txCounter[d] \in Nat /\ h.id \in 1 .. MaxTx /\ h.id \in Nat
      BY <2>3, <1>2, PlaceTypes, TxFields
    <3>2. Placed(h)
      <4>1. h \in Elements(done[d])
        BY <1>2
      <4> QED BY <4>1, <1>5 DEF Placed
    <3>3. n < h.id /\ h.id <= txCounter[d]
      BY <2>1, <2>3, <3>2, <1>2, <1>5
    <3>4. \A x \in Tx : (x.caller = d /\ Placed(x) /\ x # h) => h.id < x.id
      <4> SUFFICES ASSUME NEW x \in Tx, x.caller = d, Placed(x)' PROVE h.id < x.id
        BY <1>14
      <4>1. CASE x \in Elements(done'[d])
        BY <4>1, <1>6 DEF Elements
      <4>2. CASE Working(x)
        BY <4>2, <1>6 DEF Working
      <4>3. CASE x \in Elements(wqPending)
        BY <4>3, <1>6 DEF Elements
      <4> QED BY <4>1, <4>2, <4>3, <1>1 DEF Placed, Working
    <3>5. h.id = n + 1
      <4> SUFFICES ASSUME n + 1 < h.id PROVE FALSE
        BY <3>1, <3>3
      <4> DEFINE x == [caller |-> d, id |-> n + 1]
      <4>1. x \in Tx /\ x.caller = d /\ x.id = n + 1
        BY <3>1, ConstantsAssumption DEF Tx
      <4> HIDE DEF x
      <4>2. Placed(x) /\ x # h
        BY <4>1, <2>1, <2>3, <3>1, <3>3
      <4> QED BY <4>1, <4>2, <3>1, <3>4
    <3>6. n + 1 \in 0 .. txCounter[d]
      BY <3>1, <3>3, <3>5
    <3>7. \A x \in Tx : x.caller = d => (Placed(x)' <=> n + 1 < x.id /\ x.id <= txCounter[d])
      <4> SUFFICES ASSUME NEW x \in Tx, x.caller = d
                   PROVE  Placed(x)' <=> n + 1 < x.id /\ x.id <= txCounter[d]
        OBVIOUS
      <4>1. x.id \in Nat /\ (x = h <=> x.id = n + 1)
        BY <3>5, <1>2, <1>5, TxFields
      <4>2. Placed(x) <=> n < x.id /\ x.id <= txCounter[d]
        BY <2>1, <2>3
      <4> QED BY <4>1, <4>2, <3>1, <1>14
    <3> QED BY <2>3, <3>6, <3>7
  <2> QED BY <2>2, <2>3
<1> QED BY <1>8, <1>9, <1>10, <1>11, <1>12, <1>13, <1>15 DEF LineInv

\* release() of the file frees the answers nobody read.
LEMMA CloseLine ==
  ASSUME TypeOK, LineInv, NEW d \in Ctx, Close(d)
  PROVE  LineInv'
<1>1. /\ life' = [life EXCEPT ![d] = "closed"]
      /\ done' = [done EXCEPT ![d] = <<>>]
      /\ fate' = [x \in Tx |-> IF x \in Elements(done[d]) THEN "abandoned" ELSE fate[x]]
      /\ UNCHANGED <<txCounter, wqPending, worker>>
  BY DEF Close, Mark
<1>2. /\ done'[d] = <<>> /\ \A c \in Ctx : c # d => done'[c] = done[c]
      /\ life'[d] = "closed" /\ \A c \in Ctx : c # d => life'[c] = life[c]
  BY <1>1 DEF TypeOK
<1>3. Len(done'[d]) = 0
  BY <1>2, EmptyPlaces
<1>4. \A x \in Elements(done[d]) : x \in Tx /\ x.caller = d /\ fate[x] = "live"
  BY PlaceTypes DEF LineInv, PlacesAreLive, Elements
<1>5. \A x \in Tx : x \notin Elements(done[d]) => fate'[x] = fate[x]
  BY <1>1
<1>6. \A i \in 1 .. Len(wqPending) : wqPending[i] \notin Elements(done[d])
  <2> SUFFICES ASSUME NEW i \in 1 .. Len(wqPending), NEW k \in 1 .. Len(done[d]),
                      done[d][k] = wqPending[i]
               PROVE  FALSE
    BY DEF Elements
  <2>1. done[d][k].id < wqPending[i].id /\ done[d][k].id \in Nat
    BY PlaceTypes, TxFields DEF LineInv, DoneBeforePending, PlacesAreLive
  <2> QED BY <2>1
<1>7. worker.at = "working" => worker.tx \notin Elements(done[d])
  <2> SUFFICES ASSUME worker.at = "working", NEW k \in 1 .. Len(done[d]), done[d][k] = worker.tx
               PROVE  FALSE
    BY DEF Elements
  <2>1. done[d][k].id < worker.tx.id /\ done[d][k].id \in Nat
    BY PlaceTypes, TxFields DEF LineInv, WorkBetween, PlacesAreLive
  <2> QED BY <2>1
<1>8. PlacesAreLive'
  <2>1. \A i \in 1 .. Len(wqPending) : fate'[wqPending[i]] = "live"
    BY <1>5, <1>6, PlaceTypes DEF LineInv, PlacesAreLive
  <2>2. worker.at = "working" => fate'[worker.tx] = "live"
    BY <1>5, <1>7, PlaceTypes DEF LineInv, PlacesAreLive
  <2>3. \A c \in Ctx : \A i \in 1 .. Len(done'[c]) :
          done'[c][i].caller = c /\ fate'[done'[c][i]] = "live"
    <3> SUFFICES ASSUME NEW c \in Ctx, NEW i \in 1 .. Len(done'[c])
                 PROVE  done'[c][i].caller = c /\ fate'[done'[c][i]] = "live"
      OBVIOUS
    <3>1. c # d
      BY <1>3
    <3>2. done'[c][i] \in Tx /\ done'[c][i].caller = c /\ fate[done'[c][i]] = "live"
      BY <3>1, <1>2, PlaceTypes DEF LineInv, PlacesAreLive
    <3> QED BY <3>1, <3>2, <1>4, <1>5
  <2> QED BY <2>1, <2>2, <2>3, <1>1 DEF PlacesAreLive
<1>9. Numbered'
  <2>1. \A x \in Tx : x.id > txCounter[x.caller] => fate'[x] = "none"
    <3> SUFFICES ASSUME NEW x \in Tx, x.id > txCounter[x.caller] PROVE fate'[x] = "none"
      OBVIOUS
    <3>1. fate[x] = "none"
      BY DEF LineInv, Numbered
    <3> QED BY <3>1, <1>4, <1>5
  <2> QED BY <2>1, <1>1, <1>2 DEF LineInv, Numbered
<1>10. DoneInOrder' /\ DoneBeforePending' /\ PendingInOrder'
  <2>1. \A c \in Ctx : Len(done'[c]) = 0 \/ done'[c] = done[c]
    BY <1>2, <1>3
  <2> QED BY <2>1, <1>1 DEF LineInv, DoneInOrder, DoneBeforePending, PendingInOrder
<1>11. WorkBetween'
  <2>1. worker.at = "working" => worker.tx.caller \in Ctx
    BY PlaceTypes, TxFields
  <2> QED BY <2>1, <1>1, <1>2, <1>3 DEF LineInv, WorkBetween
<1>12. NoGaps'
  <2> SUFFICES ASSUME NEW c \in Ctx, c # d, life[c] # "closed"
               PROVE  \E n \in 0 .. txCounter[c] : \A x \in Tx : x.caller = c =>
                         (Placed(x)' <=> n < x.id /\ x.id <= txCounter[c])
    BY <1>1, <1>2 DEF NoGaps
  <2>1. \A x : x.caller = c => (Placed(x)' <=> Placed(x))
    BY <1>1, <1>2 DEF Placed, Working
  <2> QED BY <2>1 DEF LineInv, NoGaps
<1> QED BY <1>8, <1>9, <1>10, <1>11, <1>12 DEF LineInv

\* dwq_exit frees what still waits: every file is closed by then, or was never
\* opened.
LEMMA ExitEndLine ==
  ASSUME TypeOK, WorkInv, LineInv, ExitEnd
  PROVE  LineInv'
<1>1. /\ worker = Resting /\ wqPending' = <<>>
      /\ fate' = [x \in Tx |-> IF x \in Elements(wqPending) THEN "lost" ELSE fate[x]]
      /\ UNCHANGED <<life, txCounter, worker, done>>
  BY DEF ExitEnd, CancelEnd, Mark
<1>2. \A c \in Ctx : life[c] # "open"
  BY DEF ExitEnd, CancelEnd, WorkInv, ExitInv
<1>3. Len(wqPending') = 0 /\ Elements(wqPending') = {} /\ worker.at # "working"
  BY <1>1, EmptyPlaces DEF Resting
<1>4. \A x \in Elements(wqPending) : x \in Tx /\ fate[x] = "live"
  BY PlaceTypes DEF LineInv, PlacesAreLive, Elements
<1>5. \A c \in Ctx : \A i \in 1 .. Len(done[c]) : FALSE
  <2> SUFFICES ASSUME NEW c \in Ctx, NEW i \in 1 .. Len(done[c]) PROVE FALSE
    OBVIOUS
  <2>1. life[c] = "unopened" /\ txCounter[c] = 0
    BY <1>2, EmptyPlaces DEF LineInv, Numbered, TypeOK
  <2>2. done[c][i] \in Tx /\ done[c][i].caller = c /\ fate[done[c][i]] = "live"
    BY PlaceTypes DEF LineInv, PlacesAreLive
  <2>3. done[c][i].id <= txCounter[c] /\ done[c][i].id \in 1 .. MaxTx
    BY <2>2, LiveIsNumbered, TxFields DEF LineInv
  <2> QED BY <2>1, <2>3
<1>6. PlacesAreLive' /\ DoneInOrder' /\ PendingInOrder' /\ DoneBeforePending' /\ WorkBetween'
  BY <1>1, <1>3, <1>5
     DEF PlacesAreLive, DoneInOrder, PendingInOrder, DoneBeforePending, WorkBetween
<1>7. Numbered'
  <2>1. \A x \in Tx : x.id > txCounter[x.caller] => fate'[x] = "none"
    BY <1>1, <1>4 DEF LineInv, Numbered
  <2> QED BY <2>1, <1>1 DEF LineInv, Numbered
<1>8. NoGaps'
  <2> SUFFICES ASSUME NEW c \in Ctx, life[c] # "closed"
               PROVE  \A x \in Tx : x.caller = c =>
                         (Placed(x)' <=> 0 < x.id /\ x.id <= txCounter[c])
    BY <1>1, PlaceTypes DEF NoGaps
  <2>1. txCounter[c] = 0
    BY <1>2 DEF LineInv, Numbered, TypeOK
  <2>2. \A x \in Tx : x.caller = c => ~Placed(x)'
    BY <1>1, <1>3, <1>5 DEF Placed, Working, Elements
  <2> QED BY <2>1, <2>2, TxFields
<1> QED BY <1>6, <1>7, <1>8 DEF LineInv

\* The steps that move no request; the worker is working after them if it was.
LEMMA NothingMoves ==
  ASSUME LineInv, UNCHANGED <<txCounter, wqPending, done, fate>>,
         worker' = worker \/ (worker.at # "working" /\ worker'.at # "working"),
         \A c \in Ctx : life'[c] = life[c] \/ (life[c] = "unopened" /\ life'[c] = "open")
  PROVE  LineInv'
<1>1. PlacesAreLive' /\ WorkBetween'
  BY DEF LineInv, PlacesAreLive, WorkBetween
<1>2. Numbered'
  BY DEF LineInv, Numbered
<1>3. DoneInOrder' /\ PendingInOrder' /\ DoneBeforePending'
  BY DEF LineInv, DoneInOrder, PendingInOrder, DoneBeforePending
<1>4. \A x : Placed(x)' <=> Placed(x)
  BY DEF Placed, Working
<1>5. NoGaps'
  BY <1>4 DEF LineInv, NoGaps
<1> QED BY <1>1, <1>2, <1>3, <1>5 DEF LineInv

LEMMA LineInvariant == Spec => []LineInv
<1>1. Init => LineInv
  BY LineInvInit
<1>2. TypeOK /\ WorkInv /\ LineInv /\ [Next]_vars => LineInv'
  <2> SUFFICES ASSUME TypeOK, WorkInv, LineInv, [Next]_vars PROVE LineInv'
    OBVIOUS
  <2>1. ASSUME NEW c \in Ctx, Open(c) PROVE LineInv'
    BY <2>1, NothingMoves DEF Open, TypeOK
  <2>2. ASSUME NEW c \in Ctx, Stop(c) \/ StopEnd(c) \/ ReadSleep(c) \/ ReadInterrupt(c)
        PROVE  LineInv'
    BY <2>2, NothingMoves DEF Stop, StopEnd, ReadSleep, ReadInterrupt
  <2>3. ASSUME Exit PROVE LineInv'
    BY <2>3, NothingMoves DEF Exit
  <2>4. ASSUME WorkStart \/ WorkWake \/ WorkLeave PROVE LineInv'
    BY <2>4, NothingMoves DEF WorkStart, WorkWake, WorkLeave, Resting
  <2>5. ASSUME WorkTake PROVE LineInv'
    <3>1. /\ worker.at = "entered"
          /\ UNCHANGED <<life, txCounter, done, fate>>
          /\ \/ worker' = Resting /\ UNCHANGED wqPending
             \/ /\ wqPending # <<>> /\ wqPending' = Tail(wqPending)
                /\ worker' = [at |-> "working", tx |-> Head(wqPending)]
      BY <2>5 DEF WorkTake
    <3>2. CASE worker' = Resting /\ UNCHANGED wqPending
      BY <3>1, <3>2, NothingMoves DEF Resting
    <3> QED BY <3>1, <3>2, WorkTakeLine
  <2>6. ASSUME UNCHANGED vars PROVE LineInv'
    BY <2>6, NothingMoves DEF vars
  <2> QED
    BY <2>1, <2>2, <2>3, <2>4, <2>5, <2>6, RequestLine, ReadDoneLine, CloseLine,
       ExitEndLine, WorkAnswerLine, ConstantsAssumption DEF Next, Work
<1> QED BY <1>1, <1>2, TypeCorrect, WorkInvariant, PTL DEF Spec

\* No answer of delay_func is missed.  The invariant of the lines says what the
\* wake-up rests on: the request in work is live, and only its own file's calls
\* free it - which that file does not make while it sleeps in read().
THEOREM SleepersAreWokenHolds == Spec => []SleepersAreWoken
<1>1. Init => SleepersAreWoken
  BY DEF Init, SleepersAreWoken
<1>2. TypeOK /\ LineInv /\ SleepersAreWoken /\ [Next]_vars => SleepersAreWoken'
  <2> SUFFICES ASSUME TypeOK, LineInv, SleepersAreWoken, [Next]_vars,
                      NEW c \in asleep', done'[c] # <<>>
               PROVE  worker'.at = "waking" /\ worker'.tx.caller = c /\ fate'[worker'.tx] = "live"
    BY DEF SleepersAreWoken
  <2> DEFINE Due == worker.at = "waking" /\ worker.tx.caller = c /\ fate[worker.tx] = "live"
             Due2 == worker'.at = "waking" /\ worker'.tx.caller = c /\ fate'[worker'.tx] = "live"
  <2>1. c \in asleep /\ done[c] # <<>> => Due
    BY DEF SleepersAreWoken
  <2>2. Due => worker.tx \in Tx
    BY DEF TypeOK, Worker, Resting
  <2>3. ASSUME NEW b \in Ctx, Request(b) PROVE Due2
    BY <2>1, <2>2, <2>3 DEF Request, Mark
  <2>4. ASSUME NEW b \in Ctx, ReadDone(b) PROVE Due2
    <3>1. /\ b \notin asleep /\ asleep' = asleep /\ worker' = worker /\ done[b] # <<>>
          /\ done' = [done EXCEPT ![b] = Tail(@)]
          /\ fate' = [x \in Tx |-> IF x \in {Head(done[b])} THEN "delivered" ELSE fate[x]]
      BY <2>4 DEF ReadDone, CanCall, Mark
    <3>2. c \in asleep /\ c # b /\ done[c] # <<>>
      BY <3>1 DEF TypeOK
    <3>3. Head(done[b]).caller = b
      <4>1. done[b] \in Seq(Tx)
        BY DEF TypeOK
      <4>2. Head(done[b]) = done[b][1] /\ Len(done[b]) \in Nat \ {0}
        BY <4>1, <3>1, TailPlaces
      <4>3. 1 \in 1 .. Len(done[b])
        BY <4>2
      <4> QED BY <4>2, <4>3 DEF LineInv, PlacesAreLive
    <3>4. worker.tx # Head(done[b])
      BY <2>1, <3>2, <3>3
    <3> QED BY <2>1, <2>2, <3>1, <3>2, <3>4
  <2>5. ASSUME NEW b \in Ctx, Close(b) PROVE Due2
    <3>1. /\ b \notin asleep /\ asleep' = asleep /\ worker' = worker
          /\ done' = [done EXCEPT ![b] = <<>>]
          /\ fate' = [x \in Tx |-> IF x \in Elements(done[b]) THEN "abandoned" ELSE fate[x]]
      BY <2>5 DEF Close, CanCall, Mark
    <3>2. c \in asleep /\ c # b /\ done[c] # <<>>
      BY <3>1 DEF TypeOK
    <3>3. worker.tx \notin Elements(done[b])
      BY <2>1, <3>2 DEF LineInv, PlacesAreLive, Elements
    <3> QED BY <2>1, <2>2, <3>1, <3>2, <3>3
  <2>6. ASSUME NEW b \in Ctx, ReadSleep(b) \/ ReadInterrupt(b) PROVE Due2
    BY <2>1, <2>6 DEF ReadSleep, ReadInterrupt
  <2>7. ASSUME NEW b \in Ctx, Open(b) \/ Stop(b) \/ StopEnd(b) PROVE Due2
    BY <2>1, <2>7 DEF Open, Stop, StopEnd
  <2>8. ASSUME Exit \/ ExitEnd PROVE Due2
    BY <2>1, <2>8 DEF Exit, ExitEnd, CancelEnd, Resting
  <2>9. ASSUME WorkStart \/ WorkTake \/ WorkLeave PROVE Due2
    BY <2>1, <2>9 DEF WorkStart, WorkTake, WorkLeave, Resting
  <2>10. ASSUME WorkAnswer PROVE Due2
    <3>1. /\ worker.at = "working" /\ worker'.at = "waking" /\ worker'.tx = worker.tx
          /\ asleep' = asleep
      BY <2>10 DEF WorkAnswer
    <3>2. worker.tx \in Tx /\ worker.tx.caller \in Ctx /\ fate[worker.tx] = "live"
      BY <3>1, PlaceTypes, TxFields DEF LineInv, PlacesAreLive
    <3>3. done[c] = <<>> /\ c \in Ctx
      BY <2>1, <3>1 DEF TypeOK
    <3>4. CASE life[worker.tx.caller] = "closed"
      BY <2>10, <3>3, <3>4 DEF WorkAnswer
    <3>5. CASE life[worker.tx.caller] # "closed"
      <4>1. done' = [done EXCEPT ![worker.tx.caller] = Append(@, worker.tx)] /\ fate' = fate
        BY <2>10, <3>5 DEF WorkAnswer
      <4>2. c = worker.tx.caller
        BY <3>3, <4>1 DEF TypeOK
      <4> QED BY <3>1, <3>2, <4>1, <4>2
    <3> QED BY <3>4, <3>5
  <2>11. ASSUME WorkWake PROVE Due2
    BY <2>1, <2>11 DEF WorkWake
  <2>12. ASSUME UNCHANGED vars PROVE Due2
    BY <2>1, <2>12 DEF vars
  <2> HIDE DEF Due2
  <2>13. Due2
    BY <2>3, <2>4, <2>5, <2>6, <2>7, <2>8, <2>9, <2>10, <2>11, <2>12,
       ConstantsAssumption DEF Next, Work
  <2> QED BY <2>13 DEF Due2
<1> QED BY <1>1, <1>2, TypeCorrect, LineInvariant, PTL DEF Spec

\* The requests of an open file that were not read yet stand in the order they
\* were written, none missing, from its done_list through delay_func to the end
\* of the common list, whoever else's requests stand between them.
THEOREM AnswersInOrderHolds == Spec => []AnswersInOrder
<1>1. TypeOK /\ LineInv => AnswersInOrder
  <2> SUFFICES ASSUME TypeOK, LineInv, NEW c \in Ctx, life[c] = "open"
               PROVE  LET s    == Standing(c)
                          mine == {i \in DOMAIN s : s[i].caller = c}
                      IN  /\ \A i, j \in mine : i < j => s[i].id < s[j].id
                          /\ \E n \in 0 .. txCounter[c] :
                                {s[i].id : i \in mine} = n + 1 .. txCounter[c]
    BY DEF AnswersInOrder
  <2> DEFINE s    == Standing(c)
             mine == {i \in DOMAIN s : s[i].caller = c}
             W    == InWork(c)
             D    == Len(done[c])
             K    == D + Len(W)
  <2>1. done[c] \in Seq(Tx) /\ wqPending \in Seq(Tx) /\ D \in Nat /\ Len(wqPending) \in Nat
    BY LenProperties DEF TypeOK
  <2>2. /\ W \in Seq(Tx)
        /\ Len(W) = 0 \/ (Len(W) = 1 /\ W[1] = worker.tx)
        /\ Len(W) = 1 <=> (worker.at = "working" /\ worker.tx.caller = c)
    <3>1. CASE worker.at = "working" /\ worker.tx.caller = c
      <4>1. W = <<worker.tx>> /\ worker.tx \in Tx
        BY <3>1, PlaceTypes DEF InWork
      <4>2. \A x \in Tx : <<x>> \in Seq(Tx) /\ Len(<<x>>) = 1 /\ <<x>>[1] = x
        OBVIOUS
      <4> QED BY <3>1, <4>1, <4>2
    <3>2. CASE ~(worker.at = "working" /\ worker.tx.caller = c)
      <4>1. W = <<>>
        BY <3>2 DEF InWork
      <4>2. <<>> \in Seq(Tx)
        BY EmptySeq
      <4> HIDE DEF W
      <4> QED BY <3>2, <4>1, <4>2, EmptyPlaces
    <3> QED BY <3>1, <3>2
  <2> HIDE DEF W
  <2> DEFINE P == done[c] \o W
             w == Len(W)
  <2>3. /\ P \in Seq(Tx) /\ Len(P) = K
        /\ \A i \in 1 .. K : i <= D => P[i] = done[c][i]
        /\ \A i \in 1 .. K : ~(i <= D) => P[i] = W[i - D]
    BY <2>1, <2>2, ConcatProperties
  <2>4. s = P \o wqPending
    BY DEF Standing, W
  <2>5. K \in Nat /\ D <= K /\ (w = 0 => K = D) /\ (w = 1 => K = D + 1)
    <3>1. w = 0 \/ w = 1
      BY <2>2
    <3>2. D \in Nat /\ K = D + w
      BY <2>1
    <3> HIDE DEF w, D, K
    <3> QED BY <3>1, <3>2
  <2> HIDE DEF s, D, K, P
  <2>6. /\ s \in Seq(Tx) /\ Len(s) = K + Len(wqPending)
        /\ \A i \in 1 .. K + Len(wqPending) : i <= K => s[i] = P[i]
        /\ \A i \in 1 .. K + Len(wqPending) : ~(i <= K) => s[i] = wqPending[i - K]
    BY <2>1, <2>3, <2>4, ConcatProperties, ZenonT(30)
  <2>7. DOMAIN s = 1 .. K + Len(wqPending)
    BY <2>6, LenProperties
  <2>8. \A i \in DOMAIN s :
          \/ i \in 1 .. D /\ s[i] = done[c][i]
          \/ i = D + 1 /\ i = K /\ s[i] = worker.tx
             /\ worker.at = "working" /\ worker.tx.caller = c
          \/ i > K /\ i - K \in 1 .. Len(wqPending) /\ s[i] = wqPending[i - K]
    <3> SUFFICES ASSUME NEW i \in DOMAIN s
                 PROVE  \/ i \in 1 .. D /\ s[i] = done[c][i]
                        \/ i = D + 1 /\ i = K /\ s[i] = worker.tx
                           /\ worker.at = "working" /\ worker.tx.caller = c
                        \/ i > K /\ i - K \in 1 .. Len(wqPending) /\ s[i] = wqPending[i - K]
      OBVIOUS
    <3>1. CASE i <= D
      <4>1. i \in 1 .. K /\ i \in 1 .. D
        BY <3>1, <2>1, <2>5, <2>7
      <4>2. s[i] = P[i] /\ P[i] = done[c][i]
        BY <4>1, <3>1, <2>3, <2>5, <2>6, <2>7
      <4> QED BY <4>1, <4>2
    <3>2. CASE D < i /\ i <= K
      <4>1. i \in 1 .. K /\ i = D + 1 /\ i = K /\ i - D = 1 /\ Len(W) = 1
        BY <3>2, <2>1, <2>2, <2>5, <2>7
      <4>2. s[i] = P[i] /\ P[i] = W[i - D]
        BY <4>1, <3>2, <2>1, <2>3, <2>5, <2>6, <2>7
      <4> QED BY <4>1, <4>2, <2>2
    <3>3. CASE K < i
      BY <3>3, <2>1, <2>5, <2>6, <2>7
    <3> QED BY <3>1, <3>2, <3>3, <2>1, <2>5, <2>7
  <2>9. /\ \A k \in 1 .. D : k \in DOMAIN s /\ s[k] = done[c][k]
        /\ (worker.at = "working" /\ worker.tx.caller = c) => K \in DOMAIN s /\ s[K] = worker.tx
        /\ \A k \in 1 .. Len(wqPending) : K + k \in DOMAIN s /\ s[K + k] = wqPending[k]
    <3>1. \A k \in 1 .. D : k \in DOMAIN s /\ s[k] = done[c][k]
      <4> SUFFICES ASSUME NEW k \in 1 .. D PROVE k \in DOMAIN s /\ s[k] = done[c][k]
        OBVIOUS
      <4>1. k \in 1 .. K /\ k \in 1 .. K + Len(wqPending) /\ k <= D /\ k <= K
        BY <2>1, <2>5
      <4>2. s[k] = P[k] /\ P[k] = done[c][k]
        BY <4>1, <2>3, <2>6
      <4> QED BY <4>1, <4>2, <2>7
    <3>2. (worker.at = "working" /\ worker.tx.caller = c) => K \in DOMAIN s /\ s[K] = worker.tx
      <4> SUFFICES ASSUME worker.at = "working", worker.tx.caller = c
                   PROVE  K \in DOMAIN s /\ s[K] = worker.tx
        OBVIOUS
      <4>1. K = D + 1 /\ K \in 1 .. K /\ K - D = 1 /\ W[1] = worker.tx /\ ~(K <= D)
        BY <2>1, <2>2, <2>5
      <4>2. P[K] = W[K - D]
        BY <4>1, <2>3
      <4>3. K \in 1 .. K + Len(wqPending) /\ K <= K
        BY <2>1, <2>5, <4>1
      <4>4. s[K] = P[K]
        BY <4>3, <2>6
      <4> QED BY <4>1, <4>2, <4>3, <4>4, <2>7
    <3>3. \A k \in 1 .. Len(wqPending) : K + k \in DOMAIN s /\ s[K + k] = wqPending[k]
      <4> SUFFICES ASSUME NEW k \in 1 .. Len(wqPending)
                   PROVE  K + k \in DOMAIN s /\ s[K + k] = wqPending[k]
        OBVIOUS
      <4>1. K + k \in 1 .. K + Len(wqPending) /\ ~(K + k <= K) /\ (K + k) - K = k
        BY <2>1, <2>5
      <4> QED BY <4>1, <2>6, <2>7
    <3> QED BY <3>1, <3>2, <3>3
  <2>10. ASSUME NEW i \in mine, NEW j \in mine, i < j PROVE s[i].id < s[j].id
    <3>1. s[i].caller = c /\ s[j].caller = c /\ i \in DOMAIN s /\ j \in DOMAIN s
      OBVIOUS
    <3>2. i \in Nat /\ j \in Nat
      BY <3>1, <2>7
    <3>3. CASE i \in 1 .. D /\ s[i] = done[c][i]
      <4>1. CASE j \in 1 .. D /\ s[j] = done[c][j]
        BY <3>3, <4>1, <2>10 DEF LineInv, DoneInOrder, D
      <4>2. CASE s[j] = worker.tx /\ worker.at = "working" /\ worker.tx.caller = c
        BY <3>3, <4>2 DEF LineInv, WorkBetween, D
      <4>3. CASE j - K \in 1 .. Len(wqPending) /\ s[j] = wqPending[j - K]
        BY <3>1, <3>3, <4>3 DEF LineInv, DoneBeforePending, D
      <4> QED BY <3>1, <4>1, <4>2, <4>3, <2>8
    <3>4. CASE i = D + 1 /\ i = K /\ s[i] = worker.tx
               /\ worker.at = "working" /\ worker.tx.caller = c
      <4>1. j - K \in 1 .. Len(wqPending) /\ s[j] = wqPending[j - K]
        BY <3>1, <3>2, <3>4, <2>1, <2>5, <2>8, <2>10
      <4> QED BY <3>1, <3>4, <4>1 DEF LineInv, WorkBetween
    <3>5. CASE i > K /\ i - K \in 1 .. Len(wqPending) /\ s[i] = wqPending[i - K]
      <4>1. j - K \in 1 .. Len(wqPending) /\ s[j] = wqPending[j - K] /\ i - K < j - K
        BY <3>1, <3>2, <3>5, <2>1, <2>5, <2>8, <2>10
      <4>2. wqPending[i - K].caller = wqPending[j - K].caller
        BY <3>1, <3>5, <4>1
      <4>3. wqPending[i - K].id < wqPending[j - K].id
        BY <3>5, <4>1, <4>2 DEF LineInv, PendingInOrder
      <4> QED BY <3>5, <4>1, <4>3
    <3> QED BY <3>1, <3>3, <3>4, <3>5, <2>8
  <2>11. \A x \in Tx : x.caller = c => (Placed(x) <=> \E i \in mine : s[i] = x)
    <3> SUFFICES ASSUME NEW x \in Tx, x.caller = c
                 PROVE  Placed(x) <=> \E i \in DOMAIN s : s[i] = x
      OBVIOUS
    <3>1. ASSUME Placed(x) PROVE \E i \in DOMAIN s : s[i] = x
      <4>1. CASE x \in Elements(done[c])
        BY <4>1, <2>9 DEF Elements, D
      <4>2. CASE Working(x)
        BY <4>2, <2>9 DEF Working
      <4>3. CASE x \in Elements(wqPending)
        <5>1. PICK k \in 1 .. Len(wqPending) : wqPending[k] = x
          BY <4>3 DEF Elements
        <5> QED BY <5>1, <2>9
      <4> QED BY <3>1, <4>1, <4>2, <4>3 DEF Placed
    <3>2. ASSUME NEW i \in DOMAIN s, s[i] = x PROVE Placed(x)
      BY <3>2, <2>8 DEF Placed, Working, Elements, D
    <3> QED BY <3>1, <3>2
  <2>12. PICK n \in 0 .. txCounter[c] :
           \A x \in Tx : x.caller = c => (Placed(x) <=> n < x.id /\ x.id <= txCounter[c])
    BY DEF LineInv, NoGaps
  <2>13. n \in Nat /\ txCounter[c] \in 0 .. MaxTx /\ txCounter[c] \in Nat
    BY PlaceTypes DEF TypeOK
  <2>14. {s[i].id : i \in mine} \subseteq n + 1 .. txCounter[c]
    <3> SUFFICES ASSUME NEW i \in mine PROVE s[i].id \in n + 1 .. txCounter[c]
      OBVIOUS
    <3>1. s[i] \in Tx /\ s[i].caller = c /\ Placed(s[i])
      <4>1. s[i] \in Tx /\ s[i].caller = c
        BY <2>6, <2>7, ElementOfSeq
      <4> QED BY <4>1, <2>11
    <3>2. n < s[i].id /\ s[i].id <= txCounter[c] /\ s[i].id \in Nat
      BY <3>1, <2>12, TxFields
    <3> QED BY <3>2, <2>13
  <2>15. n + 1 .. txCounter[c] \subseteq {s[i].id : i \in mine}
    <3> SUFFICES ASSUME NEW k \in n + 1 .. txCounter[c] PROVE \E i \in mine : s[i].id = k
      OBVIOUS
    <3> DEFINE x == [caller |-> c, id |-> k]
    <3>1. x \in Tx /\ x.caller = c /\ x.id = k
      BY <2>13, ConstantsAssumption DEF Tx
    <3> HIDE DEF x, mine
    <3>2. Placed(x)
      BY <3>1, <2>12, <2>13
    <3> QED BY <3>1, <3>2, <2>11
  <2>16. {s[i].id : i \in mine} = n + 1 .. txCounter[c]
    BY <2>14, <2>15
  <2>17. \A i, j \in mine : i < j => s[i].id < s[j].id
    BY <2>10
  <2> HIDE DEF mine
  <2>18. \E m \in 0 .. txCounter[c] : {s[i].id : i \in mine} = m + 1 .. txCounter[c]
    BY <2>16
  <2> QED BY <2>17, <2>18 DEF mine, s
<1> QED BY <1>1, TypeCorrect, LineInvariant, PTL

-----------------------------------------------------------------------------
(* Handle 0 is an RpcService: what every step does to the status of a       *)
(* request, by the lemmas above about where the requests are.               *)

status == [x \in Tx |-> StatusOf(x)]

\* All of one file's places are apart: what waits is not also in the worker or
\* answered, and no request waits twice.
LEMMA PlacesAreApart ==
  ASSUME TypeOK, LineInv
  PROVE  /\ worker.at = "working" => worker.tx \notin Elements(wqPending)
         /\ \A c \in Ctx : \A x \in Elements(done[c]) :
              x \notin Elements(wqPending) /\ ~Working(x)
         /\ wqPending # <<>> => Head(wqPending) \notin Elements(Tail(wqPending))
<1>1. worker.at = "working" => worker.tx \notin Elements(wqPending)
  <2> SUFFICES ASSUME worker.at = "working", NEW j \in 1 .. Len(wqPending),
                      wqPending[j] = worker.tx
               PROVE  FALSE
    BY DEF Elements
  <2>1. worker.tx.id < wqPending[j].id /\ worker.tx.id \in Nat
    BY PlaceTypes, TxFields DEF LineInv, WorkBetween
  <2> QED BY <2>1
<1>2. ASSUME NEW c \in Ctx, NEW x \in Elements(done[c])
      PROVE  x \notin Elements(wqPending) /\ ~Working(x)
  <2>1. PICK i \in 1 .. Len(done[c]) : done[c][i] = x
    BY DEF Elements
  <2>2. x \in Tx /\ x.id \in Nat /\ x.caller = c
    BY <2>1, PlaceTypes, TxFields DEF LineInv, PlacesAreLive
  <2>3. \A j \in 1 .. Len(wqPending) : wqPending[j].caller = c => x.id < wqPending[j].id
    BY <2>1 DEF LineInv, DoneBeforePending
  <2>4. (worker.at = "working" /\ worker.tx.caller = c) => x.id < worker.tx.id
    BY <2>1 DEF LineInv, WorkBetween
  <2> QED BY <2>2, <2>3, <2>4 DEF Elements, Working
<1>3. ASSUME wqPending # <<>> PROVE Head(wqPending) \notin Elements(Tail(wqPending))
  <2>1. /\ Len(wqPending) \in Nat \ {0} /\ Len(Tail(wqPending)) = Len(wqPending) - 1
        /\ Head(wqPending) = wqPending[1] /\ Head(wqPending) \in Tx
        /\ \A i \in 1 .. Len(Tail(wqPending)) : Tail(wqPending)[i] = wqPending[i + 1]
    BY <1>3, TailPlaces DEF TypeOK
  <2> SUFFICES ASSUME NEW i \in 1 .. Len(Tail(wqPending)), wqPending[i + 1] = wqPending[1]
               PROVE  FALSE
    BY <2>1 DEF Elements
  <2>2. 1 \in 1 .. Len(wqPending) /\ i + 1 \in 1 .. Len(wqPending) /\ 1 < i + 1
    BY <2>1
  <2>3. wqPending[1].id < wqPending[i + 1].id /\ wqPending[1].id \in Nat
    BY <2>1, <2>2, TxFields DEF LineInv, PendingInOrder
  <2> QED BY <2>3
<1> QED BY <1>1, <1>2, <1>3

\* One request moves and the others stay.
LEMMA OneMoves ==
  ASSUME NEW x \in Tx, NEW from, NEW to, StatusOf(x) \in from, StatusOf(x)' = to,
         \A y \in Tx : y # x => StatusOf(y)' = StatusOf(y)
  PROVE  Rpc!Move(x, from, to)
<1>1. status[x] \in from
  BY DEF status
<1>2. status' = [y \in Tx |-> StatusOf(y)']
  BY DEF status
<1>3. \A y \in Tx : y # x => StatusOf(y)' = status[y]
  BY DEF status
<1>4. status = [y \in Tx |-> status[y]]
  BY DEF status
<1>5. status' = [status EXCEPT ![x] = to]
  <2> HIDE DEF status
  <2> QED BY <1>2, <1>3, <1>4
<1> QED BY <1>1, <1>5 DEF Rpc!Move, status

\* Some requests end together and the others stay.
LEMMA ManyMove ==
  ASSUME NEW X, NEW from, NEW to,
         \A x \in Tx \cap X : StatusOf(x)' = to,
         \A x \in X : x \in Tx /\ StatusOf(x) \in from,
         \A y \in Tx \ X : StatusOf(y)' = StatusOf(y)
  PROVE  X \in SUBSET Tx /\ Rpc!MoveAll(X, from, to)
<1>1. status' = [y \in Tx |-> StatusOf(y)']
  BY DEF status
<1>2. \A y \in Tx : status[y] = StatusOf(y)
  BY DEF status
<1>3. \A x \in X : status[x] \in from
  BY <1>2
<1>4. \A y \in Tx : StatusOf(y)' = IF y \in X THEN to ELSE status[y]
  BY <1>2
<1>5. status' = [y \in Tx |-> IF y \in X THEN to ELSE status[y]]
  BY <1>1, <1>4
<1> QED BY <1>3, <1>5 DEF Rpc!MoveAll, status

LEMMA NoneMoves ==
  ASSUME \A y \in Tx : StatusOf(y)' = StatusOf(y)
  PROVE  status' = status
BY DEF status

\* Every request moves only as RpcService says, whatever write(), read(),
\* release(), ioctl(STOP), dwq_exit or delay_func does.
THEOREM WorkServes == Spec => RpcSpec
<1>1. Init => Rpc!Init
  <2> SUFFICES ASSUME Init PROVE \A x \in Tx : StatusOf(x) = "none"
    BY DEF Rpc!Init
  <2> QED BY DEF Init, StatusOf
<1>2. TypeOK /\ LineInv /\ LineInv' /\ [Next]_vars => [Rpc!Next]_status
  <2> SUFFICES ASSUME TypeOK, LineInv, LineInv', [Next]_vars PROVE [Rpc!Next]_status
    OBVIOUS
  <2>1. ASSUME UNCHANGED <<fate, wqPending>>,
               worker' = worker \/ (worker.at # "working" /\ worker'.at # "working")
        PROVE  [Rpc!Next]_status
    <3>1. \A y \in Tx : StatusOf(y)' = StatusOf(y)
      BY <2>1 DEF StatusOf
    <3> QED BY <3>1, NoneMoves
  <2>2. ASSUME NEW c \in Ctx, Request(c) PROVE \E x \in Tx : Rpc!Submit(x)
    <3> DEFINE tx == [caller |-> c, id |-> txCounter[c] + 1]
    <3>1. /\ txCounter[c] < MaxTx /\ wqPending' = Append(wqPending, tx) /\ worker' = worker
          /\ fate' = [x \in Tx |-> IF x \in {tx} THEN "live" ELSE fate[x]]
      BY <2>2 DEF Request, Mark
    <3>2. tx \in Tx /\ tx.caller = c /\ tx.id = txCounter[c] + 1
      BY <3>1, ConstantsAssumption DEF TypeOK, Tx
    <3>3. fate[tx] = "none"
      BY <3>2, PlaceTypes DEF LineInv, Numbered
    <3>4. PICK x \in Tx : x = tx
      BY <3>2
    <3> HIDE DEF tx
    <3>5. /\ Elements(wqPending') = Elements(wqPending) \cup {x} /\ worker' = worker
          /\ fate' = [y \in Tx |-> IF y \in {x} THEN "live" ELSE fate[y]]
          /\ fate[x] = "none"
      BY <3>1, <3>2, <3>3, <3>4, AppendPlaces DEF TypeOK
    <3>6. StatusOf(x) \in {"none"} /\ StatusOf(x)' = "queued"
      BY <3>5 DEF StatusOf
    <3>7. \A y \in Tx : y # x => StatusOf(y)' = StatusOf(y)
      BY <3>5 DEF StatusOf
    <3>8. Rpc!Move(x, {"none"}, "queued")
      BY <3>6, <3>7, OneMoves
    <3> QED BY <3>8 DEF Rpc!Submit
  <2>3. ASSUME NEW c \in Ctx, ReadDone(c) PROVE \E x \in Tx : Rpc!Hand(x)
    <3> DEFINE h == Head(done[c])
    <3>1. /\ done[c] # <<>> /\ UNCHANGED <<wqPending, worker>>
          /\ fate' = [x \in Tx |-> IF x \in {h} THEN "delivered" ELSE fate[x]]
      BY <2>3 DEF ReadDone, Mark
    <3>2. h \in Tx /\ h \in Elements(done[c]) /\ fate[h] = "live"
      <4>1. done[c] \in Seq(Tx)
        BY DEF TypeOK
      <4>2. h = done[c][1] /\ h \in Tx /\ Len(done[c]) \in Nat \ {0}
        BY <4>1, <3>1, TailPlaces
      <4>3. 1 \in 1 .. Len(done[c])
        BY <4>2
      <4> QED BY <4>2, <4>3 DEF LineInv, PlacesAreLive, Elements
    <3>3. PICK x \in Tx : x = h
      BY <3>2
    <3> HIDE DEF h
    <3>4. x \notin Elements(wqPending) /\ ~Working(x) /\ fate[x] = "live"
          /\ fate' = [y \in Tx |-> IF y \in {x} THEN "delivered" ELSE fate[y]]
      BY <3>1, <3>2, <3>3, PlacesAreApart
    <3>5. StatusOf(x) \in {"replied", "unserved"} /\ StatusOf(x)' = "delivered"
      BY <3>4 DEF StatusOf, Working
    <3>6. \A y \in Tx : y # x => StatusOf(y)' = StatusOf(y)
      BY <3>1, <3>4 DEF StatusOf
    <3>7. Rpc!Move(x, {"replied", "unserved"}, "delivered")
      BY <3>5, <3>6, OneMoves
    <3> QED BY <3>7 DEF Rpc!Hand
  <2>4. ASSUME NEW c \in Ctx, Close(c) PROVE \E X \in SUBSET Tx : Rpc!Abandon(X)
    <3>0. PICK X : X = Elements(done[c])
      OBVIOUS
    <3>1. /\ UNCHANGED <<wqPending, worker>>
          /\ fate' = [x \in Tx |-> IF x \in X THEN "abandoned" ELSE fate[x]]
      BY <2>4, <3>0 DEF Close, Mark
    <3>2. \A x \in X : x \in Tx /\ fate[x] = "live" /\ x \notin Elements(wqPending) /\ ~Working(x)
      <4>1. \A x \in X : x \in Tx /\ fate[x] = "live"
        BY <3>0, PlaceTypes DEF LineInv, PlacesAreLive, Elements
      <4> QED BY <3>0, <4>1, PlacesAreApart
    <3>3. \A x \in X : x \in Tx /\ StatusOf(x) \in {"replied", "unserved"}
      BY <3>2 DEF StatusOf, Working
    <3>4. \A x \in Tx \cap X : StatusOf(x)' = "abandoned"
      BY <3>1 DEF StatusOf
    <3>5. \A y \in Tx \ X : StatusOf(y)' = StatusOf(y)
      BY <3>1 DEF StatusOf
    <3>6. X \in SUBSET Tx /\ Rpc!MoveAll(X, {"replied", "unserved"}, "abandoned")
      BY <3>3, <3>4, <3>5, ManyMove
    <3> QED BY <3>6 DEF Rpc!Abandon
  <2>5. ASSUME ExitEnd PROVE \E X \in SUBSET Tx : Rpc!Lose(X)
    <3>0. PICK X : X = Elements(wqPending)
      OBVIOUS
    <3>1. /\ wqPending' = <<>> /\ worker' = worker
          /\ fate' = [x \in Tx |-> IF x \in X THEN "lost" ELSE fate[x]]
      BY <2>5, <3>0 DEF ExitEnd, Mark
    <3>2. \A x \in X : x \in Tx /\ fate[x] = "live" /\ x \in Elements(wqPending)
      BY <3>0, PlaceTypes DEF LineInv, PlacesAreLive, Elements
    <3>3. Elements(wqPending') = {}
      BY <3>1, EmptyPlaces
    <3>4. \A y \in Tx \ X : StatusOf(y)' = StatusOf(y)
      BY <3>0, <3>1, <3>3 DEF StatusOf
    <3>5. \A x \in X : x \in Tx /\ StatusOf(x) \in {"queued", "serving", "replied", "unserved"}
      BY <3>2 DEF StatusOf
    <3>6. \A x \in Tx \cap X : StatusOf(x)' = "lost"
      BY <3>1 DEF StatusOf
    <3>7. X \in SUBSET Tx /\ Rpc!MoveAll(X, {"queued", "serving", "replied", "unserved"}, "lost")
      BY <3>4, <3>5, <3>6, ManyMove
    <3> QED BY <3>7 DEF Rpc!Lose
  <2>6. ASSUME WorkTake PROVE [Rpc!Next]_status
    <3>1. CASE worker' = Resting /\ UNCHANGED wqPending
      BY <3>1, <2>1, <2>6 DEF WorkTake, Resting
    <3>2. CASE /\ wqPending # <<>> /\ wqPending' = Tail(wqPending)
               /\ worker' = [at |-> "working", tx |-> Head(wqPending)]
      <4> DEFINE h == Head(wqPending)
      <4>1. worker.at = "entered" /\ fate' = fate
        BY <2>6 DEF WorkTake
      <4>2. /\ Elements(wqPending) = Elements(wqPending') \cup {h} /\ h \in Tx
            /\ h \notin Elements(wqPending')
        BY <3>2, TailPlaces, PlacesAreApart DEF TypeOK
      <4>3. worker'.at = "working" /\ worker'.tx = h
        BY <3>2
      <4>4. fate[h] = "live"
        BY <4>2, PlaceTypes DEF LineInv, PlacesAreLive, Elements
      <4>5. PICK x \in Tx : x = h
        BY <4>2
      <4> HIDE DEF h
      <4>6. StatusOf(x) \in {"queued"} /\ StatusOf(x)' = "serving"
        BY <4>1, <4>2, <4>3, <4>4, <4>5 DEF StatusOf
      <4>7. \A y \in Tx : y # x => StatusOf(y)' = StatusOf(y)
        BY <4>1, <4>2, <4>3, <4>5 DEF StatusOf
      <4>8. Rpc!Move(x, {"queued"}, "serving")
        BY <4>6, <4>7, OneMoves
      <4> QED BY <4>8 DEF Rpc!Take, Rpc!Next
    <3> QED BY <2>6, <3>1, <3>2 DEF WorkTake
  <2>7. ASSUME WorkAnswer PROVE [Rpc!Next]_status
    <3>1. worker.at = "working" /\ worker'.at # "working" /\ wqPending' = wqPending
      BY <2>7 DEF WorkAnswer
    <3>0. PICK tx \in Tx : tx = worker.tx
      BY <3>1, PlaceTypes
    <3>2. fate[tx] = "live" /\ tx \notin Elements(wqPending)
      BY <3>0, <3>1, PlacesAreApart DEF LineInv, PlacesAreLive
    <3>3. StatusOf(tx) = "serving"
      BY <3>0, <3>1, <3>2 DEF StatusOf
    <3>4. ASSUME fate' = [x \in Tx |-> IF x \in {tx} THEN "lost" ELSE fate[x]]
          PROVE  [Rpc!Next]_status
      <4>1. StatusOf(tx)' = "lost"
        BY <3>2, <3>4 DEF StatusOf
      <4>2. \A y \in Tx \ {tx} : StatusOf(y)' = StatusOf(y)
        BY <3>0, <3>1, <3>4 DEF StatusOf
      <4>3. /\ {tx} \in SUBSET Tx
            /\ Rpc!MoveAll({tx}, {"queued", "serving", "replied", "unserved"}, "lost")
        BY <3>2, <3>3, <4>1, <4>2, ManyMove
      <4> QED BY <4>3 DEF Rpc!Lose, Rpc!Next
    <3>5. ASSUME fate' = fate PROVE [Rpc!Next]_status
      <4>1. StatusOf(tx)' = "replied"
        BY <3>1, <3>2, <3>5 DEF StatusOf
      <4>2. \A y \in Tx : y # tx => StatusOf(y)' = StatusOf(y)
        BY <3>0, <3>1, <3>5 DEF StatusOf
      <4>3. Rpc!Move(tx, {"serving"}, "replied")
        BY <3>2, <3>3, <4>1, <4>2, OneMoves
      <4> QED BY <3>2, <4>3 DEF Rpc!Reply, Rpc!Next
    <3> QED BY <2>7, <3>0, <3>4, <3>5 DEF WorkAnswer, Mark
  <2>8. ASSUME NEW c \in Ctx,
               Open(c) \/ StopEnd(c) \/ Stop(c) \/ ReadSleep(c) \/ ReadInterrupt(c)
        PROVE  [Rpc!Next]_status
    BY <2>8, <2>1 DEF Open, Stop, StopEnd, ReadSleep, ReadInterrupt
  <2>9. ASSUME Exit \/ WorkStart \/ WorkWake \/ WorkLeave PROVE [Rpc!Next]_status
    BY <2>9, <2>1 DEF Exit, WorkStart, WorkWake, WorkLeave, Resting
  <2>10. ASSUME UNCHANGED vars PROVE [Rpc!Next]_status
    BY <2>10, <2>1 DEF vars
  <2>11. ASSUME \/ \E x \in Tx : Rpc!Submit(x) \/ Rpc!Hand(x)
                \/ \E X \in SUBSET Tx : Rpc!Abandon(X) \/ Rpc!Lose(X)
         PROVE  Rpc!Next
    BY <2>11 DEF Rpc!Next
  <2> QED
    BY <2>2, <2>3, <2>4, <2>5, <2>6, <2>7, <2>8, <2>9, <2>10, <2>11, ConstantsAssumption
       DEF Next, Work
<1> QED BY <1>1, <1>2, TypeCorrect, LineInvariant, PTL DEF Spec, RpcSpec, Rpc!Spec, status
=============================================================================
