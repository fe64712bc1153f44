------------------------------ MODULE Listener ------------------------------
(***************************************************************************)
(* The listener side of /dev/dwq: ioctl(SUBSCRIBE, UNSUBSCRIBE, BROADCAST)  *)
(* and the part of release() that ends the subscriptions of a file.  Every  *)
(* subscription is a node on two lists: the handle's list of subscribers,   *)
(* under the handle's mutex, and the file's own list, under a spinlock of   *)
(* the file.  No path holds both locks, so a node is on one list and not on *)
(* the other for a while in every one of them.                              *)
(*                                                                          *)
(* A broadcast holds the mutex from the first delivery to the last; a step  *)
(* that needs the mutex waits for it.  A spinlock section is one step.      *)
(***************************************************************************)
EXTENDS Naturals, Sequences, FiniteSets

CONSTANTS
    Ctx,        \* addresses of struct dwq_fd_ctx
    Thread,     \* threads of the user programs
    NoThread,   \* the mutex is free
    FdOf,       \* FdOf[t]: the file descriptor thread t calls on
    Handle,     \* handles
    Sub,        \* bound: the subscription nodes kzalloc() can hand out
    NoSub,      \* no node
    MaxEvents   \* bound: broadcasts in a behaviour

ASSUME ConstantsAssumption ==
    /\ FdOf \in [Thread -> Ctx]
    /\ NoThread \notin Thread
    /\ NoSub \notin Sub
    /\ MaxEvents \in Nat

VARIABLES
    life,         \* life[c]: closed, open, or in dwq_release
    node,         \* node[s]: struct dwq_subscriber, or Free
    subscribers,  \* handles[h].subscribers
    subscribed,   \* the file's own list of its subscriptions
    mutex,        \* mutex[h]: the broadcasting thread that holds handles[h].lock
    call,         \* the ioctl each thread is in, with its locals
    removing,     \* removing[c]: the node release() is between its two lists with
    sent,         \* ghost: broadcasts so far; the number of one is its event
    inbox         \* ghost: all the events appended to the file's done_list
vars == <<life, node, subscribers, subscribed, mutex, call, removing, sent, inbox>>

Free == [ctx |-> NoSub]
Node == [ctx : Ctx, handle : Handle]
Life == {"closed", "open", "release"}

Idle == [at |-> "idle"]
Call ==
    {Idle}
    \cup [at : {"backlink", "unhook"}, sub : Sub]
    \cup [at : {"broadcast"}, handle : Handle, next : Nat \ {0},
          event : 1 .. MaxEvents, missed : SUBSET Nat]

TypeOK ==
    /\ life \in [Ctx -> Life]
    /\ node \in [Sub -> Node \cup {Free}]
    /\ subscribers \in [Handle -> Seq(Sub)]
    /\ subscribed \in [Ctx -> Seq(Sub)]
    /\ mutex \in [Handle -> Thread \cup {NoThread}]
    /\ call \in [Thread -> Call]
    /\ removing \in [Ctx -> Sub \cup {NoSub}]
    /\ sent \in 0 .. MaxEvents
    /\ inbox \in [Ctx -> Seq([handle : Handle, event : 1 .. MaxEvents])]

Init ==
    /\ life = [c \in Ctx |-> "closed"]
    /\ node = [s \in Sub |-> Free]
    /\ subscribers = [h \in Handle |-> <<>>]
    /\ subscribed = [c \in Ctx |-> <<>>]
    /\ mutex = [h \in Handle |-> NoThread]
    /\ call = [t \in Thread |-> Idle]
    /\ removing = [c \in Ctx |-> NoSub]
    /\ sent = 0
    /\ inbox = [c \in Ctx |-> <<>>]

-----------------------------------------------------------------------------
Elements(s) == {s[i] : i \in 1 .. Len(s)}
Without(s, i) == SubSeq(s, 1, i - 1) \o SubSeq(s, i + 1, Len(s))

CanCall(t) == call[t] = Idle /\ life[FdOf[t]] = "open"
Return(t)  == call' = [call EXCEPT ![t] = Idle]

\* Mutant of Unhook: the mutex is not taken.
UnhookUnlocked(s) ==
    LET h == node[s].handle
    IN  /\ \E i \in 1 .. Len(subscribers[h]) :
              /\ subscribers[h][i] = s
              /\ subscribers' = [subscribers EXCEPT ![h] = Without(@, i)]
        /\ node' = [node EXCEPT ![s] = Free]

\* mutex_lock; list_del(&sub->node); mutex_unlock; kfree(sub)
Unhook(s) ==
    LET h == node[s].handle
    IN  /\ mutex[h] = NoThread
        /\ \E i \in 1 .. Len(subscribers[h]) :
              /\ subscribers[h][i] = s
              /\ subscribers' = [subscribers EXCEPT ![h] = Without(@, i)]
        /\ node' = [node EXCEPT ![s] = Free]

Open(c) ==
    /\ life[c] = "closed"
    /\ life' = [life EXCEPT ![c] = "open"]
    /\ subscribed' = [subscribed EXCEPT ![c] = <<>>]
    /\ inbox' = [inbox EXCEPT ![c] = <<>>]
    /\ UNCHANGED <<node, subscribers, mutex, call, removing, sent>>

-----------------------------------------------------------------------------
(* ioctl(SUBSCRIBE): the node goes on the handle's list, then on the file's *)

Subscribe(t, h) ==
    /\ CanCall(t)
    /\ mutex[h] = NoThread
    /\ \E s \in Sub :
          /\ node[s] = Free
          /\ node' = [node EXCEPT ![s] = [ctx |-> FdOf[t], handle |-> h]]
          /\ subscribers' = [subscribers EXCEPT ![h] = Append(@, s)]
          /\ call' = [call EXCEPT ![t] = [at |-> "backlink", sub |-> s]]
    /\ UNCHANGED <<life, subscribed, mutex, removing, sent, inbox>>

\* Mutant of SubscribeBack: the file does not record the subscription.
SubscribeNoBack(t) ==
    /\ call[t].at = "backlink"
    /\ Return(t)
    /\ UNCHANGED <<life, node, subscribers, subscribed, mutex, removing, sent, inbox>>

SubscribeBack(t) ==
    /\ call[t].at = "backlink"
    /\ subscribed' = [subscribed EXCEPT ![FdOf[t]] = Append(@, call[t].sub)]
    /\ Return(t)
    /\ UNCHANGED <<life, node, subscribers, mutex, removing, sent, inbox>>

\* Mutant of Unsubscribe: the node stays on the handle's list.
UnsubscribeHalf(t, h) ==
    LET mine == subscribed[FdOf[t]]
    IN  /\ CanCall(t)
        /\ \E i \in 1 .. Len(mine) :
              /\ node[mine[i]].handle = h
              /\ subscribed' = [subscribed EXCEPT ![FdOf[t]] = Without(@, i)]
        /\ UNCHANGED <<life, node, subscribers, mutex, call, removing, sent, inbox>>

(* ioctl(UNSUBSCRIBE): the file's first node for the handle leaves the     *)
(* file's list, then the handle's.  No such node is ENOENT: no step.       *)

Unsubscribe(t, h) ==
    LET mine == subscribed[FdOf[t]]
    IN  /\ CanCall(t)
        /\ \E i \in 1 .. Len(mine) :
              /\ node[mine[i]].handle = h
              /\ \A j \in 1 .. i - 1 : node[mine[j]].handle # h
              /\ subscribed' = [subscribed EXCEPT ![FdOf[t]] = Without(@, i)]
              /\ call' = [call EXCEPT ![t] = [at |-> "unhook", sub |-> mine[i]]]
        /\ UNCHANGED <<life, node, subscribers, mutex, removing, sent, inbox>>

UnsubscribeHook(t) ==
    /\ call[t].at = "unhook"
    /\ Unhook(call[t].sub)
    /\ Return(t)
    /\ UNCHANGED <<life, subscribed, mutex, removing, sent, inbox>>

(* ioctl(BROADCAST): one event for every node on the handle's list.  The   *)
(* local "missed" is a ghost: the places that deliver_event had no memory   *)
(* for.                                                                     *)

\* Mutant of Broadcast: the list is walked without the mutex.
BroadcastUnlocked(t, h) ==
    /\ CanCall(t)
    /\ sent < MaxEvents
    /\ sent' = sent + 1
    /\ call' = [call EXCEPT ![t] = [at |-> "broadcast", handle |-> h,
                                    next |-> 1, event |-> sent + 1, missed |-> {}]]
    /\ UNCHANGED <<life, node, subscribers, subscribed, mutex, removing, inbox>>

\* Mutant of Broadcast: the walk starts at the list head, not its first node.
BroadcastFromHead(t, h) ==
    /\ CanCall(t)
    /\ mutex[h] = NoThread
    /\ sent < MaxEvents
    /\ mutex' = [mutex EXCEPT ![h] = t]
    /\ sent' = sent + 1
    /\ call' = [call EXCEPT ![t] = [at |-> "broadcast", handle |-> h,
                                    next |-> 0, event |-> sent + 1, missed |-> {}]]
    /\ UNCHANGED <<life, node, subscribers, subscribed, removing, inbox>>

Broadcast(t, h) ==
    /\ CanCall(t)
    /\ mutex[h] = NoThread
    /\ sent < MaxEvents
    /\ mutex' = [mutex EXCEPT ![h] = t]
    /\ sent' = sent + 1
    /\ call' = [call EXCEPT ![t] = [at |-> "broadcast", handle |-> h,
                                    next |-> 1, event |-> sent + 1, missed |-> {}]]
    /\ UNCHANGED <<life, node, subscribers, subscribed, removing, inbox>>

BroadcastDeliver(t) ==
    LET h == call[t].handle
        i == call[t].next
    IN  /\ call[t].at = "broadcast"
        /\ i <= Len(subscribers[h])
        /\ inbox' = [inbox EXCEPT ![node[subscribers[h][i]].ctx] =
                        Append(@, [handle |-> h, event |-> call[t].event])]
        /\ call' = [call EXCEPT ![t].next = i + 1]
        /\ UNCHANGED <<life, node, subscribers, subscribed, mutex, removing, sent>>

\* The kzalloc(GFP_ATOMIC) of deliver_event fails: the subscriber gets nothing,
\* the walk goes on and BROADCAST succeeds.
BroadcastMiss(t) ==
    LET i == call[t].next
    IN  /\ call[t].at = "broadcast"
        /\ i <= Len(subscribers[call[t].handle])
        /\ call' = [call EXCEPT ![t].next = i + 1, ![t].missed = @ \cup {i}]
        /\ UNCHANGED <<life, node, subscribers, subscribed, mutex, removing, sent, inbox>>

\* Mutant of BroadcastEnd: returns with the mutex held.
BroadcastEndLocked(t) ==
    /\ call[t].at = "broadcast"
    /\ call[t].next > Len(subscribers[call[t].handle])
    /\ Return(t)
    /\ UNCHANGED <<life, node, subscribers, subscribed, mutex, removing, sent, inbox>>

BroadcastEnd(t) ==
    LET h == call[t].handle
    IN  /\ call[t].at = "broadcast"
        /\ call[t].next > Len(subscribers[h])
        /\ mutex' = [mutex EXCEPT ![h] = NoThread]
        /\ Return(t)
        /\ UNCHANGED <<life, node, subscribers, subscribed, removing, sent, inbox>>

-----------------------------------------------------------------------------
(* release(), step 2: node by node, off the file's list, then off the      *)
(* handle's.  Then the context is freed.                                   *)

Close(c) ==
    /\ life[c] = "open"
    /\ \A t \in Thread : FdOf[t] = c => call[t] = Idle
    /\ life' = [life EXCEPT ![c] = "release"]
    /\ UNCHANGED <<node, subscribers, subscribed, mutex, call, removing, sent, inbox>>

ReleaseNext(c) ==
    /\ life[c] = "release" /\ removing[c] = NoSub
    /\ subscribed[c] # <<>>
    /\ removing' = [removing EXCEPT ![c] = Head(subscribed[c])]
    /\ subscribed' = [subscribed EXCEPT ![c] = Tail(@)]
    /\ UNCHANGED <<life, node, subscribers, mutex, call, sent, inbox>>

ReleaseHook(c) ==
    /\ removing[c] # NoSub
    /\ Unhook(removing[c])
    /\ removing' = [removing EXCEPT ![c] = NoSub]
    /\ UNCHANGED <<life, subscribed, mutex, call, sent, inbox>>

ReleaseEnd(c) ==
    /\ life[c] = "release" /\ removing[c] = NoSub
    /\ subscribed[c] = <<>>
    /\ life' = [life EXCEPT ![c] = "closed"]
    /\ UNCHANGED <<node, subscribers, subscribed, mutex, call, removing, sent, inbox>>

-----------------------------------------------------------------------------
Begin(t) ==
    \E h \in Handle : Subscribe(t, h) \/ Unsubscribe(t, h) \/ Broadcast(t, h)

Continue(t) ==
    \/ SubscribeBack(t) \/ UnsubscribeHook(t)
    \/ BroadcastDeliver(t) \/ BroadcastMiss(t) \/ BroadcastEnd(t)

Release(c) == ReleaseNext(c) \/ ReleaseHook(c) \/ ReleaseEnd(c)

Next ==
    \/ \E t \in Thread : Begin(t) \/ Continue(t)
    \/ \E c \in Ctx : Open(c) \/ Close(c) \/ Release(c)

Spec == Init /\ [][Next]_vars

\* A call in the kernel and a release run on; the mutex is handed to its
\* waiters in turn, so whoever is kept waiting gets it (hence strong fairness).
Fairness ==
    /\ \A t \in Thread : WF_vars(BroadcastDeliver(t) \/ BroadcastMiss(t) \/ BroadcastEnd(t)
                                    \/ SubscribeBack(t))
                         /\ SF_vars(UnsubscribeHook(t))
    /\ \A c \in Ctx : WF_vars(ReleaseNext(c) \/ ReleaseEnd(c)) /\ SF_vars(ReleaseHook(c))

FairSpec == Spec /\ Fairness

-----------------------------------------------------------------------------
\* A node on a handle's list belongs to a file that is not freed, so that a
\* broadcast never appends to a freed context, whichever of the two-step
\* paths the file's threads, or its release, are in the middle of.
SubscribersAreAlive ==
    \A h \in Handle : \A s \in Elements(subscribers[h]) :
        node[s] # Free /\ life[node[s].ctx] # "closed"

\* The two lists agree: what a file's own list, a call, or its release holds
\* is on the list of the handle it names, once.  What is on a handle's list
\* and not on the file's is in the hands of one of the file's calls.
Held(c) ==
    {call[t].sub : t \in {u \in Thread : FdOf[u] = c /\ call[u].at \in {"backlink", "unhook"}}}
        \cup ({removing[c]} \ {NoSub})
ListsAgree ==
    \A c \in Ctx :
        Elements(subscribed[c]) \cup Held(c) =
            {s \in Sub : node[s] # Free /\ node[s].ctx = c
                            /\ \E h \in Handle : s \in Elements(subscribers[h])}

\* Events from one handle reach a file in the order they were broadcast: the
\* mutex keeps two broadcasts of one handle apart.
Events(c, h) == {i \in DOMAIN inbox[c] : inbox[c][i].handle = h}
EventsInOrder ==
    \A c \in Ctx, h \in Handle : \A i, j \in Events(c, h) :
        i < j => inbox[c][i].event <= inbox[c][j].event

\* When BROADCAST returns, every file has got the event once for each of its
\* subscriptions to the handle that memory was found for, and no other file has
\* it: a failed allocation is one subscription's loss and no more, and what other
\* threads subscribe, unsubscribe or close meanwhile makes no difference.
Received(c, e) == Cardinality({i \in DOMAIN inbox[c] : inbox[c][i].event = e})
Served(t, c) ==
    LET list == subscribers[call[t].handle]
    IN  Cardinality({i \in DOMAIN list \ call[t].missed : node[list[i]].ctx = c})
BroadcastReachesAll ==
    [][\A t \in Thread :
        (call[t].at = "broadcast" /\ call'[t] = Idle) =>
            \A c \in Ctx : life[c] = "open" =>
                Received(c, call[t].event) = Served(t, c)]_vars

\* A release waits for the broadcasts in progress and ends.
ReleaseEnds == \A c \in Ctx : life[c] = "release" ~> life[c] = "closed"
=============================================================================
