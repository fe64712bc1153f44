# Verification of ProgrameExcerise

The repository (`src/`) is a collection of programs.  Its one real system is
`delay_work_queue/`: a Linux character device, `/dev/dwq`, that offers a
Binder-like IPC (handles, request/reply, callbacks, broadcast, a shared page),
and the programs that use it.  Beside it stand two CPU schedulers in Python, and
about seventy short C and C++ exercises.  This directory holds TLA+ models of the
parts with behaviour worth checking, TLC runs on small instances, and TLAPS
proofs for all values of the constants.

## Inventory

| Component | State it keeps | Operations | What is hard |
|---|---|---|---|
| Driver core (`delay_work_queue.c`) | table of handles; per open file: role, `tx_id_counter`, `pending_list`, `dispatched_list`, `done_list` | `open`, `release`, `read`, `write` (request, REPLY, EVENT), `ioctl` REGISTER / UNREGISTER | several locks, none held across a whole operation; sleeping readers; raw pointers to files that may close |
| Listeners (same file) | per handle `subscribers`, per file `subscribed`, the node being on both | SUBSCRIBE, UNSUBSCRIBE, BROADCAST, the end of subscriptions in `release` | two lists under two locks that are never held together; a broadcast walks one of them |
| Handle 0 (same file) | `wq_pending`, a `delayed_work` | `write` to handle 0, `delay_func`, STOP, `dwq_exit` | the work answers one request per run and must re-queue itself; cancellation and unloading while it runs |
| Shared page (`dwq_mmap`; `dwq_server.c`, `dwq_client.c`) | `seq`, `state`, request, reply | client: fill, `seq++`, publish, poll, reset; server: poll, take, answer | no lock, no system call; timeouts; kill and restart |
| `dwq_server2`, `dwq_client2`, `dwq_listener_demo` | program counters, flag `running` | see below | two threads on one file; signals; a peer that goes away |
| `kthread_worker.c` | one kernel thread, one delayed work | load, unload | stop of the thread against its work |
| `test_dwq.c`, `framebuffer_op*.c`, `*.mod.c` | none | | sequential test, device I/O, generated code |
| Schedulers (`Multilleved_Feedback_Queue.py`) | process lists, indices, clock | `RR.scheduling`, `MulitlevedFeedbackQueue.scheduling` | index arithmetic on a list that shrinks under the loop |
| Containers (`jichu29.cpp` and its earlier copies) | an array list and a stack in blocks that grow, a circular list with a header | insert, delete, push, pop, traverse | growth at the capacity, positions counted round the ring, the header |
| `class MyString` (`jichu14.cpp`) | pointer and length per object, the heap | constructors, copy, move, assignments, `+`, destructor | who owns a buffer after any sequence of copies and moves |
| Socket programs (`jichu12.cpp`, `jichu13.cpp`) | a connection's bytes, a child per connection | accept, fork, write; connect, read | short reads; a server that exits with clients waiting |
| Exercises (`30-question-writing-test-xianfengshangtai/`) | none beyond a call | arrays, Fenwick trees, strings, dynamic programming, trees, numbers in lists | cells read beside an array, loops that end one early, carries |
| `downloadFile.py`, `Family.py`, web pages | none | | I/O and demonstrations |

How the parts meet: the programs call the driver; the driver's threads meet in the
lists of an open file (a request goes from the client's `write` to the server's
`pending_list`, by the server's `read` to `dispatched_list`, by its `write(REPLY)`
to the client's `done_list`); the listeners' events and the worker's answers end in
the same `done_list`; `release` of one file answers what other files wait for.  The
shared page bypasses all of that.

What makes each correct: see the properties below.  `PROJECT.json` lists, under
"hazards", what is hard to test and the property that covers it.

## Modules

| Module | Models | Composes |
|---|---|---|
| `RpcService` | the abstract service: how far a request may get | |
| `Dwq` | driver core | |
| `DwqProps` | its properties, and that it implements `RpcService` | `Dwq`, `RpcService` |
| `DwqProofs` | theorems about its types and its table | `DwqProps`, TLAPS |
| `RequestProofs` | theorems about its requests: `OneHolder`, `NoMissedWakeUp`, and that it implements `RpcService` | `DwqProofs` |
| `OrderProofs` | theorems about programs that behave: nothing is lost or misdirected, requests keep their order | `RequestProofs` |
| `Listener`, `ListenerProofs` | subscriptions and broadcast | |
| `WorkQueue`, `WorkQueueProofs` | handle 0, STOP, unloading | `RpcService` |
| `ClientServer` | `dwq_server2` and `dwq_client2` on the driver | `DwqProps` |
| `ClientServerProofs` | theorems about them: they are programs that behave | `ClientServer`, `OrderProofs` |
| `ShmRpc`, `ShmRpcProofs` | `dwq_server` and `dwq_client` on the shared page | |
| `FeedbackQueue` | the two schedulers | |
| `Lists` | array list, stack and circular list of `jichu29.cpp` | |
| `MyString` | `class MyString` of `jichu14.cpp` | |
| `Sockets` | server, children and clients of `jichu12.cpp`, `jichu13.cpp` | |
| `Totals` | sums, the larger and the smaller of two numbers | |
| `Packs` | the exercises about the best choice of which theorems are proved: two knapsacks, the houses | `Totals` |
| `Arrays`, `Fenwick`, `Words`, `Tables`, `Trees` | the other exercises that compute a result, as functions, and what each result should be | `Arrays`, `Packs` |
| `SmallPrograms` | the schedulers, `MyString`, the sockets and the containers side by side, for the theorems | `FeedbackQueue`, `MyString`, `Sockets`, `Lists` |
| `ExerciseProofs` | theorems about these four and about `Packs` | `SmallPrograms`, `Packs` |
| `MCExercises` | the programs beside the driver, one per behaviour | `SmallPrograms` and all of the above |
| `MC*` | instances for TLC | each its module |

### Dwq: state and steps

`handles[h]` is `handles[h].server_ctx`; `isServer`, `serverHandle`, `txCounter`,
`pending`, `dispatched`, `done` are the fields of `struct dwq_fd_ctx`, indexed by
its address.  `life[c]` says whether the context at that address is allocated and
how far `dwq_release` has got; `call[t]` is the system call a thread is inside,
with its locals; `waking[c]` is the local of a release that has answered a transaction
and not yet woken its caller.  `gen` and `fate` are ghosts: an address can be handed out
again, and `gen` tells its files apart; `fate[x]` remembers what became of a request.

An action is what a thread does under one lock, or between two unlocks.  The
places where the driver drops a lock and goes on are the interesting ones, and
each is a step boundary:

* REGISTER: table entry (under the handle's mutex), `is_server`, `server_handle`;
* UNREGISTER: `server_handle` read, table entry, `is_server`;
* request: id and look-up of the server, append, wake-up;
* REPLY: transaction off `dispatched_list`, append to the caller, wake-up;
* EVENT: look-up, allocation and append, wake-up, unlinking of the transaction it answers;
* `read`: role tested, condition tested / asleep, list popped, and, for a server,
  the append to `dispatched_list`;
* `release`: table entry, `done_list`, then `pending_list` and `dispatched_list`
  node by node, each answered with ENODEV (append, then wake-up), and `kfree` with the last.

Every append ends with an unlock, and the wake-up comes after it: `WakeUp` goes through
`tx->caller` when a reader may already have popped and freed `tx`, and then
(`WokenThrough`) it wakes any file or none.  `deliver_event` returns without a word when
its GFP_ATOMIC allocation fails; the event is then not sent and the call goes on.

A call that fails without a change of state (EINVAL, EBUSY, EPERM, ENODEV of an
event, ENOMEM, EFAULT of `copy_from_user`) is not a step.  `read()` can also fail with
EFAULT after it has taken its element: a server's request then stays in
`dispatched_list`, a client's answer is freed.  The lists change as they do when the copy
succeeds, and the model does not tell the two apart: "delivered" means handed to
`copy_to_user`.  A store through a pointer to a freed context
is modelled by what it means for the requests: the node is gone, or, if the address
was handed out again, lands with the new file.  That choice keeps the model going
after undefined behaviour; the properties that say it never comes to that are
`EntriesAreOpen`, `AnswersReachTheCaller` and `NothingLost`.

`Orderly` names what the driver takes for granted of the programs and of timing:
`ClosesWhenAnswered` (a client does not close a file with requests under way),
`LookupsLandFirst` (the window between look-up and append is shorter than the
server's release) and `RegistersOnce`.  They are restrictions of the next-state
relation, used only where a property needs them.  `ClientServer` checks that the
repository's programs satisfy the first and third; the second is a property of
timing that nothing enforces (finding `late_lookup`).

### The other modules

`Listener`: `subscribers[h]` and `subscribed[c]` are the two lists, `node[s]` the
allocated `struct dwq_subscriber`, `mutex[h]` the broadcaster that holds the
handle's mutex (everything else that takes it is one step, enabled when it is free).
`BroadcastMiss` is the turn of the walk whose allocation fails, and the ghost `missed`
of the call remembers its place.
`WorkQueue`: `queued`, `worker` and `cancelling` are the kernel's delayed work
(external: queueing a queued work does nothing, it is not run twice at a time,
`cancel_delayed_work_sync` keeps it off until the run has ended); `asleep` are the files
whose thread waits in `read()`, and `delay_func` appends its answer in one step and wakes
the caller in the next, through a transaction that may be freed by then.
`ClientServer`: `pc`, `ret`, `running` are the programs'; every step is a driver
action together with the program's move, or one of the two alone.
`ShmRpc`: every load and store of the page is a step; both programs put a barrier
around the store to `state` and before its poll.  `ready` is a ghost: the clients that
published their request while the server was up and has stayed so.  `FeedbackQueue`: one turn of a
scheduler's `while` is a step; RR alone is a behaviour that begins at the last level.
`RR.scheduling` sorts the module's `process_list`, whatever list it was given: `global`
says whether that is its own, as it is when the test program calls RR (the arrival times
are any), and not when it is the last level, whose arrival times are then numbered by
place.  The ghost `order` is what the list should be, sorted by arrival times.

### The exercises

Three of the small programs keep state between calls and are state machines.
`Lists`: `block` is the memory at `av` or `base`, `length` the elements in it, `next`
and `data` the nodes on the heap; `items` is a ghost, what the calls so far should
have left, with `Garbage` for a cell that a defective call left unwritten.  An operation is one step, with the growth inside it.  `MyString`: `ptr`,
`len` and `heap`; every member function is a step, on any objects in any order; `value`
(the text an object should stand for) and `lost` (buffers nobody owns) are ghosts.  An
uninitialised pointer has a value of its own, and what would follow it is not called.
`Sockets`: main, one child per client, and the clients; the kernel's stream is the
count of bytes written and the count read, and `read()` returns any number of those
that are there.

The other exercises have no state but their input.  `Packs`, `Arrays`, `Fenwick`, `Words`,
`Tables` and `Trees` define each as the function it computes, changes in place, loop
bounds and stray reads included (a cell beside the array is a parameter that may be
anything), and beside it a predicate that compares it with a definition that tries all
possibilities.  `MCExercises` takes the inputs as initial states: a behaviour is one
program, named by `program`, and `ResultsAreRight` and `WalksAreRight` pick its
predicates.

The predicates say for which inputs a program is right, and in doing so what it does
not do:

* `RemoveDuplicate` compares the first element with the cell in front of the array, and
  `RemoveDuplicate1` drops the first value; `StockProfit1` needs the cell behind the
  array to be no higher than the last price, `StockProfit2` reads it and does not mind;
* `SortByShell` makes one comparison per element and pass: it keeps all elements and puts
  the largest last, but does not sort;
* `plus` of `jichu30.cpp` never reaches the last cell (`pos < n`), so the last prefix sum
  is stale; `update` there is called for 1 .. n - 1 and still leaves every range right;
* `Knaspack` takes the first item only if it leaves room (`W > w[1]`); with an item of
  weight zero the walk back can leave the table;
* `IsMatch_DP` answers for both strings without their last character, `41.cpp` does not
  see a repetition of the first character, `cstring_cmp` orders as it should only while no
  number begins with another;
* `TBrowseStack` ends with the first top node that has sons; a tree needs two tokens per
  node, the root included, and the test program's `aaNode` has fewer;
* a failing visitor ends an in-order walk and only prunes a pre-order one, and
  `InOrderTraverse3` is two pre-orders with the root between them;
* a push on to a full stack lands behind the enlarged block; `ListDelete_L` behind the last
  node frees the header; the copy of a `MyString` without a buffer has an uninitialised
  pointer, and move assignment leaks; after one short read a client prints numbers that
  were never sent.

Most of these are exercises without a document that promises more, so the predicates
state what holds.  Where a comment does say something the model follows the code:
`ListDelete_L` works "at the i-th node" (`jichu29.cpp:107`) and frees the one behind it.
`ListsHold` therefore does not claim which node a number names; it says that the ring
stays one ring, with every node on it and each element behind the node the walk came
to.  `GetElem_L` is to get the i-th node (88) and returns the first: it changes nothing and
is left out.

## Runs

| Run | Instance | Shows |
|---|---|---|
| `any_order` | a server and a client (which may register a callback handle), any call at any time, 2 lives of each address, 1 request per life, 1 handle for users | `TypeOK`, `OneHolder`; the driver implements `RpcService` |
| `orderly` | 2 threads share the serving file, 1 client, 2 lives of each address, 2 handles for users | `EntriesAreOpen`, `EntryKnownToServer`, `AnswersReachTheCaller`, `NothingLost` under `Orderly` |
| `serving` | 1 server thread, a client file with a writer and a reader, 2 requests, any order of calls | `ServedInOrder`, `NoMissedWakeUp`, `CloseAnswers`, `ReadersReturn` |
| `late_lookup` | `orderly` without `LookupsLandFirst` | violated: `NothingLost` |
| `listener` | 2 files, one of them shared by 2 threads, 2 handles, 2 nodes, 2 broadcasts | `SubscribersAreAlive`, `ListsAgree`, `EventsInOrder`, `BroadcastReachesAll`, `ReleaseEnds` |
| `work_queue` | 2 files, 2 requests each, STOP, unload | `WaitingIsQueued`, `SleepersAreWoken`, `UnloadedIsQuiet`, `AnswersInOrder`, `RpcSpec`, `RequestsAreAnswered` |
| `programs` | `dwq_server2` (may be killed), `dwq_client2 sync`, `dwq_client2 async` with its thread | `ProgramsAreOrderly`, `EchoesItsRequest`, `SyncEnds` |
| `callback` | the same, nobody killed | violated: `CallbackIsRead` |
| `skipped_callback` | the same, the async client killed | violated: `EchoesItsRequest` |
| `shm` | 3 client runs in turn, the server started twice, `seq` modulo 3 | `TakenOnce`, `RepliesMatch`, `RequestsAreAnswered` |
| `shm_stale` | the same | violated: `SeenBeforeDone` |
| `exercises` | 4 processes, 3 levels, service times 1..5, first slice 1 or 2, arrivals 0 or 1; blocks of 2 cells that grow by 2, 4 insertions; 3 strings, 3 buffers, texts of 0 to 2 characters; 2 clients, 3 numbers of 2 bytes; the inputs of the functions | `SlicesAreShared`, `FinishTimesAreRight`, `LevelsAreCharged`, `QueuesAreKept`; `ListsHold`; `BuffersHaveOneOwner`; `NumbersAreWhole`; `ResultsAreRight`, `WalksAreRight`; `ProgramsEnd` |

Why the bounds are enough.  Two files and one handle give every pair of a server, a
client and a bystander that the code distinguishes, since it never compares two
files or two handles with each other; two lives of an address are what a dangling
pointer needs to hit a stranger; two threads on one file are what the windows inside
REGISTER and the two-readers case need; two requests show order.  Requests and
broadcasts are bounded because lists are unbounded; a list of two has a head that
is not its tail.  In `exercises` a block of two grows within four insertions, at the
boundary and once past it; three strings are one to copy from, one to copy to and one to
notice; a number of two bytes has a first and a last part, and three numbers let a
client be out of step and stay so.  The functions get every array up to five elements of
four values, every string up to five characters of three letters, every tree up to five
nodes and every set of nodes at which a visitor fails, every knapsack of three items,
and Fenwick trees of eleven cells (all lengths of range, the last cell not a power of
two).  Their loops look at neighbouring elements, so that a longer input repeats what a
short one does.  `MaxDone` bounds events only.  `seq` modulo 3 wraps within the
run, to the value the server starts with.  In `shm` the restriction `OneAtATime`
says that clients are run one after the other, and `PromptServer` that a server which
was up when the client published takes less than the five seconds the client waits (it
sleeps one, and has at most one request before this one).  A server started later may be
too late, and the client then times out while the server works: that is allowed, and
`RequestsAreAnswered` speaks of the clients in `ready` only.
`NoMissedWakeUp` is checked in `serving`, where a second reader can free the transaction
that a wake-up goes through.

What the violations show is in `PROJECT.json` under "findings": four places where a
comment of the source promises what the program does not do.

### Fairness

* `Dwq`, `Listener`, `ClientServer`: a thread that is inside a system call and not
  asleep runs on (the scheduler), and a release that has begun runs on.  Nothing is
  assumed of what programs begin, except in `ClientServer`, where a program that is
  not asleep makes its next call.  Signals and kills are never fair.
* `WorkQueue`: the workqueue runs what is queued, and `delay_func` ends.
* `ShmRpc`: a client that has begun runs on; the server polls while it is up.
  Nothing makes the server start.
* `MCExercises`: the program that is run goes on, whichever of its steps it takes (weak
  fairness of the whole next-state relation): the scheduler's loop is a `while`, and in
  `Sockets` each step of a client or child uses up a number or a byte, so that some
  process can always move until all have ended.  Lists and strings go on for ever, and
  nothing is claimed of their end.

All of it is weak fairness of steps that, once enabled, only their own actor disables,
with one exception: the mutex steps of `Listener` wait for a broadcast.  Fairness
there is stated in the module beside `Fairness`, where the reason is given.

## Proofs

TLAPS proves what follows for every number of files, threads, handles and requests.
A detailed invariant was checked by TLC on an instance before it was proved.

### The driver

* `DwqProofs`: `TypeCorrect`; `EntriesAreOpenHolds` and `EntryKnownToServerHolds` under `OrderlySpec`, of which only `RegistersOnce` is
  used.  Their invariant `TableInv` adds to the two properties that a thread in a
  call has an open file (`CallsAreOpen`), that one thread at a time registers
  (`OneRegisters`), that only open files, or files whose release has not cleared
  the table, are named (`OnlyOpenNamed`), what the table says half-way through
  REGISTER and UNREGISTER (`HalfWay`), and what it says of files with no such call
  (`SettledKnown`).  Neither property is inductive without them: release clears
  `serverHandle[c]`, and is right only because that is the one entry naming `c`.
* `RequestProofs`, under `Spec`, whatever the programs do.  `OneHolderHolds` needs
  `RequestInv`: lists are without duplicates (`Distinct`), a live request is at one
  place and any other at none (`HeldOnce`), ids are below the counter (`Numbered`: a
  new request is nowhere yet), a closed context has empty lists.  Places are pairs of
  a kind and a file or thread; each action is shown to move the requests of a set to
  one place and leave the others alone (`Moved`), and that is all the invariant
  needs.  `DriverServes` builds on the same lemmas: the refinement mapping
  gives each request the status of the kind of place it is at (`StatusOf`, `KindStatus`), or of
  its fate when it is at none, and every `Moved` is a step of `RpcService` or a stutter.
  `NoMissedWakeUpHolds` needs `WakesPledged`: while a reader sleeps, every element of its
  list has a wake-up of its own pledged, or one of an event or a request that covers all.
  That the last answer's wake-up is not astray is `OneHolder` again: an answer in the list
  has not been freed.
* `OrderProofs`, under `OrderlySpec`.  `OrderInv` says that the file of a travelling
  request is open and in the life that wrote it (`CallersWait`), that a writer's
  target has not begun to drain its lists (`TargetsStay`), and what has been drained stays
  empty (`DrainedStay`).  `ClosesWhenAnswered` keeps the first, `LookupsLandFirst` the
  second; `AnswersReachTheCallerHolds` and `NothingLostHolds` follow.
  `ServedInOrderHolds` assumes one writing thread per file and one reading thread per
  file that may serve (`OneWriterEach`, `OneReaderEach`), as in the run `serving`: the
  windows between the id and the append, and between the pop and the second append,
  reorder requests of two threads.  `ServingInv` orders what a writer holds, what is
  pending, what a reader holds and what is dispatched, in that sequence.

### The programs on it

* `ClientServerProofs`: `ProgramsInv` says for each of the four kinds of threads where
  its program can be while its call is at a given place, what its file then looks like
  (`ServerAt`, `ServerHas`, `SyncAt` and so on), and that a closed file has none of its threads in
  a call.  It is inductive together with the driver's invariants (`AllInv`).  Each
  action is shown to change one file and its threads, and a thread of another file
  keeps its part of the invariant because the action leaves that file alone.  Then
  `ProgramsAreOrderlyHolds`, `EchoesItsRequestHolds`, and `ProgramsUseTheDriverWell`:
  `SpecAll => OrderlySpec`, so that the theorems of `OrderProofs` and `DwqProofs` hold
  of the two programs without assuming that they behave.  The hypothesis `ClientsLive`
  is that only servers are killed: a client killed with a request under way is not orderly,
  and the run `skipped_callback` shows what that does to the echo.  `LookupsLandFirst` is part of
  `SpecAll`, as no program can enforce it.
* `ListenerProofs`: `TypeCorrect`, `SubscribersAreAliveHolds`, `ListsAgreeHolds`.
  Their invariant `LinkInv` says which nodes are on which list, once (`HandleLists`,
  `FileLists`), which a call or a release holds between its two steps (`CallsHold`,
  `ReleasesHold`), that every allocated node is on its file's list or in one such
  hand (`NodesAreHeld`), and what is true of a file that is closed (`LifeInv`).
  `EventsInOrderHolds` and `BroadcastReachesAllHolds` add `CastInv`: a broadcaster
  holds its handle's mutex, no two send the same event, and a file has got an event
  once for each of its nodes in the part of the list already walked that memory was found
  for.
* `WorkQueueProofs`: `TypeCorrect`, `WaitingIsQueuedHolds` and `UnloadedIsQuietHolds`,
  from `WorkInv`, the conjunction of the two with two lemmas: a cancelled work is off the queue
  (`CancelKeepsOff`), and once the unloading has begun no file is open and `dwq_exit` is
  inside the cancellation only until the module is gone.  `AnswersInOrderHolds` needs `LineInv`: the
  requests of a file in its `done_list`, in the worker's hand and in `wq_pending` are
  consecutive numbers in that order.  `SleepersAreWokenHolds` uses it too: the request in
  work is live, and only its own file's calls free it, which a sleeping thread does not
  make.  `WorkServes` is the refinement of `RpcService`.
* `ShmRpcProofs`: `TypeCorrect`.  `RepliesMatchHolds`, from `PageInv`, which says what each word of the
  page holds for each place of the one client that is under way.
  `TakenOnceHolds`, from `TakenInv`, has the hypothesis `Cardinality(Client) <=
  SeqMod`: each client adds one to `seq`, a 32-bit number in the code, and a run of the server that
  outlives 2^32 requests meets a number again.  Both assume `CarefulSpec`, clients
  one after the other, and nothing of how soon the server answers (`PromptServer` is needed
  for the liveness of the run only).

### The programs beside the driver

`ExerciseProofs` states each program's theorems of its own specification (`Spec`,
`M!Spec`, `N!Spec`, `L!Spec`).

* Induction.  The library states induction over the natural numbers for an operator,
  which the prover cannot instantiate; but it states for a relation, a set, that they are
  well-founded.  `Induct` follows (a set that has 0 and the successor of each of its
  members is `Nat`), and from `Induct` that a recursive definition has a function that
  satisfies it (`RecursionExists`) and no other (`RecursionIsUnique`).  `Powers` and
  the lemmas about `SumOf` and `Walk` are instances.
* Schedulers.  `InOrderIsList` says that `InOrder` (`list.sort`, and the lists at the
  beginning) lists a finite set once, in its order; `SortedIsList` and `RemovedIsList`
  say what `list.sort` and `list.remove` leave.  `SchedulerInv` has besides the types:
  `index` is inside the list of the loop that runs and no later list is empty
  (`LoopsAreInside`); a list holds a process once (`ListedOnce`); a process waits at
  one place if it has service left and else at none (`WaitsOnce`, `WaitsIfUnserved`),
  where the demoted ones that stay in the current list before `index` do not count;
  of two processes of one home the later one is never ahead, in the same list or at a
  later level (`InTurn`: with the order inside each list alone, the step that demotes
  would not keep it); and in a round of RR those before `index` have had the same,
  one slice more than the others (`RoundIsShared`: `SlicesAreShared` alone does not
  say who is ahead).  From it follow `SchedulerTypeCorrect`, `SlicesAreSharedHolds`
  and `QueuesAreKeptHolds`, for any number of processes and levels and any times.
  `LevelsAreChargedHolds` adds that the slices of the levels double (`Doubles`), and that
  a process has been charged the slices of the levels from its home to its own, a
  difference of two of them (`ChargedWith`).  `FinishTimesAreRightHolds` needs
  `RoundsAreKept`: so many whole rounds of RR are over, in this one the places up to `m` of
  the first list have had their slice, what is left of the list is in its order, and the
  clock is the sum of what everybody got (`Service`).
* `MyString`: `BuffersHaveOneOwnerHolds`, for any objects, texts and sequence of
  calls.  The property is inductive with the types of the five variables; each
  constructor, assignment and the destructor changes one or two objects, and the
  buffer that it takes is not allocated, as `HasRoom` says.
* Sockets: `NumbersAreWholeHolds`, for any number of clients, numbers and bytes.
  `SocketInv` counts, for each connection, the bytes taken against the numbers written
  (`StreamAt`); a client whose reads were all whole has taken `Width` bytes for each
  number it read (`Whole`), so that its next read begins where a number does.
* Containers: `ListsHoldHolds`, for any elements, capacities and sequence of calls.
  `ArraysHold`: each known element of the array list and of the stack is in its cell,
  inside the block.  `RingsHold`: the nodes can be enumerated from the header on
  in the order of their pointers, the last one leading back (`Circle`), with the elements
  as their data (`OnRing`).  Hence a walk of `k` steps ends at place `(k + 1) % (n + 1)`, for any
  `k` (`WalkGoesRound`), and the step that links a node in or takes one out shifts the
  enumeration behind it.
* Best choices: `KnapsackIsRightForAll` (`jichu8.cpp`), `ZeroOnePackIsBest`
  (`leetcode/ZerorOnePack.cpp`) and `LootIsBestForAll` (`leetcode/Stolen.cpp`) compare
  the tables with the best of all sets of items, for any input; the run compares
  them for up to three items and six houses.  `BestRow` says that a row has the best of some of the items for
  each limit; `PackStep` adds an item to both, in whichever order the program takes them.
  `Walked` is the invariant of the loop of `Traceback`: what is chosen so far and the
  cell it has come to make the value of the first cell.  The cases that are left out are the
  code's: items that weigh nothing, and a first item that alone fills the knapsack
  (`W > w[1]`).  The tables of the code are of fixed size, of which the models say nothing.

### What they rest on and what is left to TLC

The assumptions are the modules' `ConstantsAssumption` and `ProgramsAssumption`; TLC
evaluates them in every run.  That of `ClientServer` says how the programs are put
together: a file belongs to one server thread, one `sync` client, or the two threads of
an `async` client.  That of `SmallPrograms` gives the sizes their types.

Only model-checked: the liveness properties (`CloseAnswers`, `ReadersReturn`,
`ReleaseEnds`, `RequestsAreAnswered`, `SyncEnds`, `ProgramsEnd`), as liveness under
fairness and ENABLED are out of the prover's reach, and `ResultsAreRight` and
`WalksAreRight`, which say of some fifty exercises what each should compute: most
are RECURSIVE operators on sequences and trees, about which nothing can be proved.  Of
`ResultsAreRight` the part about `Packs` is proved.

## Not modelled

STATUS (reads lengths without locks, changes nothing), `mmap` and the error paths of
`dwq_init`; the contents of messages and `copy_to_user`; the broadcast that
`dwq_server2` sends after every third request (it reaches subscribers only: see
`Listener`); the late look-up inside `ClientServer`; the framebuffer programs and the generated
`*.mod.c`.  `kthread_worker.c` loads and unloads one kernel thread: what could go wrong
there is the kernel's thread library, of which `src/` has no line.  Of the exercises:
`38.cpp`, `42.cpp`, `44.cpp`, `jichu10`, `16`, `19`, `20`, `21`, `24`, `25`, `32`, and in
`leetcode/` `IslandArea`, `solveRoundArea`, `small`, `RouterTrace`, `ListReverse`,
`BinMax` (unfinished, or first versions that another file corrects, or of a kind that is
there already; `jichu35` repeats `jichu34`), the depth-first part of `linkTree.cpp`, the first version in
`StockProfit.cpp`, `RemoveDuplicateII2`, patterns with a dot (`jichu31.cpp` compares a
pointer for them), and the files that print what a language construct does (`jichu`, 1 to
6, 11, 15, 22, 23, 27, 28, 33).  Memory is never exhausted in `Lists` and `MyString`, and
`MyString` frees with `free` what it got from `new[]`, which is not told apart.  The
download script, the class demonstration and the web pages are I/O.

## Plan

1. (done) driver core, listeners, handle 0, programs, shared page, schedulers; first
   theorems.
2. (done) the programs beside the driver, in one run.
3. (done) `OneHolder` as a theorem, and on it the refinement of `RpcService` by `Dwq`;
   `AnswersReachTheCaller`, `NothingLost` and `ServedInOrder`.
4. (done) `WorkQueue`: `AnswersInOrder` and `RpcSpec`; `Listener`: `EventsInOrder` and
   `BroadcastReachesAll`; `ShmRpc`: `TakenOnce` and `RepliesMatch`; `ClientServer`:
   the programs are orderly and echo; the schedulers, `MyString` and the sockets.
5. (done) `FinishTimesAreRight`, `LevelsAreCharged` and `ListsHold`, by induction;
   the exercises of `Packs`.
6. Left: the exercises of `Arrays`, `Words`, `Tables` and `Trees`, once their RECURSIVE
   operators are functions.
