---------------------------- MODULE FeedbackQueue ----------------------------
(***************************************************************************)
(* The CPU schedulers of src/pythonstudy/OperatingSystens-master/          *)
(* Multilleved_Feedback_Queue.py: RR.scheduling(), round robin over one     *)
(* list, and MulitlevedFeedbackQueue.scheduling(), which gives every        *)
(* process one time slice per level, twice as long at each level, and hands *)
(* what is left to RR at the last one.                                      *)
(*                                                                          *)
(* One step is one turn of a scheduler's while loop.  RR alone is a run     *)
(* that begins at the last level.  Indices are 0-based, as in the source.   *)
(***************************************************************************)
EXTENDS Totals, Sequences, FiniteSets

CONSTANTS
    NProc,      \* processes are 1 .. NProc
    Levels,     \* len(queue_list)
    MaxServe,   \* bound: serve_time
    MaxArrive,  \* bound: arrive_time
    Slices      \* the slices tried for the first level, or for RR

ASSUME ConstantsAssumption ==
    /\ NProc \in Nat /\ Levels \in Nat \ {0} /\ NProc >= Levels
    /\ MaxServe \in Nat \ {0} /\ MaxArrive \in Nat
    /\ Slices \subseteq Nat \ {0}

VARIABLES
    serve,      \* serve_time, an input
    arrive,     \* arrive_time, an input of RR
    global,     \* an input of RR: its list is the module's process_list
    home,       \* ghost: the level whose list the process was put in
    left,       \* left_serve_time
    finish,     \* finish_time, set by RR only
    queues,     \* process_list of every level
    slice,      \* time slice of the current level
    level,      \* the level whose loop runs
    index,      \* index of that loop
    clock,      \* running_time of RR
    phase,      \* "level", "sort" (RR begins), "rr", "ended"
    base,       \* ghost: left_serve_time when RR began
    order       \* ghost: the processes of the list when RR began, by arrival
vars == <<serve, arrive, global, home, left, finish, queues, slice, level, index, clock,
          phase, base, order>>

Process == 1 .. NProc
Level   == 0 .. Levels - 1
Last    == Levels - 1

Pow2[n \in Nat] == IF n = 0 THEN 1 ELSE 2 * Pow2[n - 1]

TypeOK ==
    /\ serve \in [Process -> 1 .. MaxServe]
    /\ arrive \in [Process -> Nat]
    /\ global \in BOOLEAN
    /\ home \in [Process -> Level]
    /\ left \in [Process -> 0 .. MaxServe]
    /\ finish \in [Process -> Nat]
    /\ queues \in [Level -> Seq(Process)]
    /\ slice \in Nat \ {0}
    /\ level \in Level
    /\ index \in 0 .. NProc
    /\ clock \in Nat
    /\ phase \in {"level", "sort", "rr", "ended"}
    /\ base \in [Process -> 0 .. MaxServe]
    /\ order \in Seq(Process)

\* The elements of S one after the other; before is a total order, as a set of pairs.
InOrder(S, before) ==
    [k \in 1 .. Cardinality(S) |->
        CHOOSE x \in S : Cardinality({y \in S : <<y, x>> \in before}) = k - 1]

\* Processes in the order of their names, those of level l.
InLevel(h, l) ==
    InOrder({p \in Process : h[p] = l}, {w \in Process \X Process : w[1] < w[2]})

Begin ==
    /\ serve \in [Process -> 1 .. MaxServe]
    /\ left = serve
    /\ finish = [p \in Process |-> 0]
    /\ queues = [l \in Level |-> InLevel(home, l)]
    /\ slice \in Slices
    /\ index = 0 /\ clock = 0
    /\ base = left /\ order = <<>>

\* Every level has processes at first, as in the test program of the source: an
\* empty list is an error in both schedulers.  No level's list is process_list.
InitLevels ==
    /\ home \in {h \in [Process -> Level] :
                    /\ \A p, r \in Process : p < r => h[p] <= h[r]
                    /\ \A l \in Level : \E p \in Process : h[p] = l}
    /\ arrive = [p \in Process |-> p - 1]
    /\ global = FALSE
    /\ level = 0
    /\ phase = IF Levels = 1 THEN "sort" ELSE "level"

\* RR alone, as the test program calls it: on process_list.
InitRoundRobin ==
    /\ home = [p \in Process |-> Last]
    /\ arrive \in [Process -> 0 .. MaxArrive]
    /\ global = TRUE
    /\ level = Last
    /\ phase = "sort"

Init == (InitLevels \/ InitRoundRobin) /\ Begin

-----------------------------------------------------------------------------
(* MulitlevedFeedbackQueue: the loop of a level but the last.              *)

\* list.remove of the element at index i
Removed(s, i) == SubSeq(s, 1, i) \o SubSeq(s, i + 2, Len(s))

\* After the last process of its list the level ends: the next one has twice
\* the slice, and the last one is left to RR.
NextLevel(q2, i) ==
    IF i = Len(q2[level])
    THEN /\ level' = level + 1
         /\ slice' = 2 * slice
         /\ index' = 0
         /\ phase' = IF level + 1 = Last THEN "sort" ELSE "level"
    ELSE index' = i /\ UNCHANGED <<level, slice, phase>>

Current == queues[level][index + 1]

\* The slice is not enough: the process goes to the end of the next list (and
\* stays in this one, which nobody reads again).
DemoteInto(next, charge) ==
    LET q2 == [queues EXCEPT ![level + 1] = next]
    IN  /\ phase = "level"
        /\ left[Current] > slice
        /\ left' = [left EXCEPT ![Current] = @ - charge]
        /\ queues' = q2
        /\ NextLevel(q2, index + 1)
        /\ UNCHANGED <<serve, arrive, global, home, finish, clock, base, order>>

\* Mutant of Demote: the process is put at the head of the next list.
DemoteToFront == DemoteInto(<<Current>> \o queues[level + 1], slice)

\* Mutant of Demote: the slice is not taken off.
DemoteUncharged == DemoteInto(Append(queues[level + 1], Current), 0)

Demote == DemoteInto(Append(queues[level + 1], Current), slice)

\* The slice is enough: the process is removed, and index names the next one.
Remove(rest, step) ==
    LET q2 == [queues EXCEPT ![level] = Removed(@, index)]
    IN  /\ phase = "level"
        /\ left[Current] <= slice
        /\ left' = [left EXCEPT ![Current] = rest]
        /\ queues' = q2
        /\ NextLevel(q2, index + step)
        /\ UNCHANGED <<serve, arrive, global, home, finish, clock, base, order>>

\* Mutant of Complete: index += 1 after the removal too.
CompleteSkips == Remove(0, 1)

Complete == Remove(0, 0)

-----------------------------------------------------------------------------
(* RR                                                                      *)

\* list.sort(key = arrive_time) with the times at; it is stable.
Sorted(s, at) ==
    LET earlier == {w \in (DOMAIN s) \X (DOMAIN s) :
                       \/ at[s[w[1]]] < at[s[w[2]]]
                       \/ at[s[w[1]]] = at[s[w[2]]] /\ w[1] < w[2]}
        by == InOrder(DOMAIN s, earlier)
    IN  [i \in DOMAIN s |-> s[by[i]]]

\* The feedback queue numbers the processes of its last list in their order.
Numbered(s) ==
    [p \in Process |-> IF \E j \in DOMAIN s : s[j] = p
                       THEN (CHOOSE j \in DOMAIN s : s[j] = p) - 1 ELSE arrive[p]]

\* RR is called, and sorts the module's process_list: the list it then serves only
\* if that is the one it was given.  (A last level that holds nobody by now is an
\* error.)
RRBegins(times, list) ==
    /\ phase = "sort"
    /\ phase' = "rr"
    /\ arrive' = times
    /\ queues' = [queues EXCEPT ![Last] = list]
    /\ order' = Sorted(queues[Last], times)
    /\ base' = left
    /\ UNCHANGED <<serve, global, home, left, finish, slice, level, index, clock>>

\* Mutant of RRSort: no list is sorted.
RRUnsorted == RRBegins(IF global THEN arrive ELSE Numbered(queues[Last]), queues[Last])

\* Mutant of RRSort: the last list is not numbered before.
RRUnnumbered ==
    RRBegins(arrive, IF global THEN Sorted(queues[Last], arrive) ELSE queues[Last])

RRSort ==
    RRBegins(IF global THEN arrive ELSE Numbered(queues[Last]),
             IF global THEN Sorted(queues[Last], arrive) ELSE queues[Last])

Scheduled == queues[Last][(index % Len(queues[Last])) + 1]

\* A slice after which the process still has something left.
RRServe(step) ==
    /\ phase = "rr"
    /\ left[Scheduled] > slice
    /\ clock' = clock + slice
    /\ left' = [left EXCEPT ![Scheduled] = @ - slice]
    /\ index' = (index + step) % Len(queues[Last])
    /\ UNCHANGED <<serve, arrive, global, home, finish, queues, slice, level, phase,
                   base, order>>

\* Mutant of RRSlice: index += 1 only when a process has been removed.
RRSliceStays == RRServe(0)

RRSlice == RRServe(1)

\* The last slice, of which the process takes what it needs: it leaves the
\* list, and index stays, to name the one that moved up.
RRLeave(used, rest, step) ==
    /\ phase = "rr"
    /\ left[Scheduled] <= slice
    /\ clock' = clock + used
    /\ left' = [left EXCEPT ![Scheduled] = 0]
    /\ finish' = [finish EXCEPT ![Scheduled] = clock']
    /\ queues' = [queues EXCEPT ![Last] = rest]
    /\ IF rest = <<>> THEN phase' = "ended" /\ index' = index
       ELSE phase' = phase /\ index' = (index + step) % Len(rest)
    /\ UNCHANGED <<serve, arrive, global, home, slice, level, base, order>>

Rest == Removed(queues[Last], index % Len(queues[Last]))

\* Mutant of RRFinish: the clock is charged a whole slice.
RRFinishWholeSlice == RRLeave(slice, Rest, 0)

RRFinish == RRLeave(left[Scheduled], Rest, 0)

-----------------------------------------------------------------------------
Next == Demote \/ Complete \/ RRSort \/ RRSlice \/ RRFinish

Spec == Init /\ [][Next]_vars /\ WF_vars(Next)

-----------------------------------------------------------------------------
Least(a, b) == IF a < b THEN a ELSE b
Positive(n) == IF n > 0 THEN n ELSE 0

\* Round robin is fair: of two processes still in its list, neither is ahead
\* of the other by more than one slice, whoever has left the list meanwhile.
SlicesAreShared ==
    phase = "rr" =>
        \A i, j \in DOMAIN queues[Last] :
            LET p == queues[Last][i]
                r == queues[Last][j]
            IN  (base[p] - left[p]) - (base[r] - left[r]) <= slice

\* The finish time that RR reports is the sum of what everybody was served by
\* then, when the processes are served in the order of their arrival times: in the
\* round in which p ends, those before it have had as many slices as p, those
\* after it one less.
Rounds(p) == (base[p] + slice - 1) \div slice
Position(p) == CHOOSE i \in DOMAIN order : order[i] = p
FinishTime(p) ==
    SumOf([i \in DOMAIN order |->
              Least(base[order[i]],
                    slice * (IF i <= Position(p) THEN Rounds(p) ELSE Rounds(p) - 1))],
          Len(order))
FinishTimesAreRight ==
    \A i \in DOMAIN order : left[order[i]] = 0 => finish[order[i]] = FinishTime(order[i])

\* At each level a process gets that level's slice and no more: when RR takes
\* over, what is left is serve_time less the slices of the levels it has been
\* through, the first of them the one it was put in.
First == slice \div Pow2[Last]
LevelsAreCharged ==
    phase = "rr" /\ (\E p \in Process : home[p] # Last) =>
        \A p \in Process :
            base[p] = Positive(serve[p] - First * (Pow2[Last] - Pow2[home[p]]))

\* No process is lost between the levels: one with service left still waits,
\* once, in the rest of the current list or in a later one; and the waiting ones
\* that began in the same level stand in the order they had there.
Waiting(p) ==
    {w \in (level .. Last) \X (1 .. NProc) :
        /\ w[2] \in DOMAIN queues[w[1]]
        /\ (w[1] = level /\ phase = "level") => w[2] > index
        /\ queues[w[1]][w[2]] = p}
QueuesAreKept ==
    /\ \A p \in Process : Cardinality(Waiting(p)) = IF left[p] > 0 THEN 1 ELSE 0
    /\ phase \in {"level", "sort"} /\ (\E p \in Process : home[p] # Last) =>
          \A p, r \in Process : home[p] = home[r] /\ p < r =>
              \A w \in Waiting(p), v \in Waiting(r) :
                  w[1] = v[1] => w[2] < v[2]

\* The schedulers end, with everybody served.
Terminates == <>(phase = "ended" /\ \A p \in Process : left[p] = 0)
=============================================================================
