---------------------------- MODULE SmallPrograms ----------------------------
(***************************************************************************)
(* The programs beside the driver that keep state from step to step: the    *)
(* schedulers (FeedbackQueue), the class MyString, the socket programs      *)
(* (Sockets) and the containers (Lists).  They share nothing; MCExercises   *)
(* runs one at a time, and ExerciseProofs proves about each.                *)
(***************************************************************************)
EXTENDS FeedbackQueue

CONSTANTS Object, Char, Literal, MaxBuffers,       \* MyString
          Client, Count, Width,                 \* Sockets
          Value, Garbage, InitSize, Increment, MaxItems     \* Lists

ASSUME ProgramsAssumption ==
    /\ Literal \subseteq Seq(Char) /\ MaxBuffers \in Nat
    /\ Count \in Nat /\ Width \in Nat \ {0}
    /\ InitSize \in Nat /\ Increment \in Nat \ {0} /\ MaxItems \in Nat

VARIABLES ptr, len, heap, lost, value,
          server, child, i, client, reads, taken, received, printed, short,
          kind, block, length, next, data, items
stringVars == <<ptr, len, heap, lost, value>>
socketVars == <<server, child, i, client, reads, taken, received, printed, short>>
listVars   == <<kind, block, length, next, data, items>>

M == INSTANCE MyString
N == INSTANCE Sockets WITH data <- received
L == INSTANCE Lists

\* The strings of jichu14.cpp: no buffer has two owners (see MyString).
BuffersHaveOneOwner == M!BuffersHaveOneOwner

\* The client of jichu13.cpp: what it prints are whole numbers, in their order,
\* unless a read came back short (see Sockets).
NumbersAreWhole == N!NumbersAreWhole

\* The containers of jichu29.cpp hold what was put in them (see Lists).
ListsHold == L!ListsHold
=============================================================================
