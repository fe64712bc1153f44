---------------------------- MODULE MCExercises ----------------------------
(***************************************************************************)
(* The programs of src/ that are no part of the driver, for TLC: a          *)
(* behaviour is one run of one of them, named by program.  The schedulers,  *)
(* containers, strings and sockets have steps; an exercise that computes    *)
(* one result from its input has only an initial state, the input.          *)
(***************************************************************************)
EXTENDS SmallPrograms, TLC

VARIABLES program, input

A == INSTANCE Arrays
F == INSTANCE Fenwick
S == INSTANCE Words
T == INSTANCE Tables
R == INSTANCE Trees

allVars  == <<program, input, vars, listVars, stringVars, socketVars>>

\* The literals that MyString is given
Literals == {<<>>, <<"x">>, <<"x", "y">>}

\* The inputs of the exercises
Strings(chars, n) == UNION {[1 .. k -> chars] : k \in 0 .. n}
Wide == {[k \in 1 .. 11 |-> (f * k) % m] : f \in 1 .. 3, m \in {5, 11}}
Digits == {<<0>>, <<1>>, <<2>>, <<1, 0>>, <<1, 2>>, <<2, 1>>, <<1, 2, 1>>}
Inputs(name) ==
    CASE name = "arrays"   -> Strings(0 .. 3, 5)
      [] name = "fenwick"  -> Strings(0 .. 2, 4) \cup Wide
      [] name = "words"    -> Strings({"a", "b", " "}, 5)
      [] name = "numbers"  -> Strings({"1", "+", ".", "a"}, 5)
      [] name = "patterns" -> Strings({"a", "b"}, 3) \X Strings({"a", "b", "*"}, 4)
      [] name = "prints"   -> Strings(Digits, 3)
      [] name = "packs"    -> UNION {[1 .. k -> 1 .. 3] \X [1 .. k -> 0 .. 2] : k \in 1 .. 3}
      [] name = "forms"    -> Strings(Strings({0, 1}, 2), 2)
                                \cup {<<<<1>>, <<0, 1>>, <<1>>, <<0>>>>}
      [] name = "loot"     -> Strings(0 .. 2, 6)
      [] name = "bridges"  -> {<<n>> : n \in 1 .. 5} \X SUBSET (0 .. 5)
      [] name = "trees"    -> (UNION {R!Shapes(n, 1) : n \in 0 .. 5}) \X SUBSET (1 .. 4)
      [] name = "sums"     -> (Strings({0, 1, 9}, 4) \ {<<>>}) \X Strings({0, 5, 9}, 3)

Exercises == {"arrays", "fenwick", "words", "numbers", "patterns", "prints", "packs",
              "forms", "loot", "bridges", "trees", "sums"}

\* A scheduler that is not run
Idle ==
    /\ serve = [p \in Process |-> 1] /\ left = [p \in Process |-> 0]
    /\ base = left /\ finish = left /\ arrive = left
    /\ home = [p \in Process |-> Last] /\ global = TRUE
    /\ queues = [l \in Level |-> <<>>] /\ order = <<>>
    /\ slice = 1 /\ level = Last /\ index = 0 /\ clock = 0 /\ phase = "ended"

InitAll ==
    /\ \/ program \in {"scheduler", "lists", "strings", "sockets"} /\ input = <<>>
       \/ program \in Exercises /\ input \in Inputs(program)
    /\ IF program = "scheduler" THEN Init ELSE Idle
    /\ L!Init /\ (program # "lists" => kind = "SqList")
    /\ M!Init
    /\ N!Init

\* One program runs; nothing of the others changes.
Schedule ==
    /\ program = "scheduler" /\ Next
    /\ UNCHANGED <<program, input, listVars, stringVars, socketVars>>
UseList ==
    /\ program = "lists" /\ L!Next
    /\ UNCHANGED <<program, input, vars, stringVars, socketVars>>
UseString ==
    /\ program = "strings" /\ M!Next
    /\ UNCHANGED <<program, input, vars, listVars, socketVars>>
UseSocket ==
    /\ program = "sockets" /\ N!Next
    /\ UNCHANGED <<program, input, vars, listVars, stringVars>>

NextAll == Schedule \/ UseList \/ UseString \/ UseSocket

SpecAll == InitAll /\ [][NextAll]_allVars /\ WF_allVars(NextAll)

-----------------------------------------------------------------------------
\* What an exercise on arrays, strings or tables returns is what a definition
\* that tries all possibilities says, for every input of its set.
ResultsAreRight ==
    CASE program = "arrays" ->
            LET half == Len(input) \div 2
            IN  /\ A!ZerosAreMoved(input) /\ A!ShellKeepsElements(input)
                /\ \A x \in 0 .. 6 : /\ A!DuplicatesAreRemoved(input, x)
                                     /\ A!PairIsFound(input, x)
                                     /\ A!TradesAreBest(input, x)
                /\ Len(input) % 2 = 0 =>
                      A!CircuitIsFound(SubSeq(input, 1, half), SubSeq(input, half + 1, 2 * half))
      [] program = "fenwick" ->
            /\ \A p \in DOMAIN input : F!FenwickIsRight(input, p, 2)
            /\ \A k \in 0 .. 3 : F!RanksCountPairs(input, k)
      [] program = "words" ->
            /\ S!WordsAreReversed(input) /\ S!LongestIsFound(input)
            /\ S!AwesomeIsFound(input) /\ S!DeletionsAreCounted(input)
            /\ input # <<>> => S!PalindromesAreLongest(input)
      [] program = "numbers"  -> S!NumberIsLongest(input)
      [] program = "patterns" -> S!MatchIsRight(input[1], input[2])
      [] program = "prints"   -> S!PrintedIsGreatest(input)
      [] program = "packs" ->
            \A W \in 1 .. 6 : /\ T!PacksAreBest(input[1], input[2], W)
                              /\ T!ChangeIsLeast(input[1], W)
      [] program = "forms"   -> \A m, n \in 0 .. 3 : T!FormIsLargest(input, m, n)
      [] program = "loot"    -> T!LootIsBest(input)
      [] program = "bridges" ->
            \A max \in 1 .. input[1][1] : \A min \in 1 .. max :
                /\ T!StonesAreFewest(input[1][1], min, max, input[2])
                /\ T!TreesAreCounted(input[1][1])
      [] OTHER -> TRUE

\* The traversals and builders of linked trees and of numbers in lists agree with
\* the trees and numbers they stand for.
WalksAreRight ==
    /\ program = "trees" =>
          /\ R!WalksAgree(input[1], input[2])
          /\ R!BrowsesAgree(input[1])
          /\ input[1] # <<>> => R!LevelsAreLinked(input[1])
    /\ program = "sums" => R!SumsAreRight(input[1], input[2])

\* The schedulers end with everybody served, and the clients of jichu13.cpp end.
ProgramsEnd == Terminates /\ (program = "sockets" => N!ClientsEnd)
=============================================================================
