SPECIFICATION SpecAll
CONSTANTS
    NProc = 4
    Levels = 3
    MaxServe = 5
    MaxArrive = 1
    Slices = {1, 2}
    Value = {1, 2}
    Garbage = 0
    InitSize = 2
    Increment = 2
    MaxItems = 4
    Object = {o1, o2, o3}
    MaxBuffers = 3
    Char = {"x", "y"}
    Literal <- Literals
    Client = {c1, c2}
    Count = 3
    Width = 2
INVARIANTS SlicesAreShared FinishTimesAreRight LevelsAreCharged QueuesAreKept
           ResultsAreRight WalksAreRight ListsHold BuffersHaveOneOwner NumbersAreWhole
PROPERTY ProgramsEnd
CHECK_DEADLOCK FALSE
