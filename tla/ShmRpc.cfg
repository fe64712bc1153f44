SPECIFICATION FairCarefulSpec
CONSTANTS
    a = a
    b = b
    c = c
    Client = {a, b, c}
    Nobody = Nobody
    SeqMod = 3
    MaxStarts = 2
INVARIANTS TakenOnce RepliesMatch
PROPERTY RequestsAreAnswered
CHECK_DEADLOCK FALSE
