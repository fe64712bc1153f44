SPECIFICATION CarefulSpec
CONSTANTS
    a = a
    b = b
    c = c
    Client = {a, b, c}
    Nobody = Nobody
    SeqMod = 3
    MaxStarts = 2
INVARIANT SeenBeforeDone
CHECK_DEADLOCK FALSE
