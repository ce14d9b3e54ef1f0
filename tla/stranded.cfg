CONSTANTS
    p1 = p1
    p2 = p2
    Pingers = {p1}
    Binary = TRUE
    PendingLimit = 2
    InboxLimit = 1
    MaxFrames = 1
    MaxPings = 1
    MaxOpened = 1
SPECIFICATION FairSpec
PROPERTY IterationEnds
\* The server may fall silent, and the program be over.
CHECK_DEADLOCK FALSE
