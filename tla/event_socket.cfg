CONSTANTS
    p1 = p1
    p2 = p2
    Pingers = {p1}
    Binary = FALSE
    PendingLimit = 1
    InboxLimit = 1
    MaxFrames = 1
    MaxPings = 2
    MaxOpened = 2
SPECIFICATION FairSpec
INVARIANT NobodyWaitsInVain
PROPERTIES SeenFailureIsTold ChannelSpec AlwaysDrained ExitEnds PingsEnd
           IterationEndsInBody
\* The server may fall silent, and the program be over.
CHECK_DEADLOCK FALSE
