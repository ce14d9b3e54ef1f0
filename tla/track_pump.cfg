CONSTANTS
    c1 = c1
    c2 = c2
    Consumers = {c1, c2}
    FrameBuffer = 2
    MaxFrames = 4
    MaxTracks = 3
    MaxOpened = 2
SPECIFICATION Spec
INVARIANTS NobodyWaitsInVain NoStrandedPump NewestKept
PROPERTY WaitEnds
\* No frame may come, and the program may be over.
CHECK_DEADLOCK FALSE
