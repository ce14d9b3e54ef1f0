CONSTANTS
    Consumers = {c1, c2}
    MaxQueue = 2
    MaxMessages = 3
    MaxOpened = 2
    c1 = c1
    c2 = c2
SPECIFICATION Spec
INVARIANTS NothingLeftOpen MediaIsOwn NoFrameLost
PROPERTIES EntryEnds FramesEnd
\* The daemon may send nothing, and the program may be over.
CHECK_DEADLOCK FALSE
