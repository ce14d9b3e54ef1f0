CONSTANTS
    zero = zero
    one = one
    Obj = Obj
    Path <- MCPath
    Above <- MCAbove
    Atoms <- MCAtoms
    NameLimit = 4
    Events <- MCEvents
    Shortcuts <- MCShortcuts
    Sizes <- MCSizes
    Chunks <- MCChunks
    MaxGiven = 5
    Statuses <- MCStatuses
    Answers <- MCAnswers
    Lines <- MCLines
    MaxLines = 3
    Streams <- MCStreams
SPECIFICATION AlgorithmsSpec
INVARIANTS AgreesWithRecursion PartsAreWhole BodyAsAnnounced SameEvent
           ShortcutArrives FailuresAgree UploadTold
\* Every input comes to an end.
CHECK_DEADLOCK FALSE
