CONSTANTS
    Main = Main
    Keeper = Keeper
    c1 = c1
    Callers = {c1}
    PushLimit = 1
    InboxLimit = 1
    MaxExtra = 1
    MaxOpened = 1
SPECIFICATION Spec
INVARIANTS TypeOK NobodyWaitsInVain SessionIsDestroyed
PROPERTIES EnteredMeansUp ToldOnce SessionSpec
\* Janus may fall silent, and the program be over.
CHECK_DEADLOCK FALSE
