CONSTANTS
    atx = atx
    msd = msd
    loop = loop
    zero = zero
    one = one
    null = null
    Obj = Obj
    NoBody = NoBody
    Path <- MCPath
    Above <- MCAbove
    Atoms = {zero, one, null}
    Types = {atx, msd, loop}
    StateTypes = {atx, msd}
    Bodies <- StableBodies
    Required <- MCPath
    PendingLimit = 2
    MaxHeard = 4
    MaxIterators = 1
    MaxOpened = 2
SPECIFICATION Spec
INVARIANTS NothingLost SnapshotExact NeverPartial
PROPERTY FeedSpec
\* kvmd may fall silent with nothing left to take.
CHECK_DEADLOCK FALSE
