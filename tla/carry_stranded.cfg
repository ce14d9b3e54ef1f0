CONSTANTS
    atx = atx
    msd = msd
    loop = loop
    zero = zero
    one = one
    null = null
    Obj = Obj
    NoBody = NoBody
    Path <- MCPath
    Above <- MCAbove
    Atoms = {zero, one, null}
    Types = {atx, msd, loop}
    StateTypes = {atx, msd}
    Bodies <- StableBodies
    Required <- MCPath
    PendingLimit = 2
    MaxHeard = 4
    MaxIterators = 1
    MaxOpened = 2
SPECIFICATION Spec
INVARIANT CaughtUp
CHECK_DEADLOCK FALSE
