SPECIFICATION FairSpec
CONSTANTS
    Objects = {o1, o2}
    Types = {save, close}
    SingleTypes = {save}
    MaxEvents = 2
    Intervals = {1, 2}
    Repeats = {0, 2}
    Frames = {1}
INVARIANTS
    TypeOK
    NoUseAfterFree
    FiresAtMostPlanned
PROPERTIES
    FiresOnlyWhileHeld
    CancelledIsFreed
CHECK_DEADLOCK FALSE
