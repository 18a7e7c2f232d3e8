SPECIFICATION Spec
CONSTANTS
    Objects = {o1}
    Types = {close}
    SingleTypes = {}
    MaxEvents = 1
    Intervals = {1}
    Repeats = {1}
    Frames = {1}
INVARIANTS
    DeletedAfterExecution
CHECK_DEADLOCK FALSE
