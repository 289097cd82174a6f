SPECIFICATION Spec
CONSTANTS
    w1 = w1
    w2 = w2
    o1 = o1
    o2 = o2
    Writer <- TwoWriters
    Output <- TwoOutputs
    Calls <- TwoUnforced
    Starts <- EmptyStart
    Old = Old
    Absent = Absent
CHECK_DEADLOCK FALSE
INVARIANTS
    NoForceKeepsExisting
