SPECIFICATION Spec
CONSTANTS
    w1 = w1
    w2 = w2
    o1 = o1
    o2 = o2
    Writer <- TwoWriters
    Output <- TwoOutputs
    Calls <- AnyCalls
    Starts <- AnyStart
    Old = Old
    Absent = Absent
CHECK_DEADLOCK FALSE
INVARIANTS
    PrivateKeyNeverLost
    PrivateKeyFirst
    RecoveryRestores
    SuccessIsTheNewPair
    RefusalTouchesNothing
    NoForceNeverClobbers
    ReportedOutputSurvives
    ReplacedWhole
