SPECIFICATION Spec
CONSTANTS
    Subjects <- MCSubjects
    Lower <- MCLower
    WithPassword <- MCWithPassword
    Granted <- MCGranted
    FirstUsers <- MCFirstUsers
    Modes <- MCModes
    Tabs = {t1, t2}
    MaxAge = 2
    FlowAge = 1
    Window = 1
    MaxFailures = 2
    MaxTime = 2
    MaxFlows = 2
    MaxSwaps = 1
    MaxKeys = 2
    MaxRestarts = 1
    MaxEvents = 2
SYMMETRY TabSymmetry
INVARIANTS TypeOK RevocationBound FailuresBounded FiledForShownIdentity
CHECK_DEADLOCK FALSE
