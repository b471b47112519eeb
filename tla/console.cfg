SPECIFICATION Spec
CONSTANTS
    Specs <- MCSpecs
    Served = {"route"}
    PgAdmin = TRUE
    MaxEdits = 2
    MaxFaults = 1
    MaxEvents = 2
INVARIANTS TypeOK PairHasFinalizer
PROPERTIES DeletionCompletes EventuallyConverged
CHECK_DEADLOCK FALSE
