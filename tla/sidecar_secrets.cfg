SPECIFICATION Spec
CONSTANTS
    MaxMeddles = 3
    MaxFaults = 2
INVARIANTS TypeOK CallsAreAuthorized BootstrapMatchesDatabase
PROPERTIES NeverOverwritten EventuallyAnswered
