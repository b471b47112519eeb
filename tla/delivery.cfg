SPECIFICATION Spec
CONSTANTS
    MaxEdits = 2
    MaxTampers = 2
    MaxFaults = 1
INVARIANTS TypeOK KeysOnlyHealed PodServesItsRevision
PROPERTY EventuallyInForce
CHECK_DEADLOCK FALSE
