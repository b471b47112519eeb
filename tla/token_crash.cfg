SPECIFICATION Spec
CONSTANTS
    ParsableGeneration = 9
    MaxRequests = 1
    MaxLosses = 0
    MaxToggles = 0
    MaxFaults = 1
PROPERTY CollectsOnlySuperseded
