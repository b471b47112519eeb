SPECIFICATION FairSpec
CONSTANTS
    ParsableGeneration = 9
    MaxRequests = 1
    MaxLosses = 1
    MaxToggles = 1
    MaxFaults = 1
PROPERTY EventuallySettles
