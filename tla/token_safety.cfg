SPECIFICATION Spec
CONSTANTS
    ParsableGeneration = 9
    MaxRequests = 2
    MaxLosses = 1
    MaxToggles = 0
    MaxFaults = 1
INVARIANTS TypeOK TokenOutlivesItsPods OneSuccessorPerRequest
PROPERTIES NoTemplateRollback RefinesService HealsUnderNewName
