SPECIFICATION Spec
CONSTANTS
    Platforms <- MCPlatforms
    Hosts <- MCHosts
    Parents <- MCParents
    Listeners <- MCListeners
    Starts <- MCStarts
    Home = "team"
    MaxChanges = 2
INVARIANTS TypeOK ReadyWasAdmitted
PROPERTY EventuallyTruthful
CHECK_DEADLOCK FALSE
