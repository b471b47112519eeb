SPECIFICATION FairSpec
CONSTANTS
    Requests <- MCRequests
    Subjects <- MCSubjects
    Keys <- MCKeys
    Lower <- MCLower
    Names <- MCNames
    UserNameFor <- MCUserNameFor
    DeclaredNames <- MCDeclaredNames
    Bootstrap <- MCBootstrap
    Admin <- MCAdmin
    MaxDecisions = 2
    MaxEdits = 1
    MaxChanges = 1
    MaxRestarts = 1
    MaxEvents = 2
INVARIANTS TypeOK OnlyGrantedLevels
PROPERTIES EventuallyFollowsUsers EventuallyAdministered EventuallyEffective
CHECK_DEADLOCK FALSE
