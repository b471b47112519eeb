SPECIFICATION FairSpec
CONSTANTS
    Accounts <- MCAccounts
    Directories <- MCDirectories
    StorageOf <- MCStorageOf
    NoAccount <- MCNoAccount
    Calls <- MCCalls
    MaxLists = 2
    MaxRevivals = 1
    MaxOrphans = 1
    MaxDisturbances = 2
INVARIANTS TypeOK CurrentUnlessDisordered SuccessMeansProvisioned
PROPERTY EventuallyProvisioned
