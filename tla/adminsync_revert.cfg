SPECIFICATION Spec
CONSTANTS
    Accounts <- MCAccounts
    Directories <- MCDirectories
    StorageOf <- MCStorageOf
    NoAccount <- MCNoAccount
    Calls <- MCCalls
    MaxLists = 2
    MaxRevivals = 1
    MaxOrphans = 0
    MaxDisturbances = 2
INVARIANT CurrentMeansProvisioned
