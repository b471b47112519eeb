SPECIFICATION Spec
CONSTANTS
    Roles <- MCRoles
    Stores <- MCStores
    Hosts <- MCHosts
    Configurations <- MCConfigurations
    Platforms <- MCPlatforms
    MaxChanges = 2
    MaxFaults = 1
INVARIANT TypeOK
PROPERTIES EventuallyOffered EventuallyComposed OffersNoOldPassword
