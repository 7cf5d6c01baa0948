SPECIFICATION Spec
CONSTANTS
    Options <- MCOptions
    LoadAffecting <- MCLoadAffecting
    Seed <- MCSeed
    Supported <- MCSupported
    NeedsConfig <- MCNeedsConfig
    FamilyOf <- MCFamilyOf
    None = None
    MaxHistory = 3
    MaxEdits = 3
    Races = {}
INVARIANTS TypeOK NewestLoadsAreOfTheAppliedRoles FreshCertificateIsOfTheLoads
PROPERTY LoadRolesChangeWithTheLoads
CHECK_DEADLOCK FALSE
