SPECIFICATION FairSpec
CONSTANTS
    Procs = {p1, p2}
    Tables = {"t", "u"}
    ModelsOf <- MCModelsOf
    Rollouts <- MCRollouts
    MaxFaults = 1
INVARIANTS
    SuccessMeansSynced
PROPERTIES
    DropsAllowedOnly
    
    EventuallyMigrated
