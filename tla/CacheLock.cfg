SPECIFICATION FairSpec
CONSTANTS
    Clients = {c1, c2, c3}
    LockMaxRetries = 2
    NoOwner = NoOwner
INVARIANTS
    MutualExclusion
PROPERTIES
    WithLockReturns
    
