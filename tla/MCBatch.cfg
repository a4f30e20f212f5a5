SPECIFICATION FairSpec
CONSTANTS
    Listeners = {"log", "veto", "x", "y", "z"}
    Initial <- MCInitial
    InitialCapacity = 8
    NoListener = NoListener
    o1 = o1
    o2 = o2
    Objects = {o1, o2}
    Batches <- MCBatches
    Vetoes <- MCVetoes
    Absent = Absent
    Deleted = Deleted
    MaxId = 2
    Scenarios <- MCScenarios
CHECK_DEADLOCK FALSE
INVARIANTS
    
    VetoRespected
PROPERTIES
    CommitStoresLast
    
