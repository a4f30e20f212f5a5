SPECIFICATION FairSpec
CONSTANTS
    Owners = {1, 2}
    Items = {1, 2}
    Batches = {{1}, {1, 2}}
    ForeignKeys = {1, 2}
    Absent = Absent
    None = None
    NoneResult = NoneResult
INVARIANTS
    
    HasManyComplete
    ColdManyToMany
    
PROPERTY
    EventuallyExact
