SPECIFICATION FairSpec
CONSTANTS
    Clients = {c1, c2}
    Ids = {1}
    Columns = {"a", "b"}
    Values = {0, 1}
    Zero = 0
    Absent = Absent
    NoneResult = NoneResult
INVARIANTS
    
    DeleteIsExclusive
PROPERTIES
    EventuallyCoherent
    CallsReturn
