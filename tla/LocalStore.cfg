SPECIFICATION FairSpec
CONSTANTS
    Clients = {c1, c2}
    Keys = {k1}
    Marker = Marker
    Payloads = {p1}
    Absent = Absent
    Error = Error
    MaxCount = 1
INVARIANTS DeadlineKept NoLostIncrement
PROPERTIES RefinesForgetfulStore EntriesExpire
