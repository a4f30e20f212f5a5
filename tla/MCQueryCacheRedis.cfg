SPECIFICATION QFairSpec
CONSTANTS
    Tables = {"users"}
    TableName = "users"
    Keys <- MCKeys
    TableOf <- MCTableOf
    KeyKind <- MCKeyKind
    Params <- MCParams
    NoParams = NoParams
    DeletedCol = "deleted"
    DeletedValue = 1
    Values = {0, 1}
    KeepItemFields = {}
    Kept <- MCKept
    ParamsOf <- MCParamsOf
    Queries <- MCQueries
    ListKey <- MCListKey
    CountKey <- MCCountKey
    OrderBy <- MCOrderBy
    Absent = Absent
    Clients = {c1, c2}
    Columns = {"deleted"}
    Tracked = {"deleted"}
    Ids = {1, 2}
    Readers = {c1}
    Writers = {c2}
    BulkWriters = {c2}
    cacheListCountLimit = 1
    QueryName = "all"
    Backend = "redis"
INVARIANTS
    QueryCoherence
PROPERTY
    EventuallyFresh
