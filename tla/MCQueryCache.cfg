SPECIFICATION QSpec
CONSTANTS
    Tables = {"users"}
    TableName = "users"
    Keys <- MCKeys
    TableOf <- MCTableOf
    KeyKind <- MCKeyKind
    Params <- MCParams
    NoParams = NoParams
    DeletedCol = "deleted"
    DeletedValue = 1
    Values = {0, 1}
    KeepItemFields = {}
    Kept <- MCKept
    ParamsOf <- MCParamsOf
    Queries <- MCQueries
    ListKey <- MCListKey
    CountKey <- MCCountKey
    OrderBy <- MCOrderBy
    Absent = Absent
    Clients = {c1, c2}
    Columns = {"name", "deleted"}
    Tracked = {"name", "deleted"}
    Ids = {1}
    Readers = {c1}
    Writers = {c2}
    BulkWriters = {c1}
    cacheListCountLimit = 2
    QueryName = "above"
    Backend = "local"
INVARIANT
    QueryCoherence
