SPECIFICATION KeyedSpec
CONSTANTS
    Tables = {"posts"}
    Keys <- MCKeys
    TableOf <- MCTableOf
    KeyKind <- MCKeyKind
    Columns <- MCColumns
    Tracked <- MCTracked
    Values = {0, 1}
    Params <- MCParams
    NoParams = NoParams
    DeletedCol = "deleted"
    DeletedValue = 1
    KeepItemFields = {"hidden"}
    Kept <- MCKept
    ParamsOf <- MCParamsOf
INVARIANTS
    NoDanglingKey
    UpdateInvalidates
    KeptListHadNoRow
    CreateAndDeleteInvalidate
