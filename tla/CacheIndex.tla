----------------------------- MODULE CacheIndex -----------------------------
(***************************************************************************)
(* The cache index of internal/cache/index.go: the maps that lead from a   *)
(* changed row to the cached list and count queries the change may affect. *)
(*                                                                         *)
(* A query's parameters are abstracted to what the index and the matcher   *)
(* read from them:                                                         *)
(*   where   "empty", "parsed" or "unparsed" (the predicate parser failed) *)
(*   fields  the columns parseQueryForIndex finds in the WHERE clause      *)
(*   exact   for each column, the values of its = and IN conditions        *)
(*   sat     the rows the WHERE clause selects in the database             *)
(*   match   the rows the parsed predicate matches                         *)
(*   fails   the rows on which matching it returns an error                *)
(*   order   the columns ParseOrderFields finds in the ORDER BY clause     *)
(*   uncertainOrder  whether ParseOrderFields met something else there     *)
(*   includeDeleted  whether soft-deleted rows are selected too            *)
(*                                                                         *)
(* Each Go map whose empty inner maps are deleted is a total function to   *)
(* sets of keys: an absent entry and an empty one are the same.            *)
(***************************************************************************)
EXTENDS Integers, FiniteSets

CONSTANTS
    Tables,      \* table names
    Keys,        \* query cache keys
    TableOf,     \* the table name a key embeds (GenerateCacheKey)
    KeyKind,     \* the prefix of a key: "list", "count", "count_precise", "other"
    Columns,     \* the DB columns of a model
    Tracked,     \* the columns without the tag diff:"-" (CompareFields)
    Values,      \* column values
    Params,      \* the query parameters in use
    NoParams     \* a key without parameters

Row == [Columns -> Values]

ParamType ==
    [where : {"empty", "parsed", "unparsed"}, fields : SUBSET Columns,
     exact : [Columns -> SUBSET Values],
     sat : SUBSET Row, match : SUBSET Row, fails : SUBSET Row,
     order : SUBSET Columns, uncertainOrder : BOOLEAN, includeDeleted : BOOLEAN]

\* Two rows agree on a set of columns.
Agree(r, s, cols) == \A c \in cols : r[c] = s[c]

ASSUME KeysAssumption ==
    /\ TableOf \in [Keys -> Tables]
    /\ KeyKind \in [Keys -> {"list", "count", "count_precise", "other"}]
    /\ Tracked \subseteq Columns

\* What a parsed WHERE clause selects, and how its predicate matches, depends on
\* no column but its fields; a clause the parser accepts has at least one
\* condition, hence one field. The empty predicate matches every row.
ASSUME ParamsAssumption ==
    /\ Params \subseteq ParamType
    /\ NoParams \notin Params
    /\ \A p \in Params :
         /\ p.where = "empty" => /\ p.fields = {} /\ p.sat = Row
                                 /\ p.match = Row /\ p.fails = {}
         /\ p.where = "parsed" => p.fields # {}
         /\ p.where = "parsed" =>
              \A r, s \in Row : Agree(r, s, p.fields) =>
                /\ r \in p.sat <=> s \in p.sat
                /\ r \in p.match <=> s \in p.match
                /\ r \in p.fails <=> s \in p.fails

VARIABLES
    keyToParams, keyToDependencies, keyToPredicate, tableToQueryKeys,
    DependencyIndex, valueIndex, FieldIndex,
    TableToFullTableListKeys, TableToFullTableCountKeys

indexVars ==
    <<keyToParams, keyToDependencies, keyToPredicate, tableToQueryKeys,
      DependencyIndex, valueIndex, FieldIndex,
      TableToFullTableListKeys, TableToFullTableCountKeys>>

uncertainDependencyField == "*"

DepFields == Columns \cup {uncertainDependencyField}

QueryDependencies ==
    [WhereFields : SUBSET DepFields, OrderFields : SUBSET Columns,
     HasUncertainOrder : BOOLEAN]

isListKey(k) == KeyKind[k] = "list"

isCountKey(k) == KeyKind[k] \in {"count", "count_precise"}

\* A count key does not depend on the ORDER BY clause.
buildQueryDependencies(k, p) ==
    [WhereFields |-> p.fields \cup
        (IF p.where = "unparsed" THEN {uncertainDependencyField} ELSE {}),
     OrderFields |-> IF isListKey(k) THEN p.order ELSE {},
     HasUncertainOrder |-> isListKey(k) /\ p.uncertainOrder]

\* The columns under which RegisterQuery calls addDependencyLocked.
DependencyFields(deps) ==
    deps.WhereFields \cup deps.OrderFields
        \cup (IF deps.HasUncertainOrder THEN {uncertainDependencyField} ELSE {})

NewCacheIndex ==
    /\ keyToParams = [k \in Keys |-> NoParams]
    /\ keyToDependencies = [k \in Keys |-> NoParams]
    /\ keyToPredicate = [k \in Keys |-> NoParams]
    /\ tableToQueryKeys = [t \in Tables |-> {}]
    /\ DependencyIndex = [t \in Tables |-> [f \in DepFields |-> {}]]
    /\ valueIndex = [t \in Tables |-> [c \in Columns |-> [v \in Values |-> {}]]]
    /\ FieldIndex = [t \in Tables |-> [c \in Columns |-> {}]]
    /\ TableToFullTableListKeys = [t \in Tables |-> {}]
    /\ TableToFullTableCountKeys = [t \in Tables |-> {}]

\* The DependencyIndex with a key under each column it depends on.
addDependencyLocked(tableName, k, deps) ==
    [DependencyIndex EXCEPT ![tableName] =
        [f \in DepFields |-> @[f] \cup {key \in {k} : f \in DependencyFields(deps)}]]

\* RegisterQuery only ever adds: what an earlier registration of the same key
\* put into the maps stays there.
RegisterQuery(tableName, k, p) ==
    LET deps == buildQueryDependencies(k, p)
        with(keys, cond) == IF cond THEN keys \cup {k} ELSE keys
    IN  /\ keyToParams' = [keyToParams EXCEPT ![k] = p]
        /\ keyToDependencies' = [keyToDependencies EXCEPT ![k] = deps]
        /\ keyToPredicate' =
             [keyToPredicate EXCEPT ![k] = IF p.where = "unparsed" THEN NoParams ELSE p]
        /\ tableToQueryKeys' = [tableToQueryKeys EXCEPT ![tableName] = @ \cup {k}]
        /\ DependencyIndex' = addDependencyLocked(tableName, k, deps)
        /\ valueIndex' =
             [valueIndex EXCEPT ![tableName] =
                [c \in Columns |-> [v \in Values |-> with(@[c][v], v \in p.exact[c])]]]
        /\ FieldIndex' =
             [FieldIndex EXCEPT ![tableName] =
                [c \in Columns |-> with(@[c], c \in p.fields)]]
        /\ TableToFullTableListKeys' =
             [TableToFullTableListKeys EXCEPT ![tableName] =
                with(@, p.where = "empty" /\ isListKey(k))]
        /\ TableToFullTableCountKeys' =
             [TableToFullTableCountKeys EXCEPT ![tableName] =
                with(@, p.where = "empty" /\ isCountKey(k))]

\* Mutant: the fields of the WHERE clause keep leading to the key.
DeregisterFields_Kept(k) == UNCHANGED FieldIndex

\* DeregisterQuery's loop over the fields of each table.
DeregisterFields(k) ==
    FieldIndex' = [t \in Tables |-> [c \in Columns |-> FieldIndex[t][c] \ {k}]]

DeregisterQuery(k) ==
    /\ keyToParams' = [keyToParams EXCEPT ![k] = NoParams]
    /\ keyToDependencies' = [keyToDependencies EXCEPT ![k] = NoParams]
    /\ keyToPredicate' = [keyToPredicate EXCEPT ![k] = NoParams]
    /\ tableToQueryKeys' = [t \in Tables |-> tableToQueryKeys[t] \ {k}]
    /\ DependencyIndex' =
         [t \in Tables |-> [f \in DepFields |-> DependencyIndex[t][f] \ {k}]]
    /\ valueIndex' =
         [t \in Tables |-> [c \in Columns |-> [v \in Values |-> valueIndex[t][c][v] \ {k}]]]
    /\ DeregisterFields(k)
    /\ TableToFullTableListKeys' =
         [t \in Tables |-> TableToFullTableListKeys[t] \ {k}]
    /\ TableToFullTableCountKeys' =
         [t \in Tables |-> TableToFullTableCountKeys[t] \ {k}]

GetAllRegisteredKeys == {k \in Keys : keyToParams[k] # NoParams}

GetQueryKeysForTable(tableName) == tableToQueryKeys[tableName]

\* The CacheKeys of the InvalidationContext for a row: fieldValues are the
\* row's tracked columns. (The context also copies the three keyTo* maps.)
GetInvalidationContext(tableName, row, candidateColumns) ==
    (UNION {valueIndex[tableName][c][row[c]] : c \in Tracked \cap candidateColumns})
      \cup (UNION {FieldIndex[tableName][c] : c \in candidateColumns})
      \cup TableToFullTableListKeys[tableName]
      \cup TableToFullTableCountKeys[tableName]
      \cup (UNION {DependencyIndex[tableName][c] : c \in candidateColumns})
      \cup DependencyIndex[tableName][uncertainDependencyField]

-----------------------------------------------------------------------------
(* The index under any sequence of registrations and removals.             *)

Init == NewCacheIndex

\* A key embeds its table's name, so it is only registered for that table.
Register == \E k \in Keys, p \in Params : RegisterQuery(TableOf[k], k, p)

Deregister == \E k \in Keys : DeregisterQuery(k)

ResetGlobalCacheIndex ==
    /\ keyToParams' = [k \in Keys |-> NoParams]
    /\ keyToDependencies' = [k \in Keys |-> NoParams]
    /\ keyToPredicate' = [k \in Keys |-> NoParams]
    /\ tableToQueryKeys' = [t \in Tables |-> {}]
    /\ DependencyIndex' = [t \in Tables |-> [f \in DepFields |-> {}]]
    /\ valueIndex' = [t \in Tables |-> [c \in Columns |-> [v \in Values |-> {}]]]
    /\ FieldIndex' = [t \in Tables |-> [c \in Columns |-> {}]]
    /\ TableToFullTableListKeys' = [t \in Tables |-> {}]
    /\ TableToFullTableCountKeys' = [t \in Tables |-> {}]

Next == Register \/ Deregister \/ ResetGlobalCacheIndex

Spec == Init /\ [][Next]_indexVars

-----------------------------------------------------------------------------

TypeOK ==
    /\ keyToParams \in [Keys -> Params \cup {NoParams}]
    /\ keyToDependencies \in [Keys -> QueryDependencies \cup {NoParams}]
    /\ keyToPredicate \in [Keys -> Params \cup {NoParams}]
    /\ tableToQueryKeys \in [Tables -> SUBSET Keys]
    /\ DependencyIndex \in [Tables -> [DepFields -> SUBSET Keys]]
    /\ valueIndex \in [Tables -> [Columns -> [Values -> SUBSET Keys]]]
    /\ FieldIndex \in [Tables -> [Columns -> SUBSET Keys]]
    /\ TableToFullTableListKeys \in [Tables -> SUBSET Keys]
    /\ TableToFullTableCountKeys \in [Tables -> SUBSET Keys]

\* Every key some map of a table leads to.
IndexedKeys(t) ==
    tableToQueryKeys[t]
      \cup (UNION {DependencyIndex[t][f] : f \in DepFields})
      \cup (UNION {valueIndex[t][c][v] : c \in Columns, v \in Values})
      \cup (UNION {FieldIndex[t][c] : c \in Columns})
      \cup TableToFullTableListKeys[t] \cup TableToFullTableCountKeys[t]

\* A key that is no longer registered is in no map: DeregisterQuery removes
\* everything that any number of registrations of the key have added, so the
\* index does not leak, and invalidateAffectedQueryCaches never meets a key
\* of the index whose QueryParams are gone (cache.go:235).
NoDanglingKey ==
    \A t \in Tables : IndexedKeys(t) \subseteq GetAllRegisteredKeys

\* What the latest registration of one key has put into the maps.
CoversKey(k) ==
    LET p == keyToParams[k]
        t == TableOf[k]
    IN  /\ k \in tableToQueryKeys[t]
        /\ keyToDependencies[k] = buildQueryDependencies(k, p)
        /\ keyToPredicate[k] = IF p.where = "unparsed" THEN NoParams ELSE p
        /\ \A f \in DependencyFields(buildQueryDependencies(k, p)) :
             k \in DependencyIndex[t][f]
        /\ p.where = "empty" /\ isListKey(k) => k \in TableToFullTableListKeys[t]
        /\ p.where = "empty" /\ isCountKey(k) => k \in TableToFullTableCountKeys[t]

\* The maps hold at least what the latest registration of each key added, no
\* matter which registrations and removals came before: a key in keyToParams
\* can be reached through every map an invalidation may look it up in.
IndexCovers == \A k \in GetAllRegisteredKeys : CoversKey(k)

\* The columns in which a model differs from its original.
changedModelColumns(model, original) == {c \in Tracked : model[c] # original[c]}

\* An update that GetInvalidationContext does not connect with a registered
\* list or count key cannot change the key's query: the row is selected by the
\* WHERE clause before the update exactly if it is after it, and a list's
\* ORDER BY columns keep their values. Queries over columns with diff:"-" are
\* excepted: the code never sees such a column change.
UpdateFindsAffectedKeys ==
    \A k \in GetAllRegisteredKeys, old, new \in Row :
        LET p == keyToParams[k]
        IN  (/\ KeyKind[k] # "other"
             /\ p.fields \cup p.order \subseteq Tracked
             /\ k \notin GetInvalidationContext(TableOf[k], new, changedModelColumns(new, old)))
            => /\ p.where # "unparsed"
               /\ old \in p.sat <=> new \in p.sat
               /\ isListKey(k) => ~p.uncertainOrder /\ Agree(old, new, p.order)

\* A create, a delete or a forced invalidation offers every tracked column as
\* a candidate, and then GetInvalidationContext finds every registered list
\* and count key of the table.
ForcedFindsAllKeys ==
    \A k \in GetAllRegisteredKeys, row \in Row :
        (KeyKind[k] # "other" /\ keyToParams[k].fields \subseteq Tracked)
            => k \in GetInvalidationContext(TableOf[k], row, Tracked)

=============================================================================
