------------------------- MODULE QueryInvalidation --------------------------
(***************************************************************************)
(* The decision of Thing.invalidateAffectedQueryCaches (cache.go): which   *)
(* cached queries a Save or a Delete of one row throws away. The decision  *)
(* reads the index of CacheIndex, and is compared here with what the       *)
(* change really does to each query's result.                              *)
(***************************************************************************)
EXTENDS CacheIndex

CONSTANTS
    DeletedCol,      \* the column "deleted"
    DeletedValue,    \* its value in a soft-deleted row
    KeepItemFields,  \* the columns the model's KeepItemFields() declares
    Kept,            \* the rows for which the model's KeepItem() is true
    ParamsOf         \* the parameters a key is the hash of (GenerateCacheKey)

IsDeleted(row) == row[DeletedCol] = DeletedValue

KeepItem(row) == row \in Kept

\* KeepItem() is false for a soft-deleted row, as BaseModel's is, and depends on
\* no column but "deleted" and those KeepItemFields() declares.
ASSUME KeepItemAssumption ==
    /\ DeletedCol \in Tracked
    /\ KeepItemFields \subseteq Tracked
    /\ Kept \subseteq {r \in Row : ~IsDeleted(r)}
    /\ \A r, s \in Row :
         Agree(r, s, KeepItemFields) /\ (IsDeleted(r) <=> IsDeleted(s))
            => (KeepItem(r) <=> KeepItem(s))

ASSUME ParamsOfAssumption == ParamsOf \in [Keys -> Params]

keepItemFieldChanged(changedColumns) == KeepItemFields \cap changedColumns # {}

\* Mutant: an uncertain ORDER BY counts as unchanged.
orderDependencyChanged_KnownOnly(deps, changedColumns) ==
    deps.OrderFields \cap changedColumns # {}

orderDependencyChanged(deps, changedColumns) ==
    /\ changedColumns # {}
    /\ deps.HasUncertainOrder \/ deps.OrderFields \cap changedColumns # {}

\* Mutant: a delete offers the changed columns only.
cacheCandidateColumns_NoDelete(changedColumns, isCreate, isDelete, forceAll) ==
    IF isCreate \/ forceAll THEN Tracked ELSE changedColumns

cacheCandidateColumns(changedColumns, isCreate, isDelete, forceAll) ==
    IF isCreate \/ isDelete \/ forceAll THEN Tracked ELSE changedColumns

\* Mutant: a row that matched before the update is added again.
determineCacheAction_AddAgain(isCreate, matchesOriginal, matchesCurrent, isKept) ==
    [needsAdd |-> isKept /\ matchesCurrent,
     needsRemove |-> ~isKept \/ (~isCreate /\ ~matchesCurrent /\ matchesOriginal)]

\* The pair (needsAdd, needsRemove).
determineCacheAction(isCreate, matchesOriginal, matchesCurrent, isKept) ==
    [needsAdd |-> isKept /\ matchesCurrent /\ (isCreate \/ ~matchesOriginal),
     needsRemove |-> ~isKept \/ (~isCreate /\ ~matchesCurrent /\ matchesOriginal)]

\* CheckQueryMatchWithPredicate looks at the WHERE clause alone; it returns an
\* error if there is no predicate (parsing it again fails again), or if a
\* condition cannot be evaluated on the row.
CheckQueryMatch(row, p) == row \in p.match

MatchFails(k, row) == keyToPredicate[k] = NoParams \/ row \in keyToParams[k].fails

\* A create has no original: every tracked column counts as changed.
ChangedColumns(model, original, isCreate) ==
    IF isCreate THEN Tracked ELSE changedModelColumns(model, original)

\* Phase 1 for one key of the context. A key on which matching fails is deleted
\* from the cache at once.
cacheTask(k, model, original, isCreate, isDelete) ==
    LET p == keyToParams[k]
        changedColumns == ChangedColumns(model, original, isCreate)
        matchesCurrent == CheckQueryMatch(model, p)
        matchesOriginal == ~isCreate /\ CheckQueryMatch(original, p)
        action == determineCacheAction(isCreate, matchesOriginal, matchesCurrent,
                                       KeepItem(model))
        reordered == /\ isListKey(k) /\ ~isCreate /\ matchesOriginal /\ matchesCurrent
                     /\ orderDependencyChanged(keyToDependencies[k], changedColumns)
        flipped == keepItemFieldChanged(changedColumns) /\ matchesCurrent
        failed == \/ MatchFails(k, model)
                  \/ ~isCreate /\ ~isDelete /\ MatchFails(k, original)
    IN  IF isDelete
        THEN [failed |-> failed, needsAdd |-> FALSE, needsRemove |-> matchesCurrent]
        ELSE [failed |-> failed, needsAdd |-> action.needsAdd,
              needsRemove |-> action.needsRemove \/ reordered \/ flipped]

\* The keys of the context that phase 1 looks at.
TaskKeys(tableName, model, original, isCreate, isDelete) ==
    LET changedColumns == ChangedColumns(model, original, isCreate)
        candidateColumns ==
            cacheCandidateColumns(changedColumns, isCreate, isDelete,
                ~KeepItem(model) \/ keepItemFieldChanged(changedColumns))
    IN  {k \in GetInvalidationContext(tableName, model, candidateColumns) :
            KeyKind[k] # "other" /\ keyToParams[k] # NoParams}

\* The keys deleted for certain, and the list keys deleted unless the cached
\* list already has the row (phase 3: needsAdd is looked at first).
KeysToDelete(tableName, model, original, isCreate, isDelete) ==
    {k \in TaskKeys(tableName, model, original, isCreate, isDelete) :
        LET task == cacheTask(k, model, original, isCreate, isDelete)
        IN  \/ task.failed
            \/ task.needsRemove /\ ~(isListKey(k) /\ task.needsAdd)
            \/ task.needsAdd /\ ~isListKey(k)}

KeysToDeleteUnlessListed(tableName, model, original, isCreate, isDelete) ==
    {k \in TaskKeys(tableName, model, original, isCreate, isDelete) :
        LET task == cacheTask(k, model, original, isCreate, isDelete)
        IN  ~task.failed /\ isListKey(k) /\ task.needsAdd}

\* The index as the query caches use it: a key is only ever registered with the
\* parameters it is the hash of.
RegisterOwn == \E k \in Keys : RegisterQuery(TableOf[k], k, ParamsOf[k])

KeyedNext == RegisterOwn \/ Deregister \/ ResetGlobalCacheIndex

KeyedSpec == Init /\ [][KeyedNext]_indexVars

-----------------------------------------------------------------------------
(* What a change of a row does to the result of a query.                   *)

\* A row is in the list and in the precise count of a query.
Shown(row, p) ==
    row \in p.sat /\ (p.includeDeleted \/ (~IsDeleted(row) /\ KeepItem(row)))

\* A row is in the SQL count of a query.
Counted(row, p) == row \in p.sat /\ (p.includeDeleted \/ ~IsDeleted(row))

\* The columns that decide where the row stands in a list.
SortColumns(k, p) ==
    IF ~isListKey(k) THEN {} ELSE IF p.uncertainOrder THEN Tracked ELSE p.order

\* Replacing one version of a row by another leaves the query's result alone.
SameResult(k, p, old, new) ==
    /\ Shown(old, p) <=> Shown(new, p)
    /\ Counted(old, p) <=> Counted(new, p)
    /\ Shown(new, p) => Agree(old, new, SortColumns(k, p))

\* The row is neither in the list nor in the counts.
NotInResult(p, row) == ~Shown(row, p) /\ ~Counted(row, p)

\* The row comes back from being soft-deleted.
IsRestore(old, new) == IsDeleted(old) /\ ~IsDeleted(new)

\* The predicate tells which rows the database selects, wherever it can be
\* evaluated. (It does not for <> and NOT IN on a column that is NULL.)
Exact(p) == p.where # "unparsed" => \A r \in Row \ p.fails : r \in p.match <=> r \in p.sat

\* The registered list and count keys with an exact predicate, over columns
\* whose changes are seen.
WatchedKeys ==
    {k \in GetAllRegisteredKeys :
        /\ KeyKind[k] # "other"
        /\ Exact(keyToParams[k])
        /\ keyToParams[k].fields \cup keyToParams[k].order \subseteq Tracked}

Invalidated(k, model, original, isCreate, isDelete) ==
    \/ k \in KeysToDelete(TableOf[k], model, original, isCreate, isDelete)
    \/ k \in KeysToDeleteUnlessListed(TableOf[k], model, original, isCreate, isDelete)

\* An update that keeps a cached query leaves the query's result alone. Updates
\* that restore a soft-deleted row are excepted: they change only "deleted", find no
\* query over it, and keep lists and counts that then lack the row.
UpdateInvalidates ==
    \A k \in WatchedKeys, old, new \in Row :
        ~IsRestore(old, new) /\ ~Invalidated(k, new, old, FALSE, FALSE)
            => SameResult(k, keyToParams[k], old, new)

\* A list that is kept because it already has the row was already wrong before
\* the update: the old row is not in the query's result.
KeptListHadNoRow ==
    \A k \in WatchedKeys, old, new \in Row :
        k \in KeysToDeleteUnlessListed(TableOf[k], new, old, FALSE, FALSE)
            => NotInResult(keyToParams[k], old)

\* A create or a delete that keeps a cached query is of a row that is not in
\* the query's result.
CreateAndDeleteInvalidate ==
    \A k \in WatchedKeys, row \in Row :
        /\ ~Invalidated(k, row, row, TRUE, FALSE) => NotInResult(keyToParams[k], row)
        /\ ~Invalidated(k, row, row, FALSE, TRUE) => NotInResult(keyToParams[k], row)

=============================================================================
