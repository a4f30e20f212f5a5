-------------------------- MODULE QueryCacheProofs --------------------------
(***************************************************************************)
(* Proofs about CacheIndex, QueryInvalidation and QueryCache, for all      *)
(* tables, keys, columns, values and query parameters, rows and numbers of *)
(* clients, on both backends. First the invariants of the index; from two  *)
(* of them (TypeOK, IndexCovers), that what invalidateAffectedQueryCaches  *)
(* decides is right for every row, query and KeepItem of a model; and that *)
(* the decision is taken and carried out in time (QueryCoherence).         *)
(***************************************************************************)
EXTENDS QueryCache, TLAPS

\* The default backend of the first part. Steps that need no arithmetic cite Zenon.
USE SMTT(60), Z3T(60)

\* The fields of the call a save, or a bulk write, leaves pending.
LEMMA PendingFields ==
    /\ \A i, v : LET r == [pc |-> "context", op |-> "create", id |-> i, old |-> v, new |-> v]
                 IN  r.pc = "context" /\ r.op = "create" /\ r.id = i /\ r.old = v /\ r.new = v
    /\ \A i : [pc |-> "tablekeys", id |-> i].pc = "tablekeys"
OBVIOUS

\* The dependencies built for a query are of their type.
LEMMA DependenciesTyped ==
    ASSUME NEW k \in Keys, NEW p \in Params
    PROVE  buildQueryDependencies(k, p) \in QueryDependencies
BY KeysAssumption, ParamsAssumption
   DEF buildQueryDependencies, QueryDependencies, DepFields, ParamType, isListKey

\* A step of the index keeps its maps well typed.
LEMMA TypeKept == TypeOK /\ [Next]_indexVars => TypeOK'
<1> SUFFICES ASSUME TypeOK, [Next]_indexVars PROVE TypeOK'
  BY Zenon
<1>1. ASSUME NEW k \in Keys, NEW p \in Params, RegisterQuery(TableOf[k], k, p)
      PROVE  TypeOK'
  <2> DEFINE t == TableOf[k]
  <2>1. t \in Tables
    BY KeysAssumption
  <2>2. buildQueryDependencies(k, p) \in QueryDependencies
    BY DependenciesTyped
  <2> HIDE DEF t
  <2>3. RegisterQuery(t, k, p)
    BY <1>1, Zenon DEF t
  <2> QED
    BY <2>1, <2>2, <2>3 DEF TypeOK, RegisterQuery, addDependencyLocked
<1>2. ASSUME NEW k \in Keys, DeregisterQuery(k)
      PROVE  TypeOK'
  BY <1>2 DEF TypeOK, DeregisterQuery, DeregisterFields
<1>3. CASE ResetGlobalCacheIndex
  BY <1>3 DEF TypeOK, ResetGlobalCacheIndex
<1>4. CASE UNCHANGED indexVars
  BY <1>4, Zenon DEF TypeOK, indexVars
<1> QED
  BY <1>1, <1>2, <1>3, <1>4 DEF Next, Register, Deregister

\* Every operation of the index keeps its maps well typed.
THEOREM TypeCorrect == Spec => []TypeOK
<1>1. Init => TypeOK
  BY DEF Init, NewCacheIndex, TypeOK
<1> QED
  BY <1>1, TypeKept, PTL DEF Spec

-----------------------------------------------------------------------------

\* A registration puts no key into the maps but the one it registers.
LEMMA RegisterIndexes ==
    ASSUME TypeOK, NEW k \in Keys, NEW p \in Params, NEW t \in Tables,
           RegisterQuery(t, k, p)
    PROVE  \A u \in Tables : IndexedKeys(u)' \subseteq IndexedKeys(u) \cup {k}
BY DEF TypeOK, RegisterQuery, addDependencyLocked, IndexedKeys

\* A removal takes its key out of all the maps and adds none.
LEMMA DeregisterIndexes ==
    ASSUME TypeOK, NEW k \in Keys, DeregisterQuery(k)
    PROVE  \A u \in Tables : IndexedKeys(u)' \subseteq IndexedKeys(u) \ {k}
BY DEF TypeOK, DeregisterQuery, DeregisterFields, IndexedKeys

\* No map leads to a key that is not registered.
THEOREM NoDangling == Spec => []NoDanglingKey
<1>1. Init => NoDanglingKey
  BY DEF Init, NewCacheIndex, NoDanglingKey, IndexedKeys, GetAllRegisteredKeys
<1>2. TypeOK /\ NoDanglingKey /\ [Next]_indexVars => NoDanglingKey'
  <2> SUFFICES ASSUME TypeOK, NoDanglingKey, [Next]_indexVars PROVE NoDanglingKey'
    OBVIOUS
  <2>1. ASSUME NEW k \in Keys, NEW p \in Params, RegisterQuery(TableOf[k], k, p)
        PROVE  NoDanglingKey'
    <3>1. TableOf[k] \in Tables
      BY KeysAssumption
    <3>2. \A u \in Tables : IndexedKeys(u)' \subseteq IndexedKeys(u) \cup {k}
      BY <2>1, <3>1, RegisterIndexes, Zenon
    <3>3. GetAllRegisteredKeys' = GetAllRegisteredKeys \cup {k}
      BY <2>1, ParamsAssumption DEF GetAllRegisteredKeys, RegisterQuery, TypeOK
    <3> QED
      BY <3>2, <3>3 DEF NoDanglingKey
  <2>2. ASSUME NEW k \in Keys, DeregisterQuery(k)
        PROVE  NoDanglingKey'
    <3>1. \A u \in Tables : IndexedKeys(u)' \subseteq IndexedKeys(u) \ {k}
      BY <2>2, DeregisterIndexes, Zenon
    <3>2. GetAllRegisteredKeys' = GetAllRegisteredKeys \ {k}
      BY <2>2, Zenon DEF GetAllRegisteredKeys, DeregisterQuery, TypeOK
    <3> QED
      BY <3>1, <3>2 DEF NoDanglingKey
  <2>3. CASE ResetGlobalCacheIndex
    BY <2>3 DEF ResetGlobalCacheIndex, NoDanglingKey, IndexedKeys, GetAllRegisteredKeys
  <2>4. CASE UNCHANGED indexVars
    BY <2>4 DEF indexVars, NoDanglingKey, IndexedKeys, GetAllRegisteredKeys
  <2> QED
    BY <2>1, <2>2, <2>3, <2>4 DEF Next, Register, Deregister
<1> QED
  BY <1>1, <1>2, TypeCorrect, PTL DEF Spec

\* A step of the index keeps every registered key covered.
LEMMA CoversKept == TypeOK /\ IndexCovers /\ [Next]_indexVars => IndexCovers'
<1> SUFFICES ASSUME TypeOK, IndexCovers, [Next]_indexVars,
                    NEW k \in GetAllRegisteredKeys'
             PROVE  CoversKey(k)'
  BY DEF IndexCovers
<1>0. k \in Keys /\ TableOf[k] \in Tables
  BY KeysAssumption DEF GetAllRegisteredKeys
<1>1. ASSUME NEW j \in Keys, NEW p \in Params, RegisterQuery(TableOf[j], j, p)
      PROVE  CoversKey(k)'
  <2>1. TableOf[j] \in Tables
    BY KeysAssumption, Zenon
  <2>2. buildQueryDependencies(j, p) \in QueryDependencies
    BY DependenciesTyped
  <2>3. DependencyFields(buildQueryDependencies(j, p)) \subseteq DepFields
    BY <2>2, Zenon DEF DependencyFields, QueryDependencies, DepFields
  <2>4. CASE k = j
    BY <1>0, <1>1, <2>1, <2>3, <2>4, Zenon DEF CoversKey, RegisterQuery, addDependencyLocked, TypeOK
  <2>5. CASE k # j
    <3>1. k \in GetAllRegisteredKeys /\ CoversKey(k)
      BY <1>0, <1>1, <2>5, Zenon DEF IndexCovers, GetAllRegisteredKeys, RegisterQuery, TypeOK
    <3>2. keyToParams[k] \in Params
      BY <3>1, <1>0 DEF GetAllRegisteredKeys, TypeOK
    <3>3. DependencyFields(buildQueryDependencies(k, keyToParams[k])) \subseteq DepFields
      BY <1>0, <3>2, DependenciesTyped, Zenon DEF DependencyFields, QueryDependencies, DepFields
    <3> QED
      BY <1>0, <1>1, <2>1, <2>5, <3>1, <3>3, Zenon DEF CoversKey, RegisterQuery, addDependencyLocked, TypeOK
  <2> QED
    BY <2>4, <2>5
<1>2. ASSUME NEW j \in Keys, DeregisterQuery(j)
      PROVE  CoversKey(k)'
  <2>1. k # j /\ k \in GetAllRegisteredKeys /\ CoversKey(k)
    BY <1>0, <1>2, Zenon DEF IndexCovers, GetAllRegisteredKeys, DeregisterQuery, TypeOK
  <2>2. keyToParams[k] \in Params
    BY <2>1, <1>0, Zenon DEF GetAllRegisteredKeys, TypeOK
  <2>3. DependencyFields(buildQueryDependencies(k, keyToParams[k])) \subseteq DepFields
    BY <1>0, <2>2, DependenciesTyped DEF DependencyFields, QueryDependencies, DepFields
  <2> QED
    BY <1>0, <1>2, <2>1, <2>3, Zenon DEF CoversKey, DeregisterQuery, DeregisterFields, TypeOK
<1>3. CASE ResetGlobalCacheIndex
  BY <1>3, Zenon DEF ResetGlobalCacheIndex, GetAllRegisteredKeys
<1>4. CASE UNCHANGED indexVars
  BY <1>4, Zenon DEF IndexCovers, indexVars, CoversKey, GetAllRegisteredKeys
<1> QED
  BY <1>1, <1>2, <1>3, <1>4 DEF Next, Register, Deregister

\* The maps hold at least what the latest registration of each key added.
THEOREM Covers == Spec => []IndexCovers
<1>1. Init => IndexCovers
  BY DEF Init, NewCacheIndex, IndexCovers, GetAllRegisteredKeys
<1> QED
  BY <1>1, CoversKept, TypeCorrect, PTL DEF Spec

-----------------------------------------------------------------------------

\* A registered key is found under every column it depends on.
LEMMA DependencyReached ==
    ASSUME TypeOK, IndexCovers, NEW k \in GetAllRegisteredKeys, NEW row \in Row,
           NEW cols \in SUBSET Columns,
           NEW c \in DependencyFields(buildQueryDependencies(k, keyToParams[k])),
           c \in cols \/ c = uncertainDependencyField
    PROVE  k \in GetInvalidationContext(TableOf[k], row, cols)
BY DEF IndexCovers, CoversKey, GetInvalidationContext

\* A registered list or count key with an empty WHERE clause is always found.
LEMMA FullTableReached ==
    ASSUME TypeOK, IndexCovers, NEW k \in GetAllRegisteredKeys, NEW row \in Row,
           NEW cols \in SUBSET Columns,
           KeyKind[k] # "other", keyToParams[k].where = "empty"
    PROVE  k \in GetInvalidationContext(TableOf[k], row, cols)
<1>1. isListKey(k) \/ isCountKey(k)
  BY KeysAssumption, Zenon DEF isListKey, isCountKey, GetAllRegisteredKeys
<1> QED
  BY <1>1, Zenon DEF IndexCovers, CoversKey, GetInvalidationContext

\* An update leaves out no registered query whose result it may change.
LEMMA CoversImpliesUpdateFinds ==
    TypeOK /\ IndexCovers => UpdateFindsAffectedKeys
<1> SUFFICES ASSUME TypeOK, IndexCovers,
                    NEW k \in GetAllRegisteredKeys, NEW old \in Row, NEW new \in Row,
                    KeyKind[k] # "other",
                    keyToParams[k].fields \cup keyToParams[k].order \subseteq Tracked,
                    k \notin GetInvalidationContext(TableOf[k], new, changedModelColumns(new, old))
             PROVE  /\ keyToParams[k].where # "unparsed"
                    /\ old \in keyToParams[k].sat <=> new \in keyToParams[k].sat
                    /\ isListKey(k) => /\ ~keyToParams[k].uncertainOrder
                                       /\ Agree(old, new, keyToParams[k].order)
  BY Zenon DEF UpdateFindsAffectedKeys
<1> DEFINE p == keyToParams[k]
           deps == buildQueryDependencies(k, p)
<1>1. p \in Params /\ p \in ParamType
  BY ParamsAssumption DEF TypeOK, GetAllRegisteredKeys
<1>2. changedModelColumns(new, old) \in SUBSET Columns
  BY KeysAssumption, Zenon DEF changedModelColumns
<1>3. /\ \A c \in DependencyFields(deps) : c \notin changedModelColumns(new, old)
      /\ uncertainDependencyField \notin DependencyFields(deps)
  BY <1>2, DependencyReached, Zenon
<1>4. p.where # "unparsed"
  BY <1>3, Zenon DEF DependencyFields, buildQueryDependencies
<1>5. p.where # "empty"
  BY <1>2, FullTableReached, Zenon
<1>6. Agree(old, new, p.fields)
  <2>1. p.fields \subseteq DependencyFields(deps)
    BY Zenon DEF DependencyFields, buildQueryDependencies
  <2> QED
    BY <2>1, <1>3, Zenon DEF Agree, changedModelColumns
<1>7. p.where = "parsed"
  BY <1>1, <1>4, <1>5, Zenon DEF ParamType
<1>8. old \in p.sat <=> new \in p.sat
  BY <1>1, <1>6, <1>7, ParamsAssumption, Zenon
<1>9. ASSUME isListKey(k)
      PROVE  ~p.uncertainOrder /\ Agree(old, new, p.order)
  <2>1. p.order \subseteq DependencyFields(deps)
    BY <1>9, Zenon DEF DependencyFields, buildQueryDependencies
  <2>2. Agree(old, new, p.order)
    BY <2>1, <1>3, Zenon DEF Agree, changedModelColumns
  <2>3. ~p.uncertainOrder
    BY <1>3, <1>9, Zenon DEF DependencyFields, buildQueryDependencies
  <2> QED
    BY <2>2, <2>3, Zenon
<1> QED
  BY <1>4, <1>8, <1>9, Zenon

\* In every reachable state of the index, an update leaves out no registered
\* query whose result it may change.
THEOREM UpdateComplete == Spec => []UpdateFindsAffectedKeys
BY TypeCorrect, Covers, CoversImpliesUpdateFinds, PTL

\* A forced invalidation finds every registered key of the table.
LEMMA CoversImpliesForcedFinds ==
    TypeOK /\ IndexCovers => ForcedFindsAllKeys
<1> SUFFICES ASSUME TypeOK, IndexCovers, NEW k \in GetAllRegisteredKeys, NEW row \in Row,
                    KeyKind[k] # "other", keyToParams[k].fields \subseteq Tracked
             PROVE  k \in GetInvalidationContext(TableOf[k], row, Tracked)
  BY DEF ForcedFindsAllKeys
<1> DEFINE p == keyToParams[k]
           deps == buildQueryDependencies(k, p)
<1>1. p \in Params /\ p \in ParamType /\ Tracked \in SUBSET Columns
  BY ParamsAssumption, KeysAssumption, Zenon DEF TypeOK, GetAllRegisteredKeys
<1>2. CASE p.where = "empty"
  BY <1>1, <1>2, FullTableReached, Zenon
<1>3. CASE p.where = "unparsed"
  <2>1. uncertainDependencyField \in DependencyFields(deps)
    BY <1>3, Zenon DEF DependencyFields, buildQueryDependencies
  <2> QED
    BY <1>1, <2>1, DependencyReached
<1>4. CASE p.where = "parsed"
  <2>1. PICK c \in p.fields : c \in Tracked
    BY <1>1, <1>4, ParamsAssumption, Zenon
  <2>2. c \in DependencyFields(deps)
    BY Zenon DEF DependencyFields, buildQueryDependencies
  <2> QED
    BY <1>1, <2>1, <2>2, DependencyReached, Zenon
<1> QED
  BY <1>1, <1>2, <1>3, <1>4, Zenon DEF ParamType

\* In every reachable state of the index, a create, a delete or a forced
\* invalidation finds every registered list and count key of the table.
THEOREM ForcedComplete == Spec => []ForcedFindsAllKeys
BY TypeCorrect, Covers, CoversImpliesForcedFinds, PTL

-----------------------------------------------------------------------------
(* The decision.                                                           *)

\* A watched key is a well-typed registered list or count key.
LEMMA WatchedTyped ==
    ASSUME TypeOK, NEW k \in WatchedKeys
    PROVE  /\ k \in Keys /\ k \in GetAllRegisteredKeys
           /\ keyToParams[k] \in Params /\ keyToParams[k] \in ParamType
           /\ keyToParams[k] # NoParams
           /\ KeyKind[k] # "other"
           /\ Exact(keyToParams[k])
           /\ keyToParams[k].fields \cup keyToParams[k].order \subseteq Tracked
BY ParamsAssumption, Zenon DEF WatchedKeys, GetAllRegisteredKeys, TypeOK

\* A watched key in the context whose task fails or needs anything is deleted,
\* for certain or unless its list has the row.
LEMMA TaskInvalidates ==
    ASSUME TypeOK, NEW k \in WatchedKeys, NEW model, NEW original,
           NEW isCreate \in BOOLEAN, NEW isDelete \in BOOLEAN,
           k \in TaskKeys(TableOf[k], model, original, isCreate, isDelete),
           \/ cacheTask(k, model, original, isCreate, isDelete).failed
           \/ cacheTask(k, model, original, isCreate, isDelete).needsAdd
           \/ cacheTask(k, model, original, isCreate, isDelete).needsRemove
    PROVE  Invalidated(k, model, original, isCreate, isDelete)
BY Zenon DEF Invalidated, KeysToDelete, KeysToDeleteUnlessListed

\* When all tracked columns are candidates, phase 1 looks at every watched key.
LEMMA ForcedTask ==
    ASSUME TypeOK, IndexCovers, NEW k \in WatchedKeys, NEW model \in Row, NEW original,
           NEW isCreate \in BOOLEAN, NEW isDelete \in BOOLEAN,
           \/ isCreate \/ isDelete \/ ~KeepItem(model)
           \/ keepItemFieldChanged(ChangedColumns(model, original, isCreate))
    PROVE  k \in TaskKeys(TableOf[k], model, original, isCreate, isDelete)
<1>1. k \in GetInvalidationContext(TableOf[k], model, Tracked)
  BY WatchedTyped, CoversImpliesForcedFinds, Zenon DEF ForcedFindsAllKeys
<1> QED
  BY <1>1, WatchedTyped, Zenon DEF TaskKeys, cacheCandidateColumns

\* When an update is not forced, a watched key that phase 1 does not look at is
\* one whose query cannot tell the two versions of the row apart.
LEMMA UnforcedTask ==
    ASSUME TypeOK, IndexCovers, NEW k \in WatchedKeys, NEW old \in Row, NEW new \in Row,
           KeepItem(new), ~keepItemFieldChanged(changedModelColumns(new, old)),
           k \notin TaskKeys(TableOf[k], new, old, FALSE, FALSE)
    PROVE  /\ old \in keyToParams[k].sat <=> new \in keyToParams[k].sat
           /\ Agree(old, new, SortColumns(k, keyToParams[k]))
<1>1. k \notin GetInvalidationContext(TableOf[k], new, changedModelColumns(new, old))
  BY WatchedTyped, Zenon DEF TaskKeys, cacheCandidateColumns, ChangedColumns
<1>2. /\ old \in keyToParams[k].sat <=> new \in keyToParams[k].sat
      /\ isListKey(k) => /\ ~keyToParams[k].uncertainOrder
                         /\ Agree(old, new, keyToParams[k].order)
  BY <1>1, WatchedTyped, CoversImpliesUpdateFinds, Zenon DEF UpdateFindsAffectedKeys
<1> QED
  BY <1>2, Zenon DEF SortColumns, Agree

\* Where matching a watched key does not fail, it tells whether the row is
\* selected.
LEMMA MatchSelects ==
    ASSUME TypeOK, IndexCovers, NEW k \in WatchedKeys, NEW row \in Row,
           ~MatchFails(k, row)
    PROVE  CheckQueryMatch(row, keyToParams[k]) <=> row \in keyToParams[k].sat
<1>1. keyToParams[k].where # "unparsed"
  BY WatchedTyped, Zenon DEF MatchFails, IndexCovers, CoversKey
<1> QED
  BY <1>1, WatchedTyped, Zenon DEF MatchFails, Exact, CheckQueryMatch

\* An update that phase 1 looks at and that needs nothing leaves the selection
\* and the sort columns alone.
LEMMA NothingNeeded ==
    ASSUME TypeOK, IndexCovers, NEW k \in WatchedKeys, NEW old \in Row, NEW new \in Row,
           KeepItem(new),
           ~cacheTask(k, new, old, FALSE, FALSE).failed,
           ~cacheTask(k, new, old, FALSE, FALSE).needsAdd,
           ~cacheTask(k, new, old, FALSE, FALSE).needsRemove
    PROVE  /\ old \in keyToParams[k].sat <=> new \in keyToParams[k].sat
           /\ new \in keyToParams[k].sat => Agree(old, new, SortColumns(k, keyToParams[k]))
<1> DEFINE p == keyToParams[k]
           changed == changedModelColumns(new, old)
<1>0. /\ CheckQueryMatch(old, p) <=> old \in p.sat
      /\ CheckQueryMatch(new, p) <=> new \in p.sat
  <2>1. ~MatchFails(k, new) /\ ~MatchFails(k, old)
    BY Zenon DEF cacheTask
  <2> QED
    BY <2>1, MatchSelects, Zenon
<1>1. old \in p.sat <=> new \in p.sat
  <2>1. CheckQueryMatch(old, p) <=> CheckQueryMatch(new, p)
    BY Zenon DEF cacheTask, determineCacheAction
  <2> QED
    BY <2>1, <1>0, Zenon
<1>2. ASSUME new \in p.sat
      PROVE  Agree(old, new, SortColumns(k, p))
  <2>1. CASE ~isListKey(k)
    BY <2>1, Zenon DEF SortColumns, Agree
  <2>2. CASE isListKey(k)
    <3>1. ~orderDependencyChanged(keyToDependencies[k], changed)
      BY <1>0, <1>1, <1>2, <2>2, Zenon DEF cacheTask, ChangedColumns
    <3>2. keyToDependencies[k] = buildQueryDependencies(k, p)
      BY WatchedTyped, Zenon DEF IndexCovers, CoversKey
    <3>3. CASE p.uncertainOrder
      <4>0. keyToDependencies[k].HasUncertainOrder
        <5>1. keyToDependencies[k].HasUncertainOrder = (isListKey(k) /\ p.uncertainOrder)
          BY <3>2 DEF buildQueryDependencies
        <5> QED
          BY <5>1, <3>3, <2>2, Zenon
      <4>1. changed = {}
        BY <3>1, <4>0, Zenon DEF orderDependencyChanged
      <4> QED
        BY <4>1, <2>2, <3>3 DEF changedModelColumns, SortColumns, Agree
    <3>4. CASE ~p.uncertainOrder
      <4>1. p.order \cap changed = {}
        BY <3>1, <3>2, <2>2 DEF orderDependencyChanged, buildQueryDependencies
      <4>2. p.order \subseteq Tracked
        BY WatchedTyped
      <4> QED
        BY <4>1, <4>2, <2>2, <3>4, Zenon DEF changedModelColumns, SortColumns, Agree
    <3> QED
      BY <3>3, <3>4
  <2> QED
    BY <2>1, <2>2, Zenon
<1> QED
  BY <1>1, <1>2

-----------------------------------------------------------------------------

\* An update that keeps a cached query leaves the query's result alone.
LEMMA UpdateDecision == TypeOK /\ IndexCovers => UpdateInvalidates
<1> SUFFICES ASSUME TypeOK, IndexCovers,
                    NEW k \in WatchedKeys, NEW old \in Row, NEW new \in Row,
                    ~IsRestore(old, new), ~Invalidated(k, new, old, FALSE, FALSE)
             PROVE  SameResult(k, keyToParams[k], old, new)
  BY Zenon DEF UpdateInvalidates
<1> DEFINE p == keyToParams[k]
           task == cacheTask(k, new, old, FALSE, FALSE)
           looked == k \in TaskKeys(TableOf[k], new, old, FALSE, FALSE)
<1>1. looked => ~task.failed /\ ~task.needsAdd /\ ~task.needsRemove
  BY TaskInvalidates, Zenon
<1>2. KeepItem(new)
  <2> SUFFICES ASSUME ~KeepItem(new) PROVE FALSE
    OBVIOUS
  <2>1. looked
    BY ForcedTask, Zenon
  <2>2. task.needsRemove
    BY Zenon DEF cacheTask, determineCacheAction
  <2> QED
    BY <1>1, <2>1, <2>2, Zenon
<1>3. ~IsDeleted(new) /\ ~IsDeleted(old)
  BY <1>2, KeepItemAssumption, Zenon DEF KeepItem, IsRestore
<1>4. CASE keepItemFieldChanged(changedModelColumns(new, old))
  <2>1. looked
    BY <1>4, ForcedTask, Zenon DEF ChangedColumns
  <2>2. new \notin p.sat
    <3>1. ~CheckQueryMatch(new, p)
      BY <1>1, <1>4, <2>1, Zenon DEF cacheTask, ChangedColumns
    <3>2. ~MatchFails(k, new)
      BY <1>1, <2>1, Zenon DEF cacheTask
    <3> QED
      BY <3>1, <3>2, MatchSelects
  <2>3. old \notin p.sat
    BY <1>1, <1>2, <2>1, NothingNeeded, <2>2, Zenon
  <2> QED
    BY <2>2, <2>3 DEF SameResult, Shown, Counted
<1>5. CASE ~keepItemFieldChanged(changedModelColumns(new, old))
  <2>1. KeepItem(old)
    <3>1. Agree(new, old, KeepItemFields)
      BY <1>5, KeepItemAssumption DEF keepItemFieldChanged, changedModelColumns, Agree
    <3> QED
      BY <1>2, <1>3, <3>1, KeepItemAssumption
  <2>2. /\ old \in p.sat <=> new \in p.sat
        /\ new \in p.sat => Agree(old, new, SortColumns(k, p))
    BY <1>1, <1>2, <1>5, UnforcedTask, NothingNeeded, Zenon
  <2> QED
    BY <1>2, <1>3, <2>1, <2>2, Zenon DEF SameResult, Shown, Counted
<1> QED
  BY <1>4, <1>5

\* A list is only spared for having the row when the old row was not selected.
LEMMA KeptListDecision == TypeOK /\ IndexCovers => KeptListHadNoRow
<1> SUFFICES ASSUME TypeOK, IndexCovers, NEW k \in WatchedKeys, NEW old \in Row, NEW new \in Row,
                    k \in KeysToDeleteUnlessListed(TableOf[k], new, old, FALSE, FALSE)
             PROVE  NotInResult(keyToParams[k], old)
  BY Zenon DEF KeptListHadNoRow
<1>1. /\ cacheTask(k, new, old, FALSE, FALSE).needsAdd
      /\ ~cacheTask(k, new, old, FALSE, FALSE).failed
  BY Zenon DEF KeysToDeleteUnlessListed
<1>2. ~MatchFails(k, old)
  BY <1>1, Zenon DEF cacheTask
<1>3. ~CheckQueryMatch(old, keyToParams[k])
  BY <1>1, Zenon DEF cacheTask, determineCacheAction
<1>4. old \notin keyToParams[k].sat
  BY <1>2, <1>3, MatchSelects
<1> QED
  BY <1>4, Zenon DEF NotInResult, Shown, Counted

\* A create or a delete that keeps a cached query is of a row outside it.
LEMMA CreateAndDeleteDecision == TypeOK /\ IndexCovers => CreateAndDeleteInvalidate
<1> SUFFICES ASSUME TypeOK, IndexCovers, NEW k \in WatchedKeys, NEW row \in Row
             PROVE  /\ ~Invalidated(k, row, row, TRUE, FALSE)
                         => NotInResult(keyToParams[k], row)
                    /\ ~Invalidated(k, row, row, FALSE, TRUE)
                         => NotInResult(keyToParams[k], row)
  BY Zenon DEF CreateAndDeleteInvalidate
<1>1. /\ k \in TaskKeys(TableOf[k], row, row, TRUE, FALSE)
      /\ k \in TaskKeys(TableOf[k], row, row, FALSE, TRUE)
  BY ForcedTask, Zenon
<1>2. ASSUME ~Invalidated(k, row, row, TRUE, FALSE)
      PROVE  row \notin keyToParams[k].sat
  <2>1. /\ ~cacheTask(k, row, row, TRUE, FALSE).failed
        /\ ~cacheTask(k, row, row, TRUE, FALSE).needsAdd
        /\ ~cacheTask(k, row, row, TRUE, FALSE).needsRemove
    BY <1>1, <1>2, TaskInvalidates, Zenon
  <2>2. ~CheckQueryMatch(row, keyToParams[k])
    BY <2>1, Zenon DEF cacheTask, determineCacheAction
  <2>3. ~MatchFails(k, row)
    BY <2>1, Zenon DEF cacheTask
  <2> QED
    BY <2>2, <2>3, MatchSelects
<1>3. ASSUME ~Invalidated(k, row, row, FALSE, TRUE)
      PROVE  row \notin keyToParams[k].sat
  <2>1. /\ ~cacheTask(k, row, row, FALSE, TRUE).failed
        /\ ~cacheTask(k, row, row, FALSE, TRUE).needsRemove
    BY <1>1, <1>3, TaskInvalidates, Zenon
  <2>2. ~CheckQueryMatch(row, keyToParams[k])
    BY <2>1, Zenon DEF cacheTask
  <2>3. ~MatchFails(k, row)
    BY <2>1, Zenon DEF cacheTask
  <2> QED
    BY <2>2, <2>3, MatchSelects
<1> QED
  BY <1>2, <1>3, Zenon DEF NotInResult, Shown, Counted

\* A key is registered with some parameters of Params, so the index as the
\* query caches use it is an instance of the index under any registrations.
LEMMA KeyedIsSpec == KeyedSpec => Spec
<1>1. KeyedNext => Next
  BY ParamsOfAssumption DEF KeyedNext, RegisterOwn, Next, Register
<1> QED
  BY <1>1, PTL DEF KeyedSpec, Spec

\* In every reachable state of the index: an update that is not a restore
\* invalidates every cached query whose result it changes.
THEOREM UpdateInvalidatesAlways == KeyedSpec => []UpdateInvalidates
BY KeyedIsSpec, TypeCorrect, Covers, UpdateDecision, PTL

\* In every reachable state of the index: a cached list is spared for already
\* having the row only when it was wrong before.
THEOREM KeptListAlways == KeyedSpec => []KeptListHadNoRow
BY KeyedIsSpec, TypeCorrect, Covers, KeptListDecision, PTL

\* In every reachable state of the index: a create or a delete invalidates every
\* cached query that has the row.
THEOREM CreateAndDeleteAlways == KeyedSpec => []CreateAndDeleteInvalidate
BY KeyedIsSpec, TypeCorrect, Covers, CreateAndDeleteDecision, PTL

-----------------------------------------------------------------------------
(* The calls of QueryCache and what they owe.                              *)

QueryKeys == {ListKey[q] : q \in Queries} \cup {CountKey[q] : q \in Queries}

\* The calls under way, with their local variables.
IdleCall == [pc : {"idle"}]
MissCall == [pc : {"select", "derive", "getcount"}, q : Queries]
ListCall == [pc : {"setids", "register"}, q : Queries, raced : BOOLEAN, result : Seq(Ids)]
CountCall == [pc : {"setcount", "registercount"}, q : Queries, raced : BOOLEAN, result : Nat]
ReadCall == ListCall \cup CountCall
SaveCall == {s \in [pc : {"exec", "context"}, op : {"create", "update", "delete"}, id : Ids,
                    old : Row, new : Row] : s.op # "update" => s.old = s.new}
BulkCall == [pc : {"tablekeys"}, id : Ids]
InvalidateCall == [pc : {"invalidate"}, id : Ids, failed : SUBSET Keys, dels : SUBSET Keys,
                   adds : SUBSET {k \in Keys : isListKey(k)}]

Calls == IdleCall \cup MissCall \cup ReadCall \cup SaveCall \cup BulkCall \cup InvalidateCall

QTypeOK ==
    /\ db \in [Ids -> Row \cup {Absent}]
    /\ fresh \subseteq {i \in Ids : db[i] = Absent}
    /\ store = [k \in Keys |-> store[k]]
    /\ \A k \in Keys : store[k] # Absent =>
         k \in QueryKeys /\ store[k] \in IF isListKey(k) THEN Seq(Ids) ELSE Nat
    /\ client \in [Clients -> Calls]
    /\ gc \in [keys : SUBSET Keys, missing : Keys \cup {Absent}]
    /\ tainted \in SUBSET Keys

\* A registered key has the parameters it is the hash of.
OwnParams == \A k \in GetAllRegisteredKeys : keyToParams[k] = ParamsOf[k]

Listed(k, i) == isListKey(k) /\ \E n \in DOMAIN store[k] : store[k][n] = i

\* The row is replaced by another version of it, created or deleted in a way that may
\* change a query's result. What an unparsed WHERE clause selects is not known.
Affects(k, op, old, new) ==
    IF op = "update"
    THEN /\ ~IsRestore(old, new)
         /\ ParamsOf[k].where = "unparsed" \/ ~SameResult(k, ParamsOf[k], old, new)
    ELSE old = new /\ ~NotInResult(ParamsOf[k], old)

\* The client's write has changed the result of the key's query, and the client will
\* find the key and delete its entry. A row that joined the result is not in the list.
Owes(c, k) ==
    \/ client[c].pc = "tablekeys"
    \/ /\ client[c].pc = "context"
       /\ Affects(k, client[c].op, client[c].old, client[c].new)
       /\ client[c].op = "create"
            \/ (client[c].op = "update" /\ NotInResult(ParamsOf[k], client[c].old))
          => ~Listed(k, client[c].id)
    \/ /\ client[c].pc = "invalidate"
       /\ \/ k \in client[c].failed \cup client[c].dels
          \/ k \in client[c].adds /\ ~Listed(k, client[c].id)

Live(k) == store[k] # Absent /\ k \notin tainted

\* An entry that is out of date is registered, and some client is about to delete it.
Accounted(k) ==
    Live(k) /\ store[k] # Result(k)
        => k \in GetAllRegisteredKeys /\ \E c \in Clients : Owes(c, k)

\* The client is about to register the key it has stored.
Registers(c, k) ==
    \/ client[c].pc = "register" /\ k = ListKey[client[c].q]
    \/ client[c].pc = "registercount" /\ k = CountKey[client[c].q]

\* An entry whose key is not registered is about to be.
Announced(k) ==
    Live(k) => k \in GetAllRegisteredKeys \/ \E c \in Clients : Registers(c, k)

\* What a query has read is what the database returns, unless a write has come since.
FreshRead(c) ==
    client[c].pc \in Reading /\ ~client[c].raced =>
        client[c].result =
            IF client[c].pc \in {"setids", "register"}
            THEN FetchIDs(db, ListKey[client[c].q], ParamsOf[ListKey[client[c].q]])
            ELSE GetCount(db, ParamsOf[CountKey[client[c].q]])

CacheInv ==
    /\ \A k \in Keys : Accounted(k) /\ Announced(k)
    /\ \A c \in Clients : FreshRead(c)

-----------------------------------------------------------------------------
(* What a query returns.                                                   *)

Table == [Ids -> Row \cup {Absent}]

\* Steps that need arithmetic or extensionality cite SMT instead.
USE ZenonT(60)

\* A cached query has a list key and a count key with the same parameters.
LEMMA QueryTyped ==
    ASSUME NEW q \in Queries
    PROVE  /\ ListKey[q] \in Keys /\ CountKey[q] \in Keys
           /\ ListKey[q] \in QueryKeys /\ CountKey[q] \in QueryKeys
           /\ isListKey(ListKey[q]) /\ ~isListKey(CountKey[q])
           /\ ParamsOf[ListKey[q]] = ParamsOf[CountKey[q]]
BY QueryCacheAssumption DEF QueryKeys, isListKey

\* A key of a cached query is a key of the table with known parameters, whose changes
\* are seen.
LEMMA QueryKeyTyped ==
    ASSUME NEW k \in QueryKeys
    PROVE  /\ k \in Keys /\ TableOf[k] = TableName /\ KeyKind[k] # "other"
           /\ ParamsOf[k] \in Params /\ ParamsOf[k] \in ParamType
           /\ ~ParamsOf[k].includeDeleted /\ Exact(ParamsOf[k])
           /\ ParamsOf[k].fields \cup ParamsOf[k].order \subseteq Tracked
BY QueryCacheAssumption, ParamsOfAssumption, ParamsAssumption, SMTT(60), Z3T(60) DEF QueryKeys, isListKey

\* Without a KeepItem of the model's own, a query lists the rows it counts.
LEMMA ShownIsCounted ==
    ASSUME NEW k \in QueryKeys, NEW row \in Row
    PROVE  Shown(row, ParamsOf[k]) <=> Counted(row, ParamsOf[k])
BY QueryKeyTyped, QueryCacheAssumption DEF Shown, Counted, KeepItem

ShownIds(table, p) == {i \in Ids : table[i] # Absent /\ Shown(table[i], p)}

\* A SELECT returns each of the ids it selects, in some order.
LEMMA ViewOrdered ==
    ASSUME NEW table \in Table, NEW k \in QueryKeys
    PROVE  LET p == ParamsOf[k]
               ids == OrderBy(View(table, k, p))
           IN  ids \in Seq(ShownIds(table, p)) /\ Len(ids) = Cardinality(ShownIds(table, p))
<1> DEFINE p == ParamsOf[k]
           listed == ShownIds(table, p)
           cols == SortColumns(k, p)
<1>1. cols \in SUBSET Columns
  BY QueryKeyTyped, KeysAssumption DEF SortColumns, ParamType
<1>2. listed \in SUBSET Ids
  BY DEF ShownIds
<1>3. View(table, k, p) = [i \in listed |-> [col \in cols |-> table[i][col]]]
  BY DEF View, ShownIds
<1>4. ASSUME NEW i \in listed
      PROVE  [col \in cols |-> table[i][col]] \in [cols -> Values]
  <2>1. table[i] \in Row
    BY DEF ShownIds, Table
  <2> QED
    BY <2>1, <1>1 DEF Row
<1>5. View(table, k, p) \in [listed -> [cols -> Values]]
  <2> HIDE DEF listed, cols, p
  <2> QED
    BY <1>3, <1>4
<1> HIDE DEF listed, cols
<1> QED
  BY <1>1, <1>2, <1>5, OrderByAssumption DEF listed

\* The cut-off list of ids is a list of ids of rows that are in the result.
LEMMA FetchTyped ==
    ASSUME NEW table \in Table, NEW k \in QueryKeys
    PROVE  LET ids == FetchIDs(table, k, ParamsOf[k])
           IN  /\ ids \in Seq(Ids)
               /\ \A n \in DOMAIN ids : ids[n] \in ShownIds(table, ParamsOf[k])
<1> DEFINE listed == ShownIds(table, ParamsOf[k])
           all == OrderBy(View(table, k, ParamsOf[k]))
           m == IF Len(all) < cacheListCountLimit THEN Len(all) ELSE cacheListCountLimit
<1>1. all \in Seq(listed)
  BY ViewOrdered
<1>2. listed \subseteq Ids
  BY DEF ShownIds
<1>3. FetchIDs(table, k, ParamsOf[k]) = SubSeq(all, 1, m)
  BY DEF FetchIDs
<1>4. m \in Nat /\ m <= Len(all)
  BY <1>1, QueryCacheAssumption, SMTT(60), Z3T(60)
<1> HIDE DEF listed, all, m
<1>5. SubSeq(all, 1, m) \in Seq(listed)
  BY <1>1, <1>4, SMTT(60), Z3T(60)
<1> QED
  BY <1>2, <1>3, <1>5, SMTT(60), Z3T(60) DEF listed

\* A list below the limit has as many ids as the query counts.
LEMMA FetchCount ==
    ASSUME NEW table \in Table, NEW q \in Queries,
           Len(FetchIDs(table, ListKey[q], ParamsOf[ListKey[q]])) < cacheListCountLimit
    PROVE  Len(FetchIDs(table, ListKey[q], ParamsOf[ListKey[q]]))
             = GetCount(table, ParamsOf[CountKey[q]])
<1> DEFINE k == ListKey[q]
           p == ParamsOf[k]
           all == OrderBy(View(table, k, p))
           m == IF Len(all) < cacheListCountLimit THEN Len(all) ELSE cacheListCountLimit
<1>1. k \in QueryKeys /\ p = ParamsOf[CountKey[q]]
  BY QueryTyped
<1>2. all \in Seq(ShownIds(table, p)) /\ Len(all) = Cardinality(ShownIds(table, p))
  BY <1>1, ViewOrdered
<1>3. FetchIDs(table, k, p) = SubSeq(all, 1, m)
  BY DEF FetchIDs
<1>4. ShownIds(table, p) = {i \in Ids : table[i] # Absent /\ Counted(table[i], p)}
  BY <1>1, ShownIsCounted DEF ShownIds, Table
<1> HIDE DEF all, p, k
<1>5. m \in Nat /\ m <= Len(all)
  BY <1>2, QueryCacheAssumption, SMTT(60), Z3T(60)
<1>6. Len(SubSeq(all, 1, m)) = m
  BY <1>2, <1>5, SMTT(60), Z3T(60)
<1>7. Len(FetchIDs(table, k, p)) = Len(all)
  BY <1>2, <1>3, <1>6, QueryCacheAssumption, SMTT(60), Z3T(60) DEF k, p
<1> QED
  BY <1>1, <1>2, <1>4, <1>7 DEF GetCount, k, p

\* What a query returns is a list of ids or a number.
LEMMA ResultTyped ==
    ASSUME NEW table \in Table, NEW q \in Queries
    PROVE  /\ FetchIDs(table, ListKey[q], ParamsOf[ListKey[q]]) \in Seq(Ids)
           /\ GetCount(table, ParamsOf[CountKey[q]]) \in Nat
<1> DEFINE k == ListKey[q]
           ids == OrderBy(View(table, k, ParamsOf[k]))
<1>1. k \in QueryKeys /\ ParamsOf[k] = ParamsOf[CountKey[q]]
  BY QueryTyped
<1>2. ids \in Seq(ShownIds(table, ParamsOf[k])) /\ Len(ids) = Cardinality(ShownIds(table, ParamsOf[k]))
  BY <1>1, ViewOrdered
<1>3. ShownIds(table, ParamsOf[k]) = {i \in Ids : table[i] # Absent /\ Counted(table[i], ParamsOf[k])}
  BY <1>1, ShownIsCounted DEF ShownIds, Table
<1> HIDE DEF ids, k
<1>4. Len(ids) \in Nat
  BY <1>2, SMTT(60), Z3T(60)
<1>5. GetCount(table, ParamsOf[CountKey[q]]) \in Nat
  BY <1>1, <1>2, <1>3, <1>4 DEF GetCount
<1> QED
  BY <1>5, QueryTyped, FetchTyped

\* The result of a key's query on a table.
ResultIn(table, k) ==
    IF isListKey(k) THEN FetchIDs(table, k, ParamsOf[k]) ELSE GetCount(table, ParamsOf[k])

InTable(table, i, k) == table[i] # Absent /\ Shown(table[i], ParamsOf[k])

\* Two tables that differ in one row give the same result if the row is in both results
\* or in neither, and keeps its place.
LEMMA OneRow ==
    ASSUME NEW s \in Table, NEW t \in Table, NEW k \in QueryKeys, NEW i \in Ids,
           \A j \in Ids \ {i} : s[j] = t[j],
           InTable(s, i, k) <=> InTable(t, i, k),
           InTable(s, i, k) => Agree(s[i], t[i], SortColumns(k, ParamsOf[k]))
    PROVE  ResultIn(s, k) = ResultIn(t, k)
<1> DEFINE p == ParamsOf[k]
<1>1. ShownIds(s, p) = ShownIds(t, p)
  BY SMTT(60), Z3T(60) DEF ShownIds, InTable
<1>2. ASSUME NEW j \in ShownIds(s, p), NEW col \in SortColumns(k, p)
      PROVE  s[j][col] = t[j][col]
  BY <1>2 DEF ShownIds, InTable, Agree
<1>3. View(s, k, p) = View(t, k, p)
  <2>1. /\ View(s, k, p) = [j \in ShownIds(s, p) |-> [col \in SortColumns(k, p) |-> s[j][col]]]
        /\ View(t, k, p) = [j \in ShownIds(t, p) |-> [col \in SortColumns(k, p) |-> t[j][col]]]
    BY DEF View, ShownIds
  <2> HIDE DEF p
  <2> QED
    BY <1>1, <1>2, <2>1, SMTT(60), Z3T(60)
<1>4. FetchIDs(s, k, p) = FetchIDs(t, k, p)
  BY <1>3 DEF FetchIDs
<1>5. {j \in Ids : s[j] # Absent /\ Counted(s[j], p)} = {j \in Ids : t[j] # Absent /\ Counted(t[j], p)}
  <2>1. /\ ShownIds(s, p) = {j \in Ids : s[j] # Absent /\ Counted(s[j], p)}
        /\ ShownIds(t, p) = {j \in Ids : t[j] # Absent /\ Counted(t[j], p)}
    BY ShownIsCounted DEF ShownIds, Table
  <2> QED
    BY <2>1, <1>1
<1> QED
  BY <1>4, <1>5 DEF ResultIn, GetCount

\* A row that a create adds or a delete removes outside the result leaves it alone.
LEMMA RowOutside ==
    ASSUME NEW table \in Table, NEW k \in QueryKeys, NEW i \in Ids, NEW row \in Row \cup {Absent},
           table[i] # Absent => NotInResult(ParamsOf[k], table[i]),
           row # Absent => NotInResult(ParamsOf[k], row)
    PROVE  ResultIn([table EXCEPT ![i] = row], k) = ResultIn(table, k)
<1> DEFINE t == [table EXCEPT ![i] = row]
<1>1. t \in Table
  BY DEF Table
<1>2. t[i] = row /\ \A j \in Ids \ {i} : table[j] = t[j]
  BY DEF Table
<1> HIDE DEF t
<1>3. ~InTable(table, i, k) /\ ~InTable(t, i, k)
  BY <1>2 DEF InTable, NotInResult
<1>4. ResultIn(table, k) = ResultIn(t, k)
  BY <1>1, <1>2, <1>3, OneRow
<1> QED
  BY <1>4 DEF t

\* A row that agrees with another on the tracked columns is in the result of a parsed
\* query if the other is.
LEMMA TrackedDecides ==
    ASSUME NEW k \in QueryKeys, NEW r \in Row, NEW s \in Row, Agree(r, s, Tracked),
           ParamsOf[k].where # "unparsed"
    PROVE  Shown(r, ParamsOf[k]) <=> Shown(s, ParamsOf[k])
<1> DEFINE p == ParamsOf[k]
<1>1. r \in p.sat <=> s \in p.sat
  <2>1. CASE p.where = "empty"
    BY <2>1, QueryKeyTyped, ParamsAssumption
  <2>2. CASE p.where = "parsed"
    <3>1. Agree(r, s, p.fields)
      BY QueryKeyTyped DEF Agree
    <3> QED
      BY <2>2, <3>1, QueryKeyTyped, ParamsAssumption
  <2> QED
    BY <2>1, <2>2, QueryKeyTyped DEF ParamType
<1>2. IsDeleted(r) <=> IsDeleted(s)
  BY KeepItemAssumption DEF Agree, IsDeleted
<1>3. KeepItem(r) <=> KeepItem(s)
  BY <1>2, QueryCacheAssumption DEF KeepItem
<1> QED
  BY <1>1, <1>2, <1>3 DEF Shown

\* The UPDATE of the changed columns leaves the result alone if the new version of the
\* row does.
LEMMA RowUpdated ==
    ASSUME NEW table \in Table, NEW k \in QueryKeys, NEW i \in Ids, NEW new \in Row,
           NEW row \in Row, table[i] \in Row, Agree(row, new, Tracked),
           ParamsOf[k].where # "unparsed", SameResult(k, ParamsOf[k], table[i], new)
    PROVE  ResultIn([table EXCEPT ![i] = row], k) = ResultIn(table, k)
<1> DEFINE t == [table EXCEPT ![i] = row]
           p == ParamsOf[k]
<1>1. t \in Table
  BY DEF Table
<1>2. t[i] = row /\ \A j \in Ids \ {i} : table[j] = t[j]
  BY DEF Table
<1> HIDE DEF t
<1>3. Shown(row, p) <=> Shown(new, p)
  BY TrackedDecides
<1>4. table[i] # Absent /\ row # Absent
  BY QueryCacheAssumption
<1>5. InTable(table, i, k) <=> InTable(t, i, k)
  BY <1>2, <1>3, <1>4 DEF InTable, SameResult
<1>6. SortColumns(k, p) \subseteq Tracked
  BY QueryKeyTyped DEF SortColumns
<1>7. InTable(table, i, k) => Agree(table[i], t[i], SortColumns(k, p))
  BY <1>2, <1>6 DEF InTable, SameResult, Agree
<1>8. ResultIn(table, k) = ResultIn(t, k)
  BY <1>1, <1>2, <1>5, <1>7, OneRow
<1> QED
  BY <1>8 DEF t

\* A cached list that is right lists no row outside the result.
LEMMA OutsideNotListed ==
    ASSUME QTypeOK, NEW k \in QueryKeys, NEW i \in Ids, store[k] = ResultIn(db, k),
           db[i] # Absent => NotInResult(ParamsOf[k], db[i])
    PROVE  ~Listed(k, i)
<1>1. i \notin ShownIds(db, ParamsOf[k])
  BY DEF ShownIds, NotInResult
<1>2. db \in Table
  BY DEF QTypeOK, Table
<1> QED
  BY <1>1, <1>2, FetchTyped DEF Listed, ResultIn

-----------------------------------------------------------------------------
(* Types.                                                                  *)

\* The step a client is at tells which local variables it has.
LEMMA CallShape ==
    ASSUME QTypeOK, NEW c \in Clients
    PROVE  /\ client[c] \in Calls
           /\ client[c].pc \in {"select", "derive", "getcount"} => client[c] \in MissCall
           /\ client[c].pc \in {"setids", "register"} => client[c] \in ListCall
           /\ client[c].pc \in {"setcount", "registercount"} => client[c] \in CountCall
           /\ client[c].pc \in {"exec", "context"} => client[c] \in SaveCall
           /\ client[c].pc = "tablekeys" => client[c] \in BulkCall
           /\ client[c].pc = "invalidate" => client[c] \in InvalidateCall
<1>1. client[c] \in Calls
  BY DEF QTypeOK
<1> QED
  BY <1>1 DEF Calls, IdleCall, MissCall, ReadCall, ListCall, CountCall, SaveCall, BulkCall,
                  InvalidateCall

\* Whatever a write looks up in the index are keys.
LEMMA TaskKeysTyped ==
    ASSUME TypeOK, NEW t \in Tables, NEW model \in Row, NEW original \in Row,
           NEW isCreate \in BOOLEAN, NEW isDelete \in BOOLEAN
    PROVE  /\ KeysToDelete(t, model, original, isCreate, isDelete) \subseteq Keys
           /\ KeysToDeleteUnlessListed(t, model, original, isCreate, isDelete)
                 \subseteq {k \in Keys : isListKey(k)}
<1> DEFINE changed == ChangedColumns(model, original, isCreate)
           cols == cacheCandidateColumns(changed, isCreate, isDelete,
                      ~KeepItem(model) \/ keepItemFieldChanged(changed))
<1>1. cols \subseteq Columns
  BY KeysAssumption DEF ChangedColumns, changedModelColumns, cacheCandidateColumns
<1> HIDE DEF cols
<1>2. GetInvalidationContext(t, model, cols) \subseteq Keys
  BY <1>1, KeysAssumption, SMTT(60), Z3T(60) DEF GetInvalidationContext, TypeOK, Row, DepFields
<1>3. TaskKeys(t, model, original, isCreate, isDelete) \subseteq Keys
  BY <1>2 DEF TaskKeys, cols
<1> QED
  BY <1>3 DEF KeysToDelete, KeysToDeleteUnlessListed

\* A step that changes one client's call only.
LEMMA ClientTyped ==
    ASSUME QTypeOK, NEW c \in Clients, NEW call \in Calls,
           client' = [client EXCEPT ![c] = call],
           UNCHANGED <<db, fresh, store, gc, tainted>>
    PROVE  QTypeOK'
BY DEF QTypeOK

-----------------------------------------------------------------------------
(* The invariant.                                                          *)

QInv == TypeOK /\ IndexCovers /\ OwnParams /\ QTypeOK /\ CacheInv

\* What a client owes and is about to register is a matter of its call and the entry,
\* and what it has read of its call and the database.
LEMMA SameCall ==
    ASSUME NEW c, NEW k, client'[c] = client[c]
    PROVE  /\ store'[k] = store[k] => (Owes(c, k)' <=> Owes(c, k))
           /\ Registers(c, k)' <=> Registers(c, k)
           /\ db' = db => (FreshRead(c)' <=> FreshRead(c))
<1>1. store'[k] = store[k] => (Owes(c, k)' <=> Owes(c, k))
  BY DEF Owes, Listed
<1>2. Registers(c, k)' <=> Registers(c, k)
  BY DEF Registers
<1>3. db' = db => (FreshRead(c)' <=> FreshRead(c))
  BY DEF FreshRead, FetchIDs, View, GetCount
<1> QED
  BY <1>1, <1>2, <1>3

\* The database would return the same as before.
LEMMA SameResults ==
    ASSUME db' = db, NEW k
    PROVE  Result(k)' = Result(k)
BY DEF Result, FetchIDs, View, GetCount

\* An entry that a step leaves alone stays accounted for and announced.
LEMMA Carried ==
    ASSUME NEW k \in Keys, Accounted(k), Announced(k), db' = db, store'[k] = store[k],
           k \notin tainted' => k \notin tainted,
           k \in GetAllRegisteredKeys => k \in GetAllRegisteredKeys',
           \A d \in Clients : Owes(d, k) /\ k \in GetAllRegisteredKeys /\ Live(k) => Owes(d, k)',
           \A d \in Clients : Registers(d, k) => Registers(d, k)' \/ k \in GetAllRegisteredKeys'
    PROVE  Accounted(k)' /\ Announced(k)'
<1>1. Result(k)' = Result(k)
  BY SameResults
<1>2. Live(k)' => Live(k)
  BY DEF Live
<1>3. Accounted(k)'
  BY <1>1, <1>2 DEF Accounted
<1>4. Announced(k)'
  BY <1>2 DEF Announced
<1> QED
  BY <1>3, <1>4

\* A step that changes one client's call, and neither the cache nor the database.
LEMMA ClientStep ==
    ASSUME QInv, NEW c \in Clients, NEW call \in Calls,
           client' = [client EXCEPT ![c] = call],
           UNCHANGED <<db, fresh, store, gc, tainted, indexVars>>,
           client[c].pc \notin {"register", "registercount"},
           \A k \in Keys : Owes(c, k) /\ k \in GetAllRegisteredKeys /\ Live(k) => Owes(c, k)',
           FreshRead(c)'
    PROVE  QTypeOK' /\ CacheInv'
<1>1. QTypeOK'
  BY ClientTyped DEF QInv
<1>2. \A d \in Clients \ {c} : client'[d] = client[d]
  BY DEF QInv, QTypeOK
<1>3. GetAllRegisteredKeys' = GetAllRegisteredKeys
  BY DEF GetAllRegisteredKeys, indexVars
<1>4. ASSUME NEW k \in Keys
      PROVE  Accounted(k)' /\ Announced(k)'
  <2>1. \A d \in Clients : Owes(d, k) /\ k \in GetAllRegisteredKeys /\ Live(k) => Owes(d, k)'
    BY <1>2, SameCall
  <2>2. \A d \in Clients : Registers(d, k) => Registers(d, k)'
    BY <1>2, SameCall DEF Registers
  <2>3. Accounted(k) /\ Announced(k)
    BY DEF QInv, CacheInv
  <2> QED
    BY <1>3, <2>1, <2>2, <2>3, Carried
<1>5. ASSUME NEW d \in Clients
      PROVE  FreshRead(d)'
  BY <1>2, SameCall DEF QInv, CacheInv
<1> QED
  BY <1>1, <1>4, <1>5 DEF CacheInv

\* A client that has not written anything owes nothing.
LEMMA NothingOwed ==
    ASSUME NEW c, NEW k, client[c].pc \notin {"context", "tablekeys", "invalidate"}
    PROVE  ~Owes(c, k)
BY DEF Owes

-----------------------------------------------------------------------------
(* The steps that change one client's call only.                           *)

\* A client that goes on to a call that is no read, and owes nothing, keeps the invariant.
LEMMA PlainStep ==
    ASSUME QInv, NEW c \in Clients, NEW call \in Calls,
           client' = [client EXCEPT ![c] = call],
           UNCHANGED <<db, fresh, store, gc, tainted, indexVars>>,
           client[c].pc \notin {"register", "registercount", "context", "tablekeys", "invalidate"},
           call.pc \notin Reading
    PROVE  QTypeOK' /\ CacheInv'
<1>1. client'[c] = call
  BY DEF QInv, QTypeOK
<1>2. FreshRead(c)'
  BY <1>1 DEF FreshRead
<1>3. \A k \in Keys : ~Owes(c, k)
  BY NothingOwed
<1> QED
  BY <1>2, <1>3, ClientStep

\* A Fetch or Count that misses the cache begins.
LEMMA MissKept ==
    ASSUME QInv, NEW c \in Clients, NEW q \in Queries, FetchMiss(c, q) \/ CountMiss(c, q)
    PROVE  QTypeOK' /\ CacheInv'
<1>1. PICK pc \in {"select", "derive"} :
        client' = [client EXCEPT ![c] = [pc |-> pc, q |-> q]]
  BY DEF FetchMiss, CountMiss
<1>2. [pc |-> pc, q |-> q] \in Calls /\ [pc |-> pc, q |-> q].pc \notin Reading
  BY SMTT(60), Z3T(60) DEF Calls, MissCall, Reading
<1>3. client[c].pc = "idle" /\ UNCHANGED <<db, fresh, store, gc, tainted, indexVars>>
  BY DEF FetchMiss, CountMiss
<1> QED
  BY <1>1, <1>2, <1>3, PlainStep

\* A Save of a stored model or a Delete begins.
LEMMA BeginKept ==
    ASSUME QInv, NEW c \in Clients, NEW i \in Ids, NEW value \in Row,
           SaveExisting(c, i, value) \/ Delete(c, i)
    PROVE  QTypeOK' /\ CacheInv'
<1>1. db[i] \in Row
  BY DEF QInv, QTypeOK, SaveExisting, Delete
<1>2. PICK op \in {"update", "delete"}, new \in Row :
        /\ op = "update" \/ new = db[i]
        /\ client' = [client EXCEPT ![c] =
                     [pc |-> "exec", op |-> op, id |-> i, old |-> db[i], new |-> new]]
  BY <1>1 DEF SaveExisting, Delete
<1> DEFINE call == [pc |-> "exec", op |-> op, id |-> i, old |-> db[i], new |-> new]
<1>3. call \in Calls /\ call.pc \notin Reading
  BY <1>1, <1>2 DEF Calls, SaveCall, Reading
<1>4. client[c].pc = "idle" /\ UNCHANGED <<db, fresh, store, gc, tainted, indexVars>>
  BY DEF SaveExisting, Delete
<1> QED
  BY <1>2, <1>3, <1>4, PlainStep

\* A call that returns before it has stored or written anything.
LEMMA GiveUpKept ==
    ASSUME QInv, NEW c \in Clients, QueryFails(c) \/ ExecNothing(c)
    PROVE  QTypeOK' /\ CacheInv'
<1>1. Idle \in Calls /\ Idle.pc \notin Reading
  BY DEF Idle, Calls, IdleCall, Reading
<1>2. /\ client' = [client EXCEPT ![c] = Idle]
      /\ client[c].pc \in {"select", "getcount", "exec"}
      /\ UNCHANGED <<db, fresh, store, gc, tainted, indexVars>>
  BY DEF QueryFails, ExecNothing, Return
<1> QED
  BY <1>1, <1>2, PlainStep

\* A client that reads has a result of the database, of a list or of a count.
LEMMA ReadStep ==
    ASSUME QInv, NEW c \in Clients, NEW call \in ReadCall,
           client' = [client EXCEPT ![c] = call],
           UNCHANGED <<db, fresh, store, gc, tainted, indexVars>>,
           client[c].pc \notin {"register", "registercount", "context", "tablekeys", "invalidate"},
           ~call.raced => call.result =
              IF call.pc \in {"setids", "register"}
              THEN FetchIDs(db, ListKey[call.q], ParamsOf[ListKey[call.q]])
              ELSE GetCount(db, ParamsOf[CountKey[call.q]])
    PROVE  QTypeOK' /\ CacheInv'
<1>1. client'[c] = call /\ call \in Calls
  BY DEF QInv, QTypeOK, Calls
<1>2. FreshRead(c)'
  BY <1>1 DEF FreshRead, FetchIDs, View, GetCount
<1>3. \A k \in Keys : ~Owes(c, k)
  BY NothingOwed
<1> QED
  BY <1>1, <1>2, <1>3, ClientStep

\* SelectIDs reads the list from the database.
LEMMA SelectKept ==
    ASSUME QInv, NEW c \in Clients, SelectIDs(c)
    PROVE  QTypeOK' /\ CacheInv'
<1> DEFINE q == client[c].q
           k == ListKey[q]
           call == [pc |-> "setids", q |-> q, raced |-> FALSE, result |-> FetchIDs(db, k, ParamsOf[k])]
<1>1. client[c].pc = "select" /\ q \in Queries /\ db \in Table
  BY CallShape DEF SelectIDs, MissCall, QInv, QTypeOK, Table
<1>2. FetchIDs(db, k, ParamsOf[k]) \in Seq(Ids)
  BY <1>1, ResultTyped
<1>3. client' = [client EXCEPT ![c] = call]
  BY DEF SelectIDs
<1>4. UNCHANGED <<db, fresh, store, gc, tainted, indexVars>>
  BY DEF SelectIDs
<1>5. call \in ReadCall
  BY <1>1, <1>2 DEF ReadCall, ListCall, CountCall
<1> QED
  BY <1>1, <1>3, <1>4, <1>5, ReadStep

\* CountRows reads the count from the database.
LEMMA CountRowsKept ==
    ASSUME QInv, NEW c \in Clients, CountRows(c)
    PROVE  QTypeOK' /\ CacheInv'
<1> DEFINE q == client[c].q
           n == GetCount(db, ParamsOf[CountKey[q]])
           call == [pc |-> "setcount", q |-> q, raced |-> FALSE, result |-> n]
<1>1. client[c].pc = "getcount" /\ q \in Queries /\ db \in Table
  BY CallShape DEF CountRows, MissCall, QInv, QTypeOK, Table
<1>2. n \in Nat
  BY <1>1, ResultTyped
<1>3. client' = [client EXCEPT ![c] = call]
  BY DEF CountRows
<1>4. UNCHANGED <<db, fresh, store, gc, tainted, indexVars>>
  BY DEF CountRows
<1>5. call \in ReadCall
  BY <1>1, <1>2 DEF ReadCall, ListCall, CountCall
<1> QED
  BY <1>1, <1>3, <1>4, <1>5, ReadStep

\* Who owes a key's entry its deletion is still to look at it.
LEMMA OwesPending ==
    ASSUME NEW c, NEW k, Owes(c, k)
    PROVE  Pending(c, k)
BY DEF Owes, Pending

\* The invariant makes the cache coherent.
LEMMA Coherent == QInv => QueryCoherence
BY OwesPending DEF QInv, CacheInv, Accounted, Live, QueryCoherence

\* A count taken from a complete list that is right is right.
LEMMA DeriveKept ==
    ASSUME QInv, NEW c \in Clients, DeriveCount(c)
    PROVE  QTypeOK' /\ CacheInv'
<1> DEFINE q == client[c].q
           k == ListKey[q]
           raced == k \in tainted \/ \E d \in Clients : Pending(d, k)
           derived == [pc |-> "setcount", q |-> q, result |-> Len(store[k]), raced |-> raced]
           counting == [pc |-> "getcount", q |-> q]
<1>1. /\ client[c].pc = "derive" /\ q \in Queries /\ db \in Table
      /\ UNCHANGED <<db, fresh, store, gc, tainted, indexVars>>
  BY CallShape DEF DeriveCount, MissCall, QInv, QTypeOK, Table
<1>2. CASE store[k] # Absent /\ Len(store[k]) < cacheListCountLimit
  <2>1. client' = [client EXCEPT ![c] = derived]
    BY <1>2 DEF DeriveCount
  <2>2. k \in Keys /\ isListKey(k)
    BY <1>1, QueryTyped
  <2>3. ASSUME ~raced
        PROVE  store[k] = FetchIDs(db, k, ParamsOf[k])
    BY <1>2, <2>2, <2>3, Coherent DEF QueryCoherence, Result
  <2>4. ASSUME ~raced
        PROVE  Len(store[k]) = GetCount(db, ParamsOf[CountKey[q]])
    BY <1>1, <1>2, <2>3, <2>4, FetchCount
  <2>5. Len(store[k]) \in Nat
    BY <1>2, <2>2, SMTT(60), Z3T(60) DEF QInv, QTypeOK
  <2>6. derived \in ReadCall
    BY <1>1, <2>5 DEF ReadCall, CountCall
  <2> HIDE DEF raced
  <2> QED
    BY <1>1, <2>1, <2>4, <2>6, ReadStep
<1>3. CASE ~(store[k] # Absent /\ Len(store[k]) < cacheListCountLimit)
  <2>1. client' = [client EXCEPT ![c] = counting]
    BY <1>3 DEF DeriveCount
  <2>2. counting \in Calls /\ counting.pc \notin Reading
    BY <1>1 DEF Calls, MissCall, Reading
  <2> QED
    BY <1>1, <2>1, <2>2, PlainStep
<1> QED
  BY <1>2, <1>3

\* A query over a WHERE clause that was not parsed is deleted for certain.
LEMMA UnparsedDeleted ==
    ASSUME TypeOK, IndexCovers, NEW k \in WatchedKeys, NEW old \in Row, NEW new \in Row,
           keyToParams[k].where = "unparsed"
    PROVE  Invalidated(k, new, old, FALSE, FALSE)
<1> DEFINE changed == ChangedColumns(new, old, FALSE)
           cols == cacheCandidateColumns(changed, FALSE, FALSE,
                      ~KeepItem(new) \/ keepItemFieldChanged(changed))
<1>1. cols \in SUBSET Columns
  BY KeysAssumption DEF ChangedColumns, changedModelColumns, cacheCandidateColumns
<1>2. uncertainDependencyField \in DependencyFields(buildQueryDependencies(k, keyToParams[k]))
  BY DEF DependencyFields, buildQueryDependencies
<1>3. k \in GetInvalidationContext(TableOf[k], new, cols)
  BY <1>1, <1>2, WatchedTyped, DependencyReached
<1>4. k \in TaskKeys(TableOf[k], new, old, FALSE, FALSE)
  BY <1>3, WatchedTyped DEF TaskKeys
<1>5. MatchFails(k, new)
  BY WatchedTyped DEF IndexCovers, CoversKey, MatchFails
<1>6. cacheTask(k, new, old, FALSE, FALSE).failed
  BY <1>5 DEF cacheTask
<1> QED
  BY <1>4, <1>6, TaskInvalidates

\* A registered entry is of a watched key.
LEMMA LiveWatched ==
    ASSUME QInv, NEW k \in GetAllRegisteredKeys, Live(k)
    PROVE  k \in WatchedKeys /\ k \in QueryKeys /\ keyToParams[k] = ParamsOf[k]
<1>1. k \in QueryKeys /\ keyToParams[k] = ParamsOf[k]
  BY SMTT(60), Z3T(60) DEF QInv, QTypeOK, Live, OwnParams, GetAllRegisteredKeys
<1> QED
  BY <1>1, QueryKeyTyped DEF WatchedKeys

\* The decision about a write finds the entries whose query's result it has changed. A
\* list that is spared if it has the row does not have it.
LEMMA Decided ==
    ASSUME QInv, NEW k \in GetAllRegisteredKeys, Live(k), NEW c \in Clients, Context(c),
           Owes(c, k)
    PROVE  Owes(c, k)'
<1> DEFINE new == client[c].new
           old == client[c].old
           isCreate == client[c].op = "create"
           isDelete == client[c].op = "delete"
           sure == KeysToDelete(TableName, new, old, isCreate, isDelete)
           adds == KeysToDeleteUnlessListed(TableName, new, old, isCreate, isDelete)
<1>1. client[c].pc = "context" /\ client[c] \in SaveCall
  BY CallShape DEF Context, QInv
<1>2. k \in WatchedKeys /\ k \in QueryKeys /\ keyToParams[k] = ParamsOf[k] /\ TableOf[k] = TableName
  BY LiveWatched, QueryKeyTyped
<1>3. /\ Affects(k, client[c].op, old, new)
      /\ isCreate \/ (client[c].op = "update" /\ NotInResult(ParamsOf[k], old))
           => ~Listed(k, client[c].id)
  BY <1>1 DEF Owes
<1>4. old \in Row /\ new \in Row /\ client[c].op \in {"create", "update", "delete"}
  BY <1>1 DEF SaveCall
<1>5. (k \in sure \/ k \in adds) /\ (k \in adds => ~Listed(k, client[c].id))
  <2>1. CASE client[c].op = "update"
    <3>1. Invalidated(k, new, old, FALSE, FALSE)
      <4>1. CASE ParamsOf[k].where = "unparsed"
        BY <1>2, <1>4, <4>1, UnparsedDeleted DEF QInv
      <4>2. CASE ParamsOf[k].where # "unparsed"
        BY <1>2, <1>3, <1>4, <2>1, <4>2, UpdateDecision DEF QInv, UpdateInvalidates, Affects
      <4> QED
        BY <4>1, <4>2
    <3>2. ~isCreate /\ ~isDelete
      BY <2>1
    <3>3. isCreate = FALSE /\ isDelete = FALSE
      BY <3>2
    <3>4. k \in adds => NotInResult(ParamsOf[k], old)
      BY <1>2, <1>4, <3>3, KeptListDecision DEF QInv, KeptListHadNoRow
    <3> QED
      BY <1>2, <1>3, <2>1, <3>1, <3>3, <3>4 DEF Invalidated
  <2>2. CASE client[c].op = "create"
    <3>1. isCreate = TRUE /\ isDelete = FALSE /\ old = new
      BY <1>3, <2>2 DEF Affects
    <3>2. Invalidated(k, new, new, TRUE, FALSE)
      BY <1>2, <1>3, <1>4, <2>2, <3>1, CreateAndDeleteDecision
         DEF QInv, CreateAndDeleteInvalidate, Affects
    <3> QED
      BY <1>2, <1>3, <2>2, <3>1, <3>2 DEF Invalidated
  <2>3. CASE client[c].op = "delete"
    <3>1. isCreate = FALSE /\ isDelete = TRUE /\ old = new
      BY <1>3, <2>3 DEF Affects
    <3>2. Invalidated(k, new, new, FALSE, TRUE)
      BY <1>2, <1>3, <1>4, <2>3, <3>1, CreateAndDeleteDecision
         DEF QInv, CreateAndDeleteInvalidate, Affects
    <3>3. k \notin adds
      BY <3>1 DEF KeysToDeleteUnlessListed, cacheTask
    <3> QED
      BY <1>2, <3>1, <3>2, <3>3 DEF Invalidated
  <2> QED
    BY <1>4, <2>1, <2>2, <2>3
<1>6. /\ client'[c].pc = "invalidate" /\ client'[c].id = client[c].id
      /\ client'[c].adds = adds /\ client'[c].failed \cup client'[c].dels = sure
      /\ store' = store
  BY DEF Context, QInv, QTypeOK
<1>7. \A i : Listed(k, i)' <=> Listed(k, i)
  BY <1>6 DEF Listed
<1> QED
  BY <1>5, <1>6, <1>7 DEF Owes

\* Context gives the client the keys to delete, every key it owes among them.
LEMMA ContextKept ==
    ASSUME QInv, NEW c \in Clients, Context(c)
    PROVE  QTypeOK' /\ CacheInv'
<1> DEFINE new == client[c].new
           old == client[c].old
           isCreate == client[c].op = "create"
           isDelete == client[c].op = "delete"
           sure == KeysToDelete(TableName, new, old, isCreate, isDelete)
           failed == {k \in sure : cacheTask(k, new, old, isCreate, isDelete).failed}
           adds == KeysToDeleteUnlessListed(TableName, new, old, isCreate, isDelete)
           call == [pc |-> "invalidate", id |-> client[c].id, failed |-> failed,
                    dels |-> sure \ failed, adds |-> adds]
<1>1. client[c].pc = "context" /\ client[c] \in SaveCall
  <2>1. QTypeOK
    BY DEF QInv
  <2>2. client[c].pc = "context"
    BY DEF Context
  <2> QED
    BY <2>1, <2>2, CallShape
<1>2. client' = [client EXCEPT ![c] = call] /\ UNCHANGED <<db, fresh, store, gc, tainted, indexVars>>
  BY SMTT(60), Z3T(60) DEF Context
<1>3. \A k \in Keys : Owes(c, k) /\ k \in GetAllRegisteredKeys /\ Live(k) => Owes(c, k)'
  BY Decided
<1>4. sure \subseteq Keys /\ adds \subseteq {k \in Keys : isListKey(k)}
  BY <1>1, TaskKeysTyped, QueryCacheAssumption DEF SaveCall, QInv
<1> HIDE DEF sure, adds, failed
<1>5. failed \subseteq sure
  BY SMTT(60), Z3T(60) DEF failed
<1>6. call \in InvalidateCall
  BY <1>1, <1>4, <1>5 DEF InvalidateCall, SaveCall
<1>7. call \in Calls
  BY <1>6 DEF Calls
<1>8. FreshRead(c)'
  <2>1. client'[c].pc = "invalidate"
    BY <1>2 DEF QInv, QTypeOK
  <2> QED
    BY <2>1 DEF FreshRead, Reading
<1> QED
  BY <1>1, <1>2, <1>3, <1>7, <1>8, ClientStep

\* InvalidateQueryCaches gives the client every key of the table.
LEMMA InvalidateQueryCachesKept ==
    ASSUME QInv, NEW c \in Clients, InvalidateQueryCaches(c)
    PROVE  QTypeOK' /\ CacheInv'
<1> DEFINE dels == GetQueryKeysForTable(TableName)
           call == [pc |-> "invalidate", id |-> client[c].id, failed |-> {}, adds |-> {},
                    dels |-> dels]
<1>1. client[c].pc = "tablekeys" /\ client[c] \in BulkCall
  BY CallShape DEF InvalidateQueryCaches, QInv
<1>2. client' = [client EXCEPT ![c] = call] /\ UNCHANGED <<db, fresh, store, gc, tainted, indexVars>>
  BY DEF InvalidateQueryCaches
<1>3. client'[c] = call
  BY <1>2 DEF QInv, QTypeOK
<1>4. ASSUME NEW k \in GetAllRegisteredKeys, Live(k)
      PROVE  Owes(c, k)'
  <2>1. k \in dels
    BY <1>4, LiveWatched, QueryKeyTyped DEF QInv, IndexCovers, CoversKey, GetQueryKeysForTable
  <2> QED
    BY <1>3, <2>1, SMTT(60), Z3T(60) DEF Owes
<1>5. FreshRead(c)'
  BY <1>3, SMTT(60), Z3T(60) DEF FreshRead, Reading
<1>6. call \in Calls
  <2>1. dels \subseteq Keys
    BY QueryCacheAssumption DEF GetQueryKeysForTable, QInv, TypeOK
  <2> HIDE DEF dels
  <2>2. call \in InvalidateCall
    BY <1>1, <2>1 DEF BulkCall, InvalidateCall
  <2> QED
    BY <2>2 DEF Calls
<1> QED
  BY <1>1, <1>2, <1>4, <1>5, <1>6, ClientStep

\* Fieldwise changes of an invalidation are a change of the whole call.
LEMMA InvalidateUpdated ==
    ASSUME QTypeOK, NEW c \in Clients, client[c] \in InvalidateCall,
           NEW k, NEW listed \in BOOLEAN,
           client' = [client EXCEPT ![c].adds = @ \ {k},
                                    ![c].dels = IF listed THEN @ ELSE @ \cup {k}]
    PROVE  client' = [client EXCEPT ![c] =
              [pc |-> "invalidate", id |-> client[c].id, failed |-> client[c].failed,
               dels |-> IF listed THEN client[c].dels ELSE client[c].dels \cup {k},
               adds |-> client[c].adds \ {k}]]
<1> DEFINE dels == IF listed THEN client[c].dels ELSE client[c].dels \cup {k}
           adds == client[c].adds \ {k}
           call == [pc |-> "invalidate", id |-> client[c].id, failed |-> client[c].failed,
                    dels |-> dels, adds |-> adds]
           moved == [client[c] EXCEPT !.adds = adds]
           others == [client EXCEPT ![c] = moved]
<1>1. /\ client[c] = [x \in {"pc", "id", "failed", "dels", "adds"} |-> client[c][x]]
      /\ client[c].pc = "invalidate"
  BY DEF InvalidateCall
<1>2. client = [d \in Clients |-> client[d]]
  BY DEF QTypeOK
<1>3. moved.dels = client[c].dels
  BY <1>1
<1>4. others[c] = moved
  BY <1>2
<1>5. client' = [others EXCEPT ![c] = [others[c] EXCEPT !.dels =
                    IF listed THEN others[c].dels ELSE others[c].dels \cup {k}]]
  OBVIOUS
<1>6. client' = [others EXCEPT ![c] = [moved EXCEPT !.dels = dels]]
  BY <1>3, <1>4, <1>5
<1>7. [moved EXCEPT !.dels = dels] = call
  <2> HIDE DEF dels, adds
  <2>1. moved = [x \in {"pc", "id", "failed", "dels", "adds"} |-> IF x = "adds" THEN adds ELSE client[c][x]]
    BY <1>1
  <2>2. [moved EXCEPT !.dels = dels] =
          [x \in {"pc", "id", "failed", "dels", "adds"} |->
             IF x = "dels" THEN dels ELSE IF x = "adds" THEN adds ELSE client[c][x]]
    <3> HIDE DEF moved
    <3> QED
      BY <2>1
  <2> HIDE DEF moved
  <2> QED
    BY <1>1, <2>2, SMTT(60), Z3T(60)
<1> HIDE DEF call, moved
<1> QED
  BY <1>2, <1>6, <1>7 DEF call

\* A list that is read in phase 2 is kept only if it has the row, and then nothing is owed.
LEMMA ReadListKept ==
    ASSUME QInv, NEW c \in Clients, ReadList(c)
    PROVE  QTypeOK' /\ CacheInv'
<1>1. client[c].pc = "invalidate" /\ client[c] \in InvalidateCall
  BY CallShape DEF ReadList, QInv
<1>2. PICK k \in client[c].adds, listed \in BOOLEAN :
        /\ listed = (store[k] # Absent /\ \E n \in DOMAIN store[k] : store[k][n] = client[c].id)
        /\ client' = [client EXCEPT ![c].adds = @ \ {k},
                                    ![c].dels = IF listed THEN @ ELSE @ \cup {k}]
  BY DEF ReadList
<1>3. isListKey(k) /\ k \in Keys
  BY <1>1, <1>2 DEF InvalidateCall
<1>4. listed => Listed(k, client[c].id)
  BY <1>2, <1>3 DEF Listed
<1> DEFINE dels == IF listed THEN client[c].dels ELSE client[c].dels \cup {k}
           call == [pc |-> "invalidate", id |-> client[c].id, failed |-> client[c].failed,
                    dels |-> dels, adds |-> client[c].adds \ {k}]
<1>5. client' = [client EXCEPT ![c] = call]
  <2>1. QTypeOK /\ client[c] \in InvalidateCall
    BY <1>1 DEF QInv
  <2>2. client' = [client EXCEPT ![c].adds = @ \ {k},
                                 ![c].dels = IF listed THEN @ ELSE @ \cup {k}]
    BY <1>2
  <2> HIDE DEF call, dels
  <2>3. client' = [client EXCEPT ![c] =
              [pc |-> "invalidate", id |-> client[c].id, failed |-> client[c].failed,
               dels |-> IF listed THEN client[c].dels ELSE client[c].dels \cup {k},
               adds |-> client[c].adds \ {k}]]
    BY <2>1, <2>2, InvalidateUpdated
  <2> QED
    BY <2>3 DEF call, dels
<1>6. call \in Calls
  <2>1. dels \subseteq Keys
    BY <1>1, <1>3, <1>4 DEF InvalidateCall
  <2>2. call \in InvalidateCall
    BY <1>1, <2>1 DEF InvalidateCall
  <2> QED
    BY <2>2 DEF Calls
<1>7. client'[c] = call
  BY <1>5 DEF QInv, QTypeOK
<1>8. UNCHANGED <<db, fresh, store, gc, tainted, indexVars>>
  BY DEF ReadList
<1>9. ASSUME NEW j \in Keys, Owes(c, j), Live(j)
      PROVE  Owes(c, j)'
  <2>1. j \in client[c].failed \cup client[c].dels \/ (j \in client[c].adds /\ ~Listed(j, client[c].id))
    BY <1>1, <1>9 DEF Owes
  <2>2. \/ j \in call.failed \cup call.dels
        \/ j \in call.adds /\ ~Listed(j, client[c].id)
    BY <1>4, <1>9, <2>1
  <2>3. \A i : Listed(j, i)' <=> Listed(j, i)
    BY <1>8 DEF Listed
  <2>4. /\ client'[c].pc = "invalidate" /\ client'[c].id = client[c].id
        /\ client'[c].failed = call.failed /\ client'[c].dels = call.dels /\ client'[c].adds = call.adds
    BY <1>7, SMTT(60), Z3T(60) DEF call
  <2> HIDE DEF call
  <2> QED
    BY <2>2, <2>3, <2>4 DEF Owes
<1>10. FreshRead(c)'
  BY <1>7, SMTT(60), Z3T(60) DEF FreshRead, Reading
<1> QED
  BY <1>1, <1>5, <1>6, <1>8, <1>9, <1>10, ClientStep

\* A client that has no key left to delete owes nothing.
LEMMA InvalidateDoneKept ==
    ASSUME QInv, NEW c \in Clients, InvalidateDone(c)
    PROVE  QTypeOK' /\ CacheInv'
<1>1. /\ client' = [client EXCEPT ![c] = Idle] /\ client[c].pc = "invalidate"
      /\ UNCHANGED <<db, fresh, store, gc, tainted, indexVars>>
      /\ client[c].failed \cup client[c].adds \cup client[c].dels = {}
  BY SMTT(60), Z3T(60) DEF InvalidateDone, Return
<1>2. \A k \in Keys : ~Owes(c, k)
  BY <1>1 DEF Owes
<1>3. Idle \in Calls
  BY DEF Idle, Calls, IdleCall
<1>4. FreshRead(c)'
  BY <1>1 DEF FreshRead, Reading, Idle, QInv, QTypeOK
<1> QED
  BY <1>1, <1>2, <1>3, <1>4, ClientStep

-----------------------------------------------------------------------------
(* The steps that change the cache.                                        *)

\* A deletion of an entry, by a client that goes on with its other keys, or by none.
LEMMA DropStep ==
    ASSUME QInv, NEW k \in Keys, Drop(k), UNCHANGED <<db, fresh, gc, indexVars>>,
           client' \in [Clients -> Calls],
           \A d \in Clients : \/ client'[d] = client[d]
                             \/ /\ client[d].pc = "invalidate" /\ client'[d].pc = "invalidate"
                                /\ client'[d].id = client[d].id
                                /\ client[d].failed \ {k} \subseteq client'[d].failed
                                /\ client[d].dels \ {k} \subseteq client'[d].dels
                                /\ client[d].adds \ {k} \subseteq client'[d].adds
    PROVE  QTypeOK' /\ CacheInv'
<1>1. store' = [store EXCEPT ![k] = Absent] /\ tainted' = tainted \ {k}
  BY DEF Drop
<1>2. store'[k] = Absent /\ \A j \in Keys \ {k} : store'[j] = store[j]
  BY <1>1 DEF QInv, QTypeOK
<1>3. QTypeOK'
  BY <1>1, <1>2 DEF QInv, QTypeOK
<1>4. GetAllRegisteredKeys' = GetAllRegisteredKeys
  BY DEF GetAllRegisteredKeys, indexVars
<1>5. ASSUME NEW j \in Keys
      PROVE  Accounted(j)' /\ Announced(j)'
  <2>1. CASE j = k
    BY <1>2, <2>1 DEF Accounted, Announced, Live
  <2>2. CASE j # k
    <3>1. store'[j] = store[j] /\ (j \notin tainted' => j \notin tainted)
      BY <1>1, <1>2, <2>2
    <3>2. ASSUME NEW d \in Clients, Owes(d, j)
          PROVE  Owes(d, j)'
      <4>1. CASE client'[d] = client[d]
        BY <3>1, <3>2, <4>1, SameCall
      <4>2. CASE client'[d] # client[d]
        <5>1. j \in client[d].failed \cup client[d].dels \/ (j \in client[d].adds /\ ~Listed(j, client[d].id))
          BY <3>2, <4>2 DEF Owes
        <5>2. \A i : Listed(j, i)' <=> Listed(j, i)
          BY <3>1 DEF Listed
        <5> QED
          BY <2>2, <4>2, <5>1, <5>2 DEF Owes
      <4> QED
        BY <4>1, <4>2
    <3>3. \A d \in Clients : Registers(d, j) => Registers(d, j)'
      BY SameCall DEF Registers
    <3>4. Accounted(j) /\ Announced(j)
      BY DEF QInv, CacheInv
    <3> QED
      BY <1>4, <3>1, <3>2, <3>3, <3>4, Carried
  <2> QED
    BY <2>1, <2>2
<1>6. ASSUME NEW d \in Clients
      PROVE  FreshRead(d)'
  <2>1. CASE client'[d] = client[d]
    BY <2>1, SameCall DEF QInv, CacheInv
  <2>2. CASE client'[d] # client[d]
    BY <2>2 DEF FreshRead, Reading
  <2> QED
    BY <2>1, <2>2
<1> QED
  BY <1>3, <1>5, <1>6 DEF CacheInv

\* An entry that expires is no longer there to be out of date.
LEMMA ExpireKept ==
    ASSUME QInv, NEW k \in Keys, Expire(k)
    PROVE  QTypeOK' /\ CacheInv'
<1>1. client' = client /\ client' \in [Clients -> Calls]
  BY DEF Expire, QInv, QTypeOK
<1>2. Drop(k) /\ UNCHANGED <<db, fresh, gc, indexVars>>
  BY DEF Expire
<1> QED
  BY <1>1, <1>2, DropStep

\* A client that deletes an entry has paid what it, or another, owed.
LEMMA DeleteKept ==
    ASSUME QInv, NEW c \in Clients, DeleteFailed(c) \/ DeleteKey(c)
    PROVE  QTypeOK' /\ CacheInv'
<1>1. client[c].pc = "invalidate" /\ client[c] \in InvalidateCall
  BY CallShape DEF DeleteFailed, DeleteKey, QInv
<1>2. PICK k \in Keys :
        /\ Drop(k)
        /\ \/ client' = [client EXCEPT ![c].failed = @ \ {k}]
           \/ client' = [client EXCEPT ![c].dels = @ \ {k}]
  BY <1>1 DEF DeleteFailed, DeleteKey, InvalidateCall
<1>3. UNCHANGED <<db, fresh, gc, indexVars>>
  BY DEF DeleteFailed, DeleteKey
<1>4. /\ client'[c] \in InvalidateCall /\ client'[c].id = client[c].id
      /\ client[c].failed \ {k} \subseteq client'[c].failed
      /\ client[c].dels \ {k} \subseteq client'[c].dels
      /\ client[c].adds \ {k} \subseteq client'[c].adds
  BY <1>1, <1>2, SMTT(60), Z3T(60) DEF InvalidateCall, QInv, QTypeOK
<1>5. /\ DOMAIN client' = Clients /\ client' = [d \in Clients |-> client'[d]]
      /\ \A d \in Clients \ {c} : client'[d] = client[d] /\ client'[d] \in Calls
  BY <1>2 DEF QInv, QTypeOK
<1>6. client'[c] \in Calls /\ client'[c].pc = "invalidate"
  BY <1>4 DEF Calls, InvalidateCall
<1>7. client' \in [Clients -> Calls]
  BY <1>5, <1>6
<1> QED
  BY <1>1, <1>2, <1>3, <1>4, <1>5, <1>6, <1>7, DropStep

\* A key that is passed over is tainted if it has an entry.
LEMMA PassOverKept ==
    ASSUME QInv, NEW c \in Clients, PassOver(c)
    PROVE  QTypeOK' /\ CacheInv'
<1>1. client[c].pc = "invalidate" /\ client[c] \in InvalidateCall
  BY CallShape DEF PassOver, QInv
<1>2. PICK k \in Keys :
        /\ client' = [client EXCEPT ![c].failed = @ \ {k}, ![c].adds = @ \ {k}, ![c].dels = @ \ {k}]
        /\ tainted' = IF store[k] # Absent THEN tainted \cup {k} ELSE tainted
  BY <1>1 DEF PassOver, InvalidateCall
<1>3. UNCHANGED <<db, fresh, store, gc, indexVars>>
  BY DEF PassOver
<1>4. client' = [d \in Clients |-> client'[d]] /\ \A d \in Clients \ {c} : client'[d] = client[d]
  BY <1>2 DEF QInv, QTypeOK
<1>5. /\ client'[c].pc = "invalidate" /\ client'[c].id = client[c].id
      /\ client'[c].failed = client[c].failed \ {k} /\ client'[c].adds = client[c].adds \ {k}
      /\ client'[c].dels = client[c].dels \ {k}
      /\ client'[c] \in InvalidateCall
  BY <1>1, <1>2 DEF InvalidateCall, QInv, QTypeOK
<1>6. QTypeOK'
  <2>1. client' \in [Clients -> Calls]
    <3>1. client'[c] \in Calls
      BY <1>5 DEF Calls
    <3>2. \A d \in Clients : client[d] \in Calls
      BY DEF QInv, QTypeOK
    <3> QED
      BY <1>4, <3>1, <3>2
  <2> QED
    BY <1>2, <1>3, <2>1 DEF QInv, QTypeOK
<1>7. GetAllRegisteredKeys' = GetAllRegisteredKeys
  BY <1>3 DEF GetAllRegisteredKeys, indexVars
<1>8. ASSUME NEW j \in Keys
      PROVE  Accounted(j)' /\ Announced(j)'
  <2>1. CASE j = k
    BY <1>2, <1>3, <2>1 DEF Accounted, Announced, Live
  <2>2. CASE j # k
    <3>1. ASSUME NEW d \in Clients, Owes(d, j)
          PROVE  Owes(d, j)'
      <4>1. CASE d = c
        <5>1. \A i : Listed(j, i)' <=> Listed(j, i)
          BY <1>3 DEF Listed
        <5> QED
          BY <1>1, <1>5, <2>2, <3>1, <4>1, <5>1 DEF Owes
      <4>2. CASE d # c
        BY <1>3, <1>4, <3>1, <4>2, SameCall
      <4> QED
        BY <4>1, <4>2
    <3>2. \A d \in Clients : Registers(d, j) => Registers(d, j)'
      BY <1>1, <1>4, SameCall DEF Registers
    <3>3. Accounted(j) /\ Announced(j)
      BY DEF QInv, CacheInv
    <3> QED
      BY <1>2, <1>3, <1>7, <3>1, <3>2, <3>3, Carried
  <2> QED
    BY <2>1, <2>2
<1>9. ASSUME NEW d \in Clients
      PROVE  FreshRead(d)'
  <2>1. CASE d = c
    BY <1>5, <2>1 DEF FreshRead, Reading
  <2>2. CASE d # c
    BY <1>3, <1>4, <2>2, SameCall DEF QInv, CacheInv
  <2> QED
    BY <2>1, <2>2
<1> QED
  BY <1>6, <1>8, <1>9 DEF CacheInv

\* A query's result is stored, tainted if a write has come since it was read; its key is
\* yet to be registered.
LEMMA SetKept ==
    ASSUME QInv, NEW c \in Clients, SetQueryIDs(c) \/ SetCount(c)
    PROVE  QTypeOK' /\ CacheInv'
<1> DEFINE q == client[c].q
           isList == client[c].pc = "setids"
<1>0. client[c].pc \in {"setids", "setcount"} /\ UNCHANGED <<db, fresh, gc, indexVars>>
  BY DEF SetQueryIDs, SetCount
<1>1. /\ isList => client[c] \in ListCall
      /\ ~isList => client[c] \in CountCall
  BY <1>0, CallShape DEF QInv
<1>2. q \in Queries /\ client[c].raced \in BOOLEAN
  BY <1>1 DEF ListCall, CountCall
<1>3. PICK k, pc :
        /\ k = IF isList THEN ListKey[q] ELSE CountKey[q]
        /\ pc = IF isList THEN "register" ELSE "registercount"
  OBVIOUS
<1>4. /\ store' = [store EXCEPT ![k] = client[c].result]
      /\ tainted' = Taint(k, client[c].raced)
      /\ client' = [client EXCEPT ![c].pc = pc]
  BY <1>0, <1>3 DEF SetQueryIDs, SetCount
<1>5. k \in Keys /\ k \in QueryKeys /\ (isListKey(k) <=> isList)
  BY <1>2, <1>3, QueryTyped
<1>6. client' = [d \in Clients |-> client'[d]] /\ \A d \in Clients \ {c} : client'[d] = client[d]
  BY <1>4 DEF QInv, QTypeOK
<1>7. /\ client'[c].pc = pc /\ client'[c].q = q /\ client'[c].raced = client[c].raced
      /\ client'[c].result = client[c].result
      /\ isList => client'[c] \in ListCall
      /\ ~isList => client'[c] \in CountCall
  <2>1. client'[c] = [client[c] EXCEPT !.pc = pc]
    BY <1>4 DEF QInv, QTypeOK
  <2> QED
    BY <1>1, <1>3, <2>1 DEF ListCall, CountCall
<1>8. store'[k] = client[c].result /\ \A j \in Keys \ {k} : store'[j] = store[j]
  BY <1>4, <1>5 DEF QInv, QTypeOK
<1>9. QTypeOK'
  <2>1. client' \in [Clients -> Calls]
    <3>1. client'[c] \in Calls
      BY <1>7 DEF Calls, ReadCall
    <3>2. \A d \in Clients : client[d] \in Calls
      BY DEF QInv, QTypeOK
    <3> QED
      BY <1>6, <3>1, <3>2
  <2>2. client[c].result \in IF isListKey(k) THEN Seq(Ids) ELSE Nat
    BY <1>1, <1>5 DEF ListCall, CountCall
  <2>3. /\ store' = [j \in Keys |-> store'[j]]
        /\ \A j \in Keys : store'[j] # Absent =>
             j \in QueryKeys /\ store'[j] \in IF isListKey(j) THEN Seq(Ids) ELSE Nat
    BY <1>4, <1>5, <1>8, <2>2 DEF QInv, QTypeOK
  <2>4. tainted' \in SUBSET Keys
    BY <1>4, <1>5 DEF Taint, QInv, QTypeOK
  <2> QED
    BY <1>0, <2>1, <2>3, <2>4 DEF QInv, QTypeOK
<1>10. GetAllRegisteredKeys' = GetAllRegisteredKeys
  BY <1>0 DEF GetAllRegisteredKeys, indexVars
<1>11. ASSUME NEW j \in Keys
       PROVE  Accounted(j)' /\ Announced(j)'
  <2>1. CASE j = k
    <3>1. Registers(c, j)'
      BY <1>3, <1>7, <2>1 DEF Registers
    <3>2. ASSUME ~client[c].raced
          PROVE  store'[j] = Result(j)'
      <4>1. client[c].result = Result(j)
        <5>1. FreshRead(c)
          BY DEF QInv, CacheInv
        <5> QED
          BY <1>0, <1>3, <1>5, <2>1, <3>2, <5>1 DEF FreshRead, Reading, Result
      <4> QED
        BY <1>0, <1>8, <2>1, <4>1, SameResults
    <3>3. client[c].raced => j \in tainted'
      BY <1>4, <2>1 DEF Taint
    <3> QED
      BY <3>1, <3>2, <3>3 DEF Accounted, Announced, Live
  <2>2. CASE j # k
    <3>1. \A d \in Clients : Owes(d, j) => Owes(d, j)'
      BY <1>0, <1>6, <1>8, <2>2, SameCall, NothingOwed
    <3>2. \A d \in Clients : Registers(d, j) => Registers(d, j)'
      BY <1>0, <1>6, SameCall DEF Registers
    <3>3. Accounted(j) /\ Announced(j)
      BY DEF QInv, CacheInv
    <3>4. j \notin tainted' => j \notin tainted
      BY <1>4, <2>2 DEF Taint
    <3> QED
      BY <1>0, <1>8, <1>10, <2>2, <3>1, <3>2, <3>3, <3>4, Carried
  <2> QED
    BY <2>1, <2>2
<1>12. ASSUME NEW d \in Clients
       PROVE  FreshRead(d)'
  <2>1. CASE d = c
    <3>1. FreshRead(c)
      BY DEF QInv, CacheInv
    <3> QED
      BY <1>0, <1>3, <1>7, <2>1, <3>1 DEF FreshRead, Reading, FetchIDs, View, GetCount
  <2>2. CASE d # c
    BY <1>0, <1>6, <2>2, SameCall DEF QInv, CacheInv
  <2> QED
    BY <2>1, <2>2
<1> QED
  BY <1>9, <1>11, <1>12 DEF CacheInv

\* The key of a stored result is registered. The count of a list below the limit is read
\* off the list.
LEMMA RegisterKept ==
    ASSUME QInv, NEW c \in Clients, RegisterList(c) \/ RegisterCount(c)
    PROVE  QTypeOK' /\ CacheInv'
<1> DEFINE q == client[c].q
           isList == client[c].pc = "register"
           n == Len(client[c].result)
           counted == [pc |-> "setcount", q |-> q, raced |-> client[c].raced, result |-> n]
<1>0. client[c].pc \in {"register", "registercount"} /\ UNCHANGED <<db, fresh, store, gc, tainted>>
  BY DEF RegisterList, RegisterCount
<1>1. /\ isList => client[c] \in ListCall
      /\ ~isList => client[c] \in CountCall
  BY <1>0, CallShape DEF QInv
<1>2. q \in Queries
  BY <1>1 DEF ListCall, CountCall
<1>3. PICK k : k = IF isList THEN ListKey[q] ELSE CountKey[q]
  OBVIOUS
<1>4. k \in Keys /\ k \in QueryKeys
  BY <1>2, <1>3, QueryTyped
<1>5. RegisterQuery(TableOf[k], k, ParamsOf[k])
  BY <1>0, <1>3 DEF RegisterList, RegisterCount
<1>6. GetAllRegisteredKeys' = GetAllRegisteredKeys \cup {k}
  <2>1. keyToParams' = [keyToParams EXCEPT ![k] = ParamsOf[k]] /\ ParamsOf[k] # NoParams
    BY <1>4, <1>5, ParamsOfAssumption, ParamsAssumption DEF RegisterQuery
  <2> QED
    BY <1>4, <2>1 DEF GetAllRegisteredKeys, QInv, TypeOK
<1>7. PICK call \in {Idle, counted} :
        /\ client' = [client EXCEPT ![c] = call]
        /\ call = counted => isList /\ n < cacheListCountLimit
  <2>1. CASE client[c].pc = "registercount"
    BY <2>1 DEF RegisterList, RegisterCount, Return, Idle
  <2>2. CASE isList /\ ~(n < cacheListCountLimit)
    BY <2>2 DEF RegisterList, RegisterCount, Return, Idle
  <2>3. CASE isList /\ n < cacheListCountLimit
    <3>1. client' = [client EXCEPT ![c].pc = "setcount", ![c].result = n]
      BY <2>3 DEF RegisterList, RegisterCount
    <3>2. client' = [client EXCEPT ![c] = counted]
      <4>1. client[c] = [x \in {"pc", "q", "raced", "result"} |-> client[c][x]]
        BY <1>1, <2>3 DEF ListCall
      <4>2. client = [d \in Clients |-> client[d]]
        BY DEF QInv, QTypeOK
      <4> DEFINE moved == [client[c] EXCEPT !.pc = "setcount"]
                 others == [client EXCEPT ![c] = moved]
      <4> HIDE DEF n
      <4>3. others[c] = moved /\ client' = [others EXCEPT ![c] = [others[c] EXCEPT !.result = n]]
        BY <3>1, <4>2
      <4>4. moved = [x \in {"pc", "q", "raced", "result"} |->
                       IF x = "pc" THEN "setcount" ELSE client[c][x]]
        BY <4>1
      <4>5. [moved EXCEPT !.result = n] = counted
        <5> HIDE DEF moved
        <5>1. [moved EXCEPT !.result = n] = [x \in {"pc", "q", "raced", "result"} |->
                 IF x = "result" THEN n ELSE IF x = "pc" THEN "setcount" ELSE client[c][x]]
          BY <4>4
        <5> QED
          BY <5>1, SMTT(60), Z3T(60)
      <4> HIDE DEF moved, counted
      <4> QED
        BY <4>2, <4>3, <4>5
    <3> QED
      BY <2>3, <3>2
  <2> QED
    BY <1>0, <2>1, <2>2, <2>3
<1>8. /\ client' = [d \in Clients |-> client'[d]] /\ \A d \in Clients \ {c} : client'[d] = client[d]
      /\ client'[c] = call
  BY <1>7 DEF QInv, QTypeOK
<1>9. call \in Calls
  <2>1. Idle \in Calls
    BY DEF Idle, Calls, IdleCall
  <2>2. ASSUME isList
        PROVE  counted \in Calls
    <3>1. n \in Nat /\ client[c].raced \in BOOLEAN
      BY <1>1, <2>2, SMTT(60), Z3T(60) DEF ListCall
    <3>2. counted \in CountCall
      BY <1>2, <3>1 DEF CountCall
    <3> QED
      BY <3>2 DEF Calls, ReadCall
  <2> QED
    BY <1>7, <2>1, <2>2
<1>10. QTypeOK'
  BY <1>0, <1>7, <1>9, ClientTyped DEF QInv
<1>11. ASSUME NEW j \in Keys
       PROVE  Accounted(j)' /\ Announced(j)'
  <2>1. \A d \in Clients : Owes(d, j) => Owes(d, j)'
    BY <1>0, <1>8, SameCall, NothingOwed
  <2>2. \A d \in Clients : Registers(d, j) => Registers(d, j)' \/ j \in GetAllRegisteredKeys'
    BY <1>0, <1>3, <1>6, <1>8, SameCall DEF Registers
  <2>3. Accounted(j) /\ Announced(j)
    BY DEF QInv, CacheInv
  <2> QED
    BY <1>0, <1>6, <2>1, <2>2, <2>3, Carried
<1>12. ASSUME NEW d \in Clients
       PROVE  FreshRead(d)'
  <2>1. CASE d = c /\ call = counted
    <3>1. FreshRead(c) /\ db \in Table
      BY DEF QInv, CacheInv, QTypeOK, Table
    <3>2. ASSUME ~client[c].raced
          PROVE  n = GetCount(db, ParamsOf[CountKey[q]])
      <4>1. client[c].result = FetchIDs(db, ListKey[q], ParamsOf[ListKey[q]])
        BY <1>7, <2>1, <3>1, <3>2 DEF FreshRead, Reading
      <4> QED
        BY <1>2, <1>7, <2>1, <3>1, <4>1, FetchCount
    <3> HIDE DEF n
    <3> QED
      BY <1>0, <1>8, <2>1, <3>2, SMTT(60), Z3T(60) DEF FreshRead, Reading, GetCount
  <2>2. CASE d = c /\ call = Idle
    BY <1>8, <2>2, SMTT(60), Z3T(60) DEF FreshRead, Reading, Idle
  <2>3. CASE d # c
    BY <1>0, <1>8, <2>3, SameCall DEF QInv, CacheInv
  <2> QED
    BY <1>7, <2>1, <2>2, <2>3
<1> QED
  BY <1>10, <1>11, <1>12 DEF CacheInv

-----------------------------------------------------------------------------
(* The cleanup and the restart.                                            *)

\* The cleanup takes only keys without an entry, or with an entry known as a race, out
\* of the index.
LEMMA CleanupKept ==
    ASSUME QInv, Cleanup
    PROVE  QTypeOK' /\ CacheInv'
<1>0. UNCHANGED <<db, fresh, store, client>>
  BY DEF Cleanup, CleanupStart, CleanupLoad, CleanupDeregister
<1>1. gc' \in [keys : SUBSET Keys, missing : Keys \cup {Absent}]
  <2>1. CASE CleanupStart
    BY <2>1 DEF CleanupStart, GetAllRegisteredKeys, QInv, QTypeOK
  <2>2. CASE CleanupLoad
    BY <2>2, SMTT(60), Z3T(60) DEF CleanupLoad, QInv, QTypeOK
  <2>3. CASE CleanupDeregister
    BY <2>3 DEF CleanupDeregister, QInv, QTypeOK
  <2> QED
    BY <2>1, <2>2, <2>3 DEF Cleanup
<1>2. /\ tainted' \in SUBSET Keys
      /\ \A j \in Keys : j \notin tainted' => j \notin tainted
      /\ \A j \in Keys : Live(j)' /\ j \in GetAllRegisteredKeys => j \in GetAllRegisteredKeys'
  <2>1. CASE CleanupStart \/ CleanupLoad
    <3>1. tainted' = tainted /\ GetAllRegisteredKeys' = GetAllRegisteredKeys
      BY <2>1 DEF CleanupStart, CleanupLoad, indexVars, GetAllRegisteredKeys
    <3> QED
      BY <3>1 DEF QInv, QTypeOK
  <2>2. CASE CleanupDeregister
    <3>1. PICK k \in Keys : k = gc.missing
      BY <2>2 DEF CleanupDeregister, QInv, QTypeOK
    <3>2. /\ tainted' = IF store[k] # Absent THEN tainted \cup {k} ELSE tainted
          /\ keyToParams' = [keyToParams EXCEPT ![k] = NoParams]
      BY <2>2, <3>1 DEF CleanupDeregister, DeregisterQuery
    <3>3. GetAllRegisteredKeys' = GetAllRegisteredKeys \ {k}
      BY <3>2 DEF GetAllRegisteredKeys, QInv, TypeOK
    <3>4. ~Live(k)'
      BY <1>0, <3>2 DEF Live
    <3>5. tainted' \in SUBSET Keys /\ \A j \in Keys : j \notin tainted' => j \notin tainted
      BY <3>1, <3>2 DEF QInv, QTypeOK
    <3> QED
      BY <3>3, <3>4, <3>5
  <2> QED
    BY <2>1, <2>2 DEF Cleanup
<1>3. QTypeOK'
  BY <1>0, <1>1, <1>2 DEF QInv, QTypeOK
<1>4. ASSUME NEW j \in Keys, Live(j)'
      PROVE  Accounted(j)' /\ Announced(j)'
  <2>1. \A d \in Clients : (Owes(d, j) => Owes(d, j)') /\ (Registers(d, j) => Registers(d, j)')
    BY <1>0, SameCall
  <2>2. Accounted(j) /\ Announced(j)
    BY DEF QInv, CacheInv
  <2> QED
    BY <1>0, <1>2, <1>4, <2>1, <2>2, Carried
<1>5. ASSUME NEW j \in Keys, ~Live(j)'
      PROVE  Accounted(j)' /\ Announced(j)'
  BY <1>5 DEF Accounted, Announced
<1>6. ASSUME NEW d \in Clients
      PROVE  FreshRead(d)'
  BY <1>0, SameCall DEF QInv, CacheInv
<1> QED
  BY <1>3, <1>4, <1>5, <1>6 DEF CacheInv

\* After a restart what is left of the entries is a known case.
LEMMA RestartKept ==
    ASSUME QInv, Restart
    PROVE  QTypeOK' /\ CacheInv'
<1>1. /\ client' = [c \in Clients |-> Idle] /\ UNCHANGED <<db, fresh>>
      /\ gc' = [keys |-> {}, missing |-> Absent]
      /\ store' = [k \in Keys |-> Absent] \/ store' = store
      /\ tainted' = {k \in Keys : store'[k] # Absent}
  BY DEF Restart
<1>2. Idle \in Calls
  BY DEF Idle, Calls, IdleCall
<1>3. QTypeOK'
  BY <1>1, <1>2 DEF QInv, QTypeOK
<1>4. \A k \in Keys : ~Live(k)'
  BY <1>1 DEF Live
<1>5. \A c \in Clients : FreshRead(c)'
  BY <1>1 DEF FreshRead, Reading, Idle
<1> QED
  BY <1>3, <1>4, <1>5 DEF CacheInv, Accounted, Announced

-----------------------------------------------------------------------------
(* The writes.                                                             *)

\* A write races with the queries under way and taints what is not registered yet. It
\* keeps the invariant if it owes every entry whose query's result it changes.
LEMMA WriteStep ==
    ASSUME QInv, NEW c \in Clients, NEW i \in Ids, NEW row \in Row \cup {Absent},
           NEW misled \in BOOLEAN, NEW next \in Calls, Write(c, i, row, misled, next),
           UNCHANGED <<store, gc, indexVars>>,
           client[c].pc \in {"idle", "exec"}, next.pc \notin Reading,
           fresh' \subseteq {j \in Ids : db'[j] = Absent},
           ~misled => \A k \in GetAllRegisteredKeys :
               (/\ Live(k) /\ store[k] = ResultIn(db, k)
                /\ ResultIn([db EXCEPT ![i] = row], k) # ResultIn(db, k))
               => Owes(c, k)'
    PROVE  QTypeOK' /\ CacheInv'
<1> DEFINE raced == {d \in Clients : client[d].pc \in Reading}
           unregistered == {ListKey[client[d].q] : d \in {e \in raced : client[e].pc = "register"}}
                           \cup {CountKey[client[d].q] : d \in {e \in raced : client[e].pc = "registercount"}}
<1>1. /\ db' = [db EXCEPT ![i] = row]
      /\ client' = [d \in Clients |->
             IF d = c THEN next
             ELSE IF d \in raced THEN [client[d] EXCEPT !.raced = TRUE] ELSE client[d]]
      /\ tainted' = IF misled THEN Keys ELSE tainted \cup unregistered
  BY DEF Write
<1>2. client'[c] = next /\ c \notin raced
  BY <1>1 DEF Reading
<1>3. ASSUME NEW d \in Clients \ {c}, client[d].pc \notin Reading
      PROVE  client'[d] = client[d] /\ client'[d] \in Calls
  BY <1>1, <1>3 DEF QInv, QTypeOK
<1>4. ASSUME NEW d \in Clients, client[d].pc \in Reading
      PROVE  /\ client'[d] \in ReadCall /\ client'[d].pc = client[d].pc
             /\ client'[d].q = client[d].q /\ client'[d].raced
  <2>1. client'[d] = [client[d] EXCEPT !.raced = TRUE]
    BY <1>1, <1>2, <1>4
  <2>2. client[d] \in ReadCall
    BY <1>4, CallShape DEF QInv, Reading, ReadCall
  <2> QED
    BY <2>1, <2>2 DEF ReadCall, ListCall, CountCall
<1>5. client' \in [Clients -> Calls]
  <2>1. ASSUME NEW d \in Clients
        PROVE  client'[d] \in Calls
    BY <1>2, <1>3, <1>4 DEF Calls
  <2>2. client' = [d \in Clients |-> client'[d]]
    BY <1>1
  <2> QED
    BY <2>1, <2>2
<1>6. unregistered \subseteq Keys
  <2>1. \A d \in raced : client[d].q \in Queries
    BY CallShape DEF QInv, Reading, ListCall, CountCall
  <2>2. \A q \in Queries : ListKey[q] \in Keys /\ CountKey[q] \in Keys
    BY QueryTyped
  <2> QED
    BY <2>1, <2>2
<1>7. QTypeOK'
  <2> HIDE DEF unregistered
  <2>1. db' \in [Ids -> Row \cup {Absent}]
    BY <1>1 DEF QInv, QTypeOK
  <2>2. tainted' \in SUBSET Keys
    BY <1>1, <1>6 DEF QInv, QTypeOK
  <2> QED
    BY <1>5, <2>1, <2>2 DEF QInv, QTypeOK
<1>8. GetAllRegisteredKeys' = GetAllRegisteredKeys
  BY DEF GetAllRegisteredKeys, indexVars
<1>9. ASSUME NEW k \in Keys, Live(k)'
      PROVE  ~misled /\ Live(k) /\ k \in GetAllRegisteredKeys
  <2>1. ~misled /\ k \notin tainted /\ k \notin unregistered
    BY <1>1, <1>9 DEF Live
  <2>2. Live(k)
    BY <1>9, <2>1 DEF Live
  <2>3. \A d \in Clients : ~Registers(d, k)
    BY <2>1 DEF Registers, Reading
  <2>4. Announced(k)
    BY DEF QInv, CacheInv
  <2> QED
    BY <2>1, <2>2, <2>3, <2>4 DEF Announced
<1> HIDE DEF unregistered, raced
<1>10. ASSUME NEW k \in Keys
       PROVE  Accounted(k)' /\ Announced(k)'
  <2>1. Announced(k)'
    BY <1>8, <1>9 DEF Announced
  <2> SUFFICES ASSUME Live(k)', store'[k] # Result(k)'
               PROVE  \E d \in Clients : Owes(d, k)'
    BY <1>8, <1>9, <2>1 DEF Accounted
  <2>2. ~misled /\ Live(k) /\ k \in GetAllRegisteredKeys
    BY <1>9
  <2>3. Result(k) = ResultIn(db, k) /\ Result(k)' = ResultIn([db EXCEPT ![i] = row], k)
    <3>1. Result(k)' = ResultIn(db', k)
      BY DEF Result, ResultIn, FetchIDs, View, GetCount
    <3> QED
      BY <1>1, <3>1 DEF Result, ResultIn
  <2>4. CASE store[k] = Result(k)
    BY <2>2, <2>3, <2>4
  <2>5. CASE store[k] # Result(k)
    <3>1. PICK d \in Clients : Owes(d, k)
      BY <2>2, <2>5 DEF QInv, CacheInv, Accounted
    <3>2. d # c /\ client[d].pc \notin Reading
      BY <3>1 DEF Owes, Reading
    <3>3. client'[d] = client[d]
      BY <1>3, <3>2
    <3> QED
      BY <3>1, <3>3, SameCall
  <2> QED
    BY <2>4, <2>5
<1>11. ASSUME NEW d \in Clients
       PROVE  FreshRead(d)'
  BY <1>2, <1>3, <1>4 DEF FreshRead
<1> QED
  BY <1>7, <1>10, <1>11 DEF CacheInv

\* A write owes an entry whose query's result it changes, if what it takes for the change
\* affects the query and the row, if it was outside the result, is not in the list.
LEMMA WriteOwes ==
    ASSUME QTypeOK, NEW c \in Clients, NEW k \in QueryKeys, store[k] = ResultIn(db, k),
           store' = store, client'[c].pc = "context", client'[c].id \in Ids,
           Affects(k, client'[c].op, client'[c].old, client'[c].new),
           client'[c].op = "create" => db[client'[c].id] = Absent,
           client'[c].op = "update" => db[client'[c].id] = client'[c].old
    PROVE  Owes(c, k)'
<1>1. PICK i \in Ids : i = client'[c].id
  OBVIOUS
<1>2. (client'[c].op = "create" \/ (client'[c].op = "update" /\ NotInResult(ParamsOf[k], client'[c].old)))
        => ~Listed(k, i)
  BY <1>1, OutsideNotListed
<1>3. Listed(k, i)' <=> Listed(k, i)
  BY DEF Listed
<1> QED
  BY <1>1, <1>2, <1>3 DEF Owes, Listed

\* The INSERT changes the results that show the new row, and its client owes them.
LEMMA SaveNewKept ==
    ASSUME QInv, NEW c \in Clients, NEW i \in Ids, NEW value \in Row, SaveNew(c, i, value)
    PROVE  QTypeOK' /\ CacheInv'
<1> DEFINE next == [pc |-> "context", op |-> "create", id |-> i, old |-> value, new |-> value]
<1>1. /\ client[c].pc = "idle" /\ i \in fresh /\ fresh' = fresh \ {i}
      /\ Write(c, i, value, FALSE, next) /\ UNCHANGED <<store, gc, indexVars>>
  BY DEF SaveNew
<1>2. next \in SaveCall /\ next.pc \notin Reading
  BY DEF SaveCall, Reading
<1>3. next \in Calls
  BY <1>2 DEF Calls
<1>4. db[i] = Absent /\ db' = [db EXCEPT ![i] = value] /\ client'[c] = next
  BY <1>1 DEF QInv, QTypeOK, Write
<1>n. /\ next.pc = "context" /\ next.op = "create" /\ next.id = i
      /\ next.old = value /\ next.new = value
  BY PendingFields
<1>5. fresh' \subseteq {j \in Ids : db'[j] = Absent}
  <2>1. fresh \subseteq {j \in Ids : db[j] = Absent} /\ db \in [Ids -> Row \cup {Absent}]
    BY DEF QInv, QTypeOK
  <2> QED
    BY <1>1, <1>4, <2>1
<1>6. ASSUME NEW k \in GetAllRegisteredKeys, Live(k), store[k] = ResultIn(db, k),
             ResultIn([db EXCEPT ![i] = value], k) # ResultIn(db, k)
      PROVE  Owes(c, k)'
  <2>1. k \in QueryKeys /\ QTypeOK /\ db \in Table
    BY <1>6, LiveWatched DEF QInv, QTypeOK, Table
  <2>2. ~NotInResult(ParamsOf[k], value)
    BY <1>4, <1>6, <2>1, RowOutside
  <2>3. Affects(k, client'[c].op, client'[c].old, client'[c].new)
    <3> HIDE DEF next
    <3>1. client'[c].op = "create" /\ client'[c].old = value /\ client'[c].new = value
      BY <1>4, <1>n
    <3> QED
      BY <2>2, <3>1 DEF Affects
  <2> HIDE DEF next
  <2>4. client'[c].pc = "context" /\ client'[c].id = i /\ client'[c].op = "create"
    BY <1>4, <1>n
  <2>5. store' = store
    BY <1>1
  <2> QED
    BY <1>4, <1>6, <2>1, <2>3, <2>4, <2>5, WriteOwes
<1> HIDE DEF next
<1> QED
  BY <1>1, <1>2, <1>3, <1>5, <1>6, WriteStep

\* After a bulk write its client owes every entry of the table.
LEMMA RawWriteKept ==
    ASSUME QInv, NEW c \in Clients, NEW i \in Ids, NEW row \in Row \cup {Absent},
           RawWrite(c, i, row)
    PROVE  QTypeOK' /\ CacheInv'
<1> DEFINE next == [pc |-> "tablekeys", id |-> i]
<1>1. /\ client[c].pc = "idle" /\ db[i] # Absent
      /\ Write(c, i, row, FALSE, next) /\ UNCHANGED <<fresh, store, gc, indexVars>>
  BY DEF RawWrite
<1>2. next \in Calls /\ next.pc \notin Reading
  BY DEF Calls, BulkCall, Reading
<1>3. db' = [db EXCEPT ![i] = row] /\ client'[c] = next
  BY <1>1 DEF Write
<1>4. fresh' \subseteq {j \in Ids : db'[j] = Absent}
  BY <1>1, <1>3 DEF QInv, QTypeOK
<1>5. \A k : Owes(c, k)'
  BY <1>3, PendingFields DEF Owes
<1> HIDE DEF next
<1> QED
  BY <1>1, <1>2, <1>4, <1>5, WriteStep

\* A client that goes from the SQL statement to the invalidation keeps what it knows.
LEMMA ExecNext ==
    ASSUME QTypeOK, NEW c \in Clients, client[c].pc = "exec"
    PROVE  LET next == [client[c] EXCEPT !.pc = "context"]
           IN  /\ next \in Calls /\ next.pc = "context" /\ next.op = client[c].op
               /\ next.id = client[c].id /\ next.old = client[c].old /\ next.new = client[c].new
               /\ client[c].id \in Ids /\ client[c].old \in Row /\ client[c].new \in Row
               /\ client[c].op # "update" => client[c].old = client[c].new
<1>1. client[c] \in SaveCall
  BY CallShape
<1>2. [client[c] EXCEPT !.pc = "context"] \in SaveCall
  BY <1>1 DEF SaveCall
<1>3. [client[c] EXCEPT !.pc = "context"] \in Calls
  BY <1>2 DEF Calls
<1> QED
  BY <1>1, <1>3 DEF SaveCall

\* The DELETE changes the results that showed the row, and its client owes them.
LEMMA ExecDeleteKept ==
    ASSUME QInv, NEW c \in Clients, ExecDelete(c)
    PROVE  QTypeOK' /\ CacheInv'
<1> DEFINE next == [client[c] EXCEPT !.pc = "context"]
<1>0. QTypeOK /\ client[c].pc = "exec" /\ client[c].op = "delete"
  BY DEF QInv, ExecDelete
<1>1. PICK i \in Ids, misled \in BOOLEAN :
        /\ i = client[c].id /\ misled = (client[c].old # db[i]) /\ db[i] # Absent
        /\ Write(c, i, Absent, misled, next)
  BY <1>0, ExecNext DEF ExecDelete
<1>2. UNCHANGED <<fresh, store, gc, indexVars>>
  BY DEF ExecDelete
<1>3. /\ next \in Calls /\ next.pc = "context" /\ next.op = "delete" /\ next.id = i
      /\ next.old = client[c].old /\ next.new = client[c].new /\ next.old \in Row
  BY <1>0, <1>1, ExecNext
<1> HIDE DEF next
<1>4. db' = [db EXCEPT ![i] = Absent] /\ client'[c] = next
  BY <1>1 DEF Write
<1>5. fresh' \subseteq {j \in Ids : db'[j] = Absent}
  BY <1>1, <1>2, <1>4 DEF QInv, QTypeOK
<1>6. ASSUME ~misled, NEW k \in GetAllRegisteredKeys, Live(k), store[k] = ResultIn(db, k),
             ResultIn([db EXCEPT ![i] = Absent], k) # ResultIn(db, k)
      PROVE  Owes(c, k)'
  <2>1. k \in QueryKeys /\ db \in Table
    BY <1>6, LiveWatched DEF QInv, QTypeOK, Table
  <2>2. ~NotInResult(ParamsOf[k], next.old)
    BY <1>1, <1>3, <1>6, <2>1, RowOutside
  <2>3. next.old = next.new
    BY <1>0, <1>3, ExecNext
  <2>4. Affects(k, client'[c].op, client'[c].old, client'[c].new)
    BY <1>3, <1>4, <2>2, <2>3 DEF Affects
  <2> QED
    BY <1>0, <1>2, <1>3, <1>4, <1>6, <2>1, <2>4, WriteOwes
<1>7. next.pc \notin Reading
  BY <1>3 DEF Reading
<1> QED
  BY <1>0, <1>1, <1>2, <1>3, <1>5, <1>6, <1>7, WriteStep

\* The UPDATE changes the results that tell the two versions of the row apart, and its
\* client owes them.
LEMMA ExecUpdateKept ==
    ASSUME QInv, NEW c \in Clients, ExecUpdate(c)
    PROVE  QTypeOK' /\ CacheInv'
<1> DEFINE next == [client[c] EXCEPT !.pc = "context"]
           new == client[c].new
           old == client[c].old
<1>0. QTypeOK /\ client[c].pc = "exec" /\ client[c].op = "update"
  BY DEF QInv, ExecUpdate
<1> DEFINE written(i) ==
             IF db[i] = Absent THEN Absent
             ELSE [col \in Columns |->
                     IF col \in changedModelColumns(new, old) THEN new[col] ELSE db[i][col]]
<1>a. PICK i \in Ids, misled \in BOOLEAN :
        /\ i = client[c].id /\ misled = (old # db[i] \/ IsRestore(old, new))
        /\ Write(c, i, written(i), misled, next)
  BY <1>0, ExecNext DEF ExecUpdate
<1>1. PICK row :
        /\ i = client[c].id /\ misled = (old # db[i] \/ IsRestore(old, new))
        /\ row = IF db[i] = Absent THEN Absent
                 ELSE [col \in Columns |->
                         IF col \in changedModelColumns(new, old) THEN new[col] ELSE db[i][col]]
        /\ Write(c, i, row, misled, next)
  BY <1>a
<1>2. UNCHANGED <<fresh, store, gc, indexVars>>
  BY DEF ExecUpdate
<1>3. /\ next \in Calls /\ next.pc = "context" /\ next.op = "update" /\ next.id = i
      /\ next.old = old /\ next.new = new /\ old \in Row /\ new \in Row
  BY <1>0, <1>1, ExecNext
<1> HIDE DEF next
<1>4. row \in Row \cup {Absent}
  BY <1>0, <1>1, <1>3 DEF QTypeOK, Row
<1>5. db' = [db EXCEPT ![i] = row] /\ client'[c] = next
  BY <1>1 DEF Write
<1>6. fresh' \subseteq {j \in Ids : db'[j] = Absent}
  BY <1>0, <1>1, <1>2, <1>5 DEF QTypeOK
<1>7. ASSUME ~misled, NEW k \in GetAllRegisteredKeys, Live(k), store[k] = ResultIn(db, k),
             ResultIn([db EXCEPT ![i] = row], k) # ResultIn(db, k)
      PROVE  Owes(c, k)'
  <2>1. k \in QueryKeys /\ db \in Table
    BY <1>7, LiveWatched DEF QInv, QTypeOK, Table
  <2>2. old = db[i] /\ ~IsRestore(old, new) /\ db[i] # Absent
    BY <1>1, <1>3, <1>7, QueryCacheAssumption
  <2>3. row \in Row /\ Agree(row, new, Tracked)
    BY <1>1, <1>3, <2>2, KeysAssumption DEF Row, Agree, changedModelColumns
  <2>4. ParamsOf[k].where = "unparsed" \/ ~SameResult(k, ParamsOf[k], old, new)
    BY <1>3, <1>7, <2>1, <2>2, <2>3, RowUpdated
  <2>5. Affects(k, client'[c].op, client'[c].old, client'[c].new)
    BY <1>3, <1>5, <2>2, <2>4 DEF Affects
  <2> QED
    BY <1>0, <1>2, <1>3, <1>5, <1>7, <2>1, <2>2, <2>5, WriteOwes
<1>8. next.pc \notin Reading
  BY <1>3 DEF Reading
<1> QED
  BY <1>0, <1>1, <1>2, <1>3, <1>4, <1>6, <1>7, <1>8, WriteStep

-----------------------------------------------------------------------------
(* The index under the query caches.                                       *)

\* The query caches register, deregister and reset keys as KeyedNext does.
LEMMA IndexStep ==
    ASSUME QInv, [QNext]_vars
    PROVE  [KeyedNext]_indexVars
<1>1. CASE UNCHANGED vars
  BY <1>1 DEF vars
<1>2. ASSUME NEW c \in Clients, Call(c)
      PROVE  UNCHANGED indexVars
  BY <1>2 DEF Call, FetchMiss, CountMiss, Delete, RawWrite, SaveNew, SaveExisting
<1>3. ASSUME NEW c \in Clients, Step(c), ~RegisterList(c), ~RegisterCount(c)
      PROVE  UNCHANGED indexVars
  BY <1>3 DEF Step, SelectIDs, QueryFails, SetQueryIDs, DeriveCount, CountRows, SetCount,
       ExecUpdate, ExecDelete, ExecNothing, Context, DeleteFailed, ReadList, DeleteKey, PassOver,
       InvalidateDone, InvalidateQueryCaches
<1>4. ASSUME NEW c \in Clients, RegisterList(c) \/ RegisterCount(c)
      PROVE  RegisterOwn
  <2>1. client[c].q \in Queries
    BY <1>4, CallShape DEF RegisterList, RegisterCount, Reading, QInv, ReadCall, ListCall, CountCall
  <2> QED
    BY <1>4, <2>1, QueryTyped DEF RegisterList, RegisterCount, RegisterOwn
<1>5. ASSUME NEW k \in Keys, Expire(k)
      PROVE  UNCHANGED indexVars
  BY <1>5 DEF Expire
<1>6. ASSUME Cleanup
      PROVE  UNCHANGED indexVars \/ Deregister
  <2>1. gc.missing # Absent => gc.missing \in Keys
    BY DEF QInv, QTypeOK
  <2> QED
    BY <1>6, <2>1 DEF Cleanup, CleanupStart, CleanupLoad, CleanupDeregister, Deregister
<1>7. ASSUME Restart
      PROVE  ResetGlobalCacheIndex
  BY <1>7 DEF Restart
<1> QED
  BY <1>1, <1>2, <1>3, <1>4, <1>5, <1>6, <1>7 DEF QNext, KeyedNext

\* A key is registered with its own parameters only.
LEMMA OwnParamsKept ==
    ASSUME TypeOK, OwnParams, [KeyedNext]_indexVars
    PROVE  OwnParams'
<1>1. CASE RegisterOwn
  <2>1. PICK k \in Keys : keyToParams' = [keyToParams EXCEPT ![k] = ParamsOf[k]]
    BY <1>1 DEF RegisterOwn, RegisterQuery
  <2>2. keyToParams \in [Keys -> Params \cup {NoParams}]
    BY DEF TypeOK
  <2>3. \A j \in Keys : keyToParams'[j] = IF j = k THEN ParamsOf[k] ELSE keyToParams[j]
    BY <2>1, <2>2
  <2> QED
    BY <2>3 DEF OwnParams, GetAllRegisteredKeys
<1>2. CASE Deregister
  BY <1>2 DEF Deregister, DeregisterQuery, OwnParams, GetAllRegisteredKeys, TypeOK
<1>3. CASE ResetGlobalCacheIndex
  BY <1>3 DEF ResetGlobalCacheIndex, OwnParams, GetAllRegisteredKeys
<1>4. CASE UNCHANGED indexVars
  BY <1>4 DEF indexVars, OwnParams, GetAllRegisteredKeys
<1> QED
  BY <1>1, <1>2, <1>3, <1>4 DEF KeyedNext

-----------------------------------------------------------------------------
(* The cached lists and counts.                                            *)

\* A step that changes nothing.
LEMMA StutterKept ==
    ASSUME QInv, UNCHANGED <<db, fresh, store, client, gc, tainted, indexVars>>
    PROVE  QTypeOK' /\ CacheInv'
<1>1. GetAllRegisteredKeys' = GetAllRegisteredKeys
  BY DEF indexVars, GetAllRegisteredKeys
<1>2. QTypeOK'
  BY DEF QInv, QTypeOK
<1>3. CacheInv'
  <2>1. \A c \in Clients : FreshRead(c)'
    BY SameCall DEF QInv, CacheInv
  <2>2. ASSUME NEW k \in Keys
        PROVE  Accounted(k)' /\ Announced(k)'
    <3>1. \A d \in Clients : (Owes(d, k) => Owes(d, k)') /\ (Registers(d, k) => Registers(d, k)')
      BY SameCall
    <3>2. Accounted(k) /\ Announced(k)
      BY DEF QInv, CacheInv
    <3> QED
      BY <1>1, <3>1, <3>2, Carried
  <2> QED
    BY <2>1, <2>2 DEF CacheInv
<1> QED
  BY <1>2, <1>3

\* The invariant holds when the process starts with an empty cache.
LEMMA QInvInit == QInit => QInv
<1> SUFFICES ASSUME QInit PROVE QInv
  OBVIOUS
<1>1. TypeOK /\ IndexCovers /\ OwnParams
  BY DEF QInit, Init, NewCacheIndex, TypeOK, IndexCovers, OwnParams, GetAllRegisteredKeys
<1>2. db \in [Ids -> Row \cup {Absent}] /\ fresh \subseteq {i \in Ids : db[i] = Absent}
  BY DEF QInit
<1>3. \A c \in Clients : client[c] = Idle /\ client[c].pc \notin Reading
  BY DEF QInit, Idle, Reading
<1>4. client \in [Clients -> Calls]
  BY DEF QInit, Idle, Calls, IdleCall
<1>5. /\ store = [k \in Keys |-> store[k]] /\ \A k \in Keys : store[k] = Absent
      /\ gc \in [keys : SUBSET Keys, missing : Keys \cup {Absent}] /\ tainted \in SUBSET Keys
  BY DEF QInit
<1>6. QTypeOK
  BY <1>2, <1>4, <1>5 DEF QTypeOK
<1>7. CacheInv
  BY <1>3, <1>5 DEF CacheInv, Accounted, Announced, Live, FreshRead
<1> QED
  BY <1>1, <1>6, <1>7 DEF QInv

\* Every step of a client, of the cache and of the process keeps it.
LEMMA QInvKept == QInv /\ [QNext]_vars => QInv'
<1> SUFFICES ASSUME QInv, [QNext]_vars PROVE QInv'
  OBVIOUS
<1>1. [KeyedNext]_indexVars
  BY IndexStep
<1>2. [Next]_indexVars
  BY <1>1, ParamsOfAssumption DEF KeyedNext, RegisterOwn, Next, Register
<1>3. TypeOK' /\ IndexCovers' /\ OwnParams'
  BY <1>1, <1>2, TypeKept, CoversKept, OwnParamsKept DEF QInv
<1>4. ASSUME NEW c \in Clients, Call(c)
      PROVE  QTypeOK' /\ CacheInv'
  <2>1. ASSUME NEW q \in Queries, FetchMiss(c, q) \/ CountMiss(c, q)
        PROVE  QTypeOK' /\ CacheInv'
    BY <2>1, MissKept
  <2>2. ASSUME NEW i \in Ids, NEW value \in Row, SaveNew(c, i, value)
        PROVE  QTypeOK' /\ CacheInv'
    BY <2>2, SaveNewKept
  <2>3. ASSUME NEW i \in Ids, NEW value \in Row, SaveExisting(c, i, value)
        PROVE  QTypeOK' /\ CacheInv'
    BY <2>3, BeginKept
  <2>4. ASSUME NEW i \in Ids, Delete(c, i)
        PROVE  QTypeOK' /\ CacheInv'
    <3>1. db[i] \in Row
      BY <2>4 DEF QInv, QTypeOK, Delete
    <3> QED
      BY <2>4, <3>1, BeginKept
  <2>5. ASSUME NEW i \in Ids, NEW row \in Row \cup {Absent}, RawWrite(c, i, row)
        PROVE  QTypeOK' /\ CacheInv'
    BY <2>5, RawWriteKept
  <2> QED
    BY <1>4, <2>1, <2>2, <2>3, <2>4, <2>5 DEF Call
<1>5. ASSUME NEW c \in Clients, Step(c)
      PROVE  QTypeOK' /\ CacheInv'
  BY <1>5, SelectKept, GiveUpKept, SetKept, RegisterKept, DeriveKept, CountRowsKept,
     ExecUpdateKept, ExecDeleteKept, ContextKept, DeleteKept, ReadListKept, PassOverKept,
     InvalidateDoneKept, InvalidateQueryCachesKept DEF Step
<1>6. ASSUME NEW k \in Keys, Expire(k)
      PROVE  QTypeOK' /\ CacheInv'
  BY <1>6, ExpireKept
<1>7. ASSUME UNCHANGED vars
      PROVE  QTypeOK' /\ CacheInv'
  BY <1>7, StutterKept DEF vars
<1>8. ASSUME Cleanup
      PROVE  QTypeOK' /\ CacheInv'
  BY <1>8, CleanupKept
<1>9. ASSUME Restart
      PROVE  QTypeOK' /\ CacheInv'
  BY <1>9, RestartKept
<1>10. QTypeOK' /\ CacheInv'
  BY <1>4, <1>5, <1>6, <1>7, <1>8, <1>9 DEF QNext
<1> QED
  BY <1>3, <1>10 DEF QInv

\* The invariant always holds.
LEMMA QInvAlways == QSpec => []QInv
BY QInvInit, QInvKept, PTL DEF QSpec

\* A cached list or count is what the database returns, unless a write is about to look
\* at it or it is one of the known cases: however many clients fetch, count, save and
\* delete, whatever the tables, queries and keys.
THEOREM CachedQueriesCoherent == QSpec => []QueryCoherence
BY QInvAlways, Coherent, PTL

\* The query caches use the index the way the theorems about the decision assume.
THEOREM QueryCacheUsesIndex == QSpec => KeyedSpec
<1>1. QInit => Init
  BY DEF QInit
<1>2. QInv /\ [QNext]_vars => [KeyedNext]_indexVars
  BY IndexStep
<1> QED
  BY <1>1, <1>2, QInvAlways, PTL DEF QSpec, KeyedSpec

=============================================================================
