----------------------------- MODULE QueryCache -----------------------------
(***************************************************************************)
(* Cached list and count queries (query.go) while rows are saved, deleted  *)
(* and bulk-written (crud.go, cache.go) and the local cache's cleanup      *)
(* removes keys from the index.                                            *)
(*                                                                         *)
(* A client runs one call at a time; each of its accesses to the database, *)
(* the cache and the index is a step. The model type has no KeepItem of    *)
(* its own, so one SELECT gives the IDs of a list, and CountPrecise is     *)
(* Count. The model cache is left out: a Save reads its original from the  *)
(* database.                                                               *)
(***************************************************************************)
EXTENDS QueryInvalidation, Sequences

CONSTANTS
    Clients,
    Readers,             \* the clients that query,
    Writers,             \* that save and delete,
    BulkWriters,         \* and that write past the ORM
    TableName,           \* the model's table
    Ids,                 \* primary keys
    Queries,
    ListKey, CountKey,   \* the two cache keys of each query
    cacheListCountLimit, \* the length at which a cached list is cut off
    OrderBy(_),          \* the order in which the database lists a view's ids
    Absent,              \* no row, no cache entry, no key
    Backend              \* the CacheClient in use: "local" or "redis"

ASSUME QueryCacheAssumption ==
    /\ Readers \cup Writers \cup BulkWriters \subseteq Clients
    /\ TableName \in Tables /\ Ids \subseteq Nat /\ IsFiniteSet(Ids)
    /\ cacheListCountLimit \in Nat \ {0}
    /\ KeepItemFields = {} /\ Kept = {r \in Row : ~IsDeleted(r)}
    /\ ListKey \in [Queries -> Keys] /\ CountKey \in [Queries -> Keys]
    /\ \A q \in Queries :
         /\ TableOf[ListKey[q]] = TableName /\ TableOf[CountKey[q]] = TableName
         /\ isListKey(ListKey[q]) /\ KeyKind[CountKey[q]] = "count"
         /\ ParamsOf[ListKey[q]] = ParamsOf[CountKey[q]]
         /\ ~ParamsOf[ListKey[q]].includeDeleted
         /\ Exact(ParamsOf[ListKey[q]])
         /\ ParamsOf[ListKey[q]].fields \cup ParamsOf[ListKey[q]].order \subseteq Tracked
    /\ Absent \notin Row /\ Absent \notin Keys
    /\ Backend \in {"local", "redis"}

\* A SELECT returns each id that its WHERE clause selects once.
ASSUME OrderByAssumption ==
    \A ids \in SUBSET Ids, cols \in SUBSET Columns : \A view \in [ids -> [cols -> Values]] :
        /\ OrderBy(view) \in Seq(ids)
        /\ Len(OrderBy(view)) = Cardinality(ids)
        /\ \A i \in ids : \E n \in 1 .. Len(OrderBy(view)) : OrderBy(view)[n] = i

VARIABLES
    db,       \* the table: a row or Absent for each id
    fresh,    \* the ids no INSERT has used yet
    store,    \* the cached list or count of each key, or Absent
    client,   \* each client's call and its local variables
    gc,       \* the cleanup: keys it has yet to look at, key it found missing
    tainted   \* history: keys whose entry a known race may have made stale

vars == <<db, fresh, store, client, gc, tainted, indexVars>>

-----------------------------------------------------------------------------
(* What a query returns from a table.                                      *)

\* The listed ids, each with the values that decide its place.
View(table, k, p) ==
    [i \in {j \in Ids : table[j] # Absent /\ Shown(table[j], p)} |->
        [col \in SortColumns(k, p) |-> table[i][col]]]

\* _fetch_ids_from_db, cut off by _fetch_data.
FetchIDs(table, k, p) ==
    LET ids == OrderBy(View(table, k, p))
    IN  SubSeq(ids, 1, IF Len(ids) < cacheListCountLimit THEN Len(ids) ELSE cacheListCountLimit)

GetCount(table, p) == Cardinality({i \in Ids : table[i] # Absent /\ Counted(table[i], p)})

\* What the database would return now for a cached key.
Result(k) ==
    IF isListKey(k) THEN FetchIDs(db, k, ParamsOf[k]) ELSE GetCount(db, ParamsOf[k])

-----------------------------------------------------------------------------
(* Clients.                                                                *)

Idle == [pc |-> "idle"]

Reading == {"setids", "register", "setcount", "registercount"}

\* A write that has reached the database and may yet delete a key's entry.
Pending(c, k) ==
    \/ client[c].pc \in {"context", "tablekeys"}
    \/ /\ client[c].pc = "invalidate"
       /\ k \in client[c].failed \cup client[c].adds \cup client[c].dels

QInit ==
    /\ Init
    /\ db \in [Ids -> {r \in Row : ~IsDeleted(r)} \cup {Absent}]
    /\ fresh = {i \in Ids : db[i] = Absent}
    /\ store = [k \in Keys |-> Absent]
    /\ client = [c \in Clients |-> Idle]
    /\ gc = [keys |-> {}, missing |-> Absent]
    /\ tainted = {}

Return(c) == client' = [client EXCEPT ![c] = Idle]

-----------------------------------------------------------------------------
(* _fetch_data and Count. A call that finds its key cached returns at once. *)

FetchMiss(c, q) ==
    /\ c \in Readers /\ client[c].pc = "idle"
    /\ store[ListKey[q]] = Absent
    /\ client' = [client EXCEPT ![c] = [pc |-> "select", q |-> q]]
    /\ UNCHANGED <<db, fresh, store, gc, tainted, indexVars>>

SelectIDs(c) ==
    /\ client[c].pc = "select"
    /\ LET k == ListKey[client[c].q]
       IN  client' = [client EXCEPT ![c] = [pc |-> "setids", q |-> @.q, raced |-> FALSE,
                                            result |-> FetchIDs(db, k, ParamsOf[k])]]
    /\ UNCHANGED <<db, fresh, store, gc, tainted, indexVars>>

\* The query fails: the call returns the error.
QueryFails(c) ==
    /\ client[c].pc \in {"select", "getcount"}
    /\ Return(c)
    /\ UNCHANGED <<db, fresh, store, gc, tainted, indexVars>>

Taint(k, raced) == IF raced THEN tainted \cup {k} ELSE tainted \ {k}

SetQueryIDs(c) ==
    /\ client[c].pc = "setids"
    /\ LET k == ListKey[client[c].q]
       IN  /\ store' = [store EXCEPT ![k] = client[c].result]
           /\ tainted' = Taint(k, client[c].raced)
    /\ client' = [client EXCEPT ![c].pc = "register"]
    /\ UNCHANGED <<db, fresh, gc, indexVars>>

\* A list below the limit also gives the count.
RegisterList(c) ==
    /\ client[c].pc = "register"
    /\ LET k == ListKey[client[c].q]
           n == Len(client[c].result)
       IN  /\ RegisterQuery(TableOf[k], k, ParamsOf[k])
           /\ IF n < cacheListCountLimit
              THEN client' = [client EXCEPT ![c].pc = "setcount", ![c].result = n]
              ELSE Return(c)
    /\ UNCHANGED <<db, fresh, store, gc, tainted>>

CountMiss(c, q) ==
    /\ c \in Readers /\ client[c].pc = "idle"
    /\ store[CountKey[q]] = Absent
    /\ client' = [client EXCEPT ![c] = [pc |-> "derive", q |-> q]]
    /\ UNCHANGED <<db, fresh, store, gc, tainted, indexVars>>

\* Mutant: the count comes from any cached list, cut off or not.
DeriveCount_AnyList(c) ==
    /\ client[c].pc = "derive"
    /\ LET k == ListKey[client[c].q]
       IN  client' = [client EXCEPT ![c] =
             IF store[k] # Absent
             THEN [pc |-> "setcount", q |-> @.q, result |-> Len(store[k]),
                   raced |-> k \in tainted \/ \E d \in Clients : Pending(d, k)]
             ELSE [pc |-> "getcount", q |-> @.q]]
    /\ UNCHANGED <<db, fresh, store, gc, tainted, indexVars>>

\* The count comes from the cached list if that is complete.
DeriveCount(c) ==
    /\ client[c].pc = "derive"
    /\ LET k == ListKey[client[c].q]
       IN  client' = [client EXCEPT ![c] =
             IF store[k] # Absent /\ Len(store[k]) < cacheListCountLimit
             THEN [pc |-> "setcount", q |-> @.q, result |-> Len(store[k]),
                   raced |-> k \in tainted \/ \E d \in Clients : Pending(d, k)]
             ELSE [pc |-> "getcount", q |-> @.q]]
    /\ UNCHANGED <<db, fresh, store, gc, tainted, indexVars>>

CountRows(c) ==
    /\ client[c].pc = "getcount"
    /\ client' = [client EXCEPT ![c] = [pc |-> "setcount", q |-> @.q, raced |-> FALSE,
                                        result |-> GetCount(db, ParamsOf[CountKey[@.q]])]]
    /\ UNCHANGED <<db, fresh, store, gc, tainted, indexVars>>

SetCount(c) ==
    /\ client[c].pc = "setcount"
    /\ LET k == CountKey[client[c].q]
       IN  /\ store' = [store EXCEPT ![k] = client[c].result]
           /\ tainted' = Taint(k, client[c].raced)
    /\ client' = [client EXCEPT ![c].pc = "registercount"]
    /\ UNCHANGED <<db, fresh, gc, indexVars>>

RegisterCount(c) ==
    /\ client[c].pc = "registercount"
    /\ LET k == CountKey[client[c].q] IN RegisterQuery(TableOf[k], k, ParamsOf[k])
    /\ Return(c)
    /\ UNCHANGED <<db, fresh, store, gc, tainted>>

-----------------------------------------------------------------------------
(* Writes.                                                                 *)

\* The row changes. History: the queries that have read the table and not yet
\* registered their key have raced with the write; so has every entry if the
\* write is wrong about what it changes (misled).
Write(c, i, row, misled, next) ==
    LET raced == {d \in Clients : client[d].pc \in Reading}
        unregistered == {ListKey[client[d].q] : d \in {e \in raced : client[e].pc = "register"}}
                        \cup {CountKey[client[d].q] : d \in {e \in raced : client[e].pc = "registercount"}}
    IN  /\ db' = [db EXCEPT ![i] = row]
        /\ client' = [d \in Clients |->
             IF d = c THEN next
             ELSE IF d \in raced THEN [client[d] EXCEPT !.raced = TRUE] ELSE client[d]]
        /\ tainted' = IF misled THEN Keys ELSE tainted \cup unregistered

\* Save of a new model: the INSERT.
SaveNew(c, i, value) ==
    /\ c \in Writers /\ client[c].pc = "idle"
    /\ i \in fresh
    /\ fresh' = fresh \ {i}
    /\ Write(c, i, value, FALSE,
             [pc |-> "context", op |-> "create", id |-> i, old |-> value, new |-> value])
    /\ UNCHANGED <<store, gc, indexVars>>

\* Save of a stored model reads the original; Delete is given the row its
\* caller has read.
SaveExisting(c, i, value) ==
    /\ c \in Writers /\ client[c].pc = "idle"
    /\ db[i] # Absent
    /\ client' = [client EXCEPT ![c] =
                    [pc |-> "exec", op |-> "update", id |-> i, old |-> db[i], new |-> value]]
    /\ UNCHANGED <<db, fresh, store, gc, tainted, indexVars>>

Delete(c, i) ==
    /\ c \in Writers /\ client[c].pc = "idle"
    /\ db[i] # Absent
    /\ client' = [client EXCEPT ![c] =
                    [pc |-> "exec", op |-> "delete", id |-> i, old |-> db[i], new |-> db[i]]]
    /\ UNCHANGED <<db, fresh, store, gc, tainted, indexVars>>

\* The UPDATE of the columns in which the model differs from the original.
ExecUpdate(c) ==
    LET i == client[c].id
        old == client[c].old
        new == client[c].new
        changed == changedModelColumns(new, old)
        row == IF db[i] = Absent THEN Absent
               ELSE [col \in Columns |-> IF col \in changed THEN new[col] ELSE db[i][col]]
    IN  /\ client[c].pc = "exec" /\ client[c].op = "update"
        /\ changed # {}
        /\ Write(c, i, row, old # db[i] \/ IsRestore(old, new), [client[c] EXCEPT !.pc = "context"])
        /\ UNCHANGED <<fresh, store, gc, indexVars>>

ExecDelete(c) ==
    LET i == client[c].id
    IN  /\ client[c].pc = "exec" /\ client[c].op = "delete"
        /\ db[i] # Absent
        /\ Write(c, i, Absent, client[c].old # db[i], [client[c] EXCEPT !.pc = "context"])
        /\ UNCHANGED <<fresh, store, gc, indexVars>>

\* Nothing to update, no row to delete, no lock, or a database error.
ExecNothing(c) ==
    /\ client[c].pc = "exec"
    /\ Return(c)
    /\ UNCHANGED <<db, fresh, store, gc, tainted, indexVars>>

\* invalidateAffectedQueryCaches, up to the end of phase 1.
Context(c) ==
    /\ client[c].pc = "context"
    /\ LET model == client[c].new
           original == client[c].old
           isCreate == client[c].op = "create"
           isDelete == client[c].op = "delete"
           sure == KeysToDelete(TableName, model, original, isCreate, isDelete)
           failed == {k \in sure : cacheTask(k, model, original, isCreate, isDelete).failed}
       IN  client' = [client EXCEPT ![c] =
               [pc |-> "invalidate", id |-> @.id, failed |-> failed, dels |-> sure \ failed,
                adds |-> KeysToDeleteUnlessListed(TableName, model, original, isCreate, isDelete)]]
    /\ UNCHANGED <<db, fresh, store, gc, tainted, indexVars>>

Drop(k) ==
    /\ store' = [store EXCEPT ![k] = Absent]
    /\ tainted' = tainted \ {k}

\* Phase 1: a key whose query could not be matched is deleted at once.
DeleteFailed(c) ==
    /\ client[c].pc = "invalidate"
    /\ \E k \in client[c].failed :
        /\ Drop(k)
        /\ client' = [client EXCEPT ![c].failed = @ \ {k}]
    /\ UNCHANGED <<db, fresh, gc, indexVars>>

\* Mutant: a list that the row joins is always kept.
ReadList_Kept(c) ==
    /\ client[c].pc = "invalidate" /\ client[c].failed = {}
    /\ \E k \in client[c].adds : client' = [client EXCEPT ![c].adds = @ \ {k}]
    /\ UNCHANGED <<db, fresh, store, gc, tainted, indexVars>>

\* Phases 2 and 3: a list that the row joins is kept if it has the row.
ReadList(c) ==
    /\ client[c].pc = "invalidate" /\ client[c].failed = {}
    /\ \E k \in client[c].adds :
        LET listed == store[k] # Absent /\ \E n \in DOMAIN store[k] : store[k][n] = client[c].id
        IN  client' = [client EXCEPT ![c].adds = @ \ {k},
                                     ![c].dels = IF listed THEN @ ELSE @ \cup {k}]
    /\ UNCHANGED <<db, fresh, store, gc, tainted, indexVars>>

\* Phase 4, in the order in which Go walks the map.
DeleteKey(c) ==
    /\ client[c].pc = "invalidate" /\ client[c].failed \cup client[c].adds = {}
    /\ \E k \in client[c].dels :
        /\ Drop(k)
        /\ client' = [client EXCEPT ![c].dels = @ \ {k}]
    /\ UNCHANGED <<db, fresh, gc, indexVars>>

\* Redis does not answer: a key whose list cannot be read or whose entry cannot be
\* deleted is passed over, in any of the phases.
PassOver(c) ==
    /\ Backend = "redis"
    /\ client[c].pc = "invalidate"
    /\ \E k \in IF client[c].failed # {} THEN client[c].failed ELSE client[c].adds \cup client[c].dels :
        /\ client' = [client EXCEPT ![c].failed = @ \ {k}, ![c].adds = @ \ {k}, ![c].dels = @ \ {k}]
        /\ tainted' = IF store[k] # Absent THEN tainted \cup {k} ELSE tainted
    /\ UNCHANGED <<db, fresh, store, gc, indexVars>>

InvalidateDone(c) ==
    /\ client[c].pc = "invalidate"
    /\ client[c].failed \cup client[c].adds \cup client[c].dels = {}
    /\ Return(c)
    /\ UNCHANGED <<db, fresh, store, gc, tainted, indexVars>>

\* A bulk write past the ORM, after which its caller calls InvalidateQueryCaches.
RawWrite(c, i, row) ==
    /\ c \in BulkWriters /\ client[c].pc = "idle"
    /\ db[i] # Absent
    /\ Write(c, i, row, FALSE, [pc |-> "tablekeys", id |-> i])
    /\ UNCHANGED <<fresh, store, gc, indexVars>>

InvalidateQueryCaches(c) ==
    /\ client[c].pc = "tablekeys"
    /\ client' = [client EXCEPT ![c] =
            [pc |-> "invalidate", id |-> @.id, failed |-> {}, adds |-> {},
             dels |-> GetQueryKeysForTable(TableName)]]
    /\ UNCHANGED <<db, fresh, store, gc, tainted, indexVars>>

-----------------------------------------------------------------------------
(* The cache and the index without their clients.                          *)

\* Mutant: counts are stored without a time to live.
Expire_ListsOnly(k) ==
    /\ store[k] # Absent /\ isListKey(k)
    /\ Drop(k)
    /\ UNCHANGED <<db, fresh, client, gc, indexVars>>

\* The time to live of an entry is over.
Expire(k) ==
    /\ store[k] # Absent
    /\ Drop(k)
    /\ UNCHANGED <<db, fresh, client, gc, indexVars>>

\* cleanupExpiredKeys of the local cache: the keys of the index, and then for
\* each one whether it is in the store, and if not its removal from the index.
CleanupStart ==
    /\ Backend = "local"
    /\ gc.keys = {} /\ gc.missing = Absent
    /\ GetAllRegisteredKeys # {}
    /\ gc' = [gc EXCEPT !.keys = GetAllRegisteredKeys]
    /\ UNCHANGED <<db, fresh, store, client, tainted, indexVars>>

CleanupLoad ==
    /\ gc.missing = Absent
    /\ \E k \in gc.keys :
        gc' = [keys |-> gc.keys \ {k}, missing |-> IF store[k] = Absent THEN k ELSE Absent]
    /\ UNCHANGED <<db, fresh, store, client, tainted, indexVars>>

CleanupDeregister ==
    /\ gc.missing # Absent
    /\ DeregisterQuery(gc.missing)
    /\ gc' = [gc EXCEPT !.missing = Absent]
    /\ tainted' = IF store[gc.missing] # Absent THEN tainted \cup {gc.missing} ELSE tainted
    /\ UNCHANGED <<db, fresh, store, client>>

\* The process starts again with an empty index. Its keys have a new cacheVersion, so
\* that it finds no entry, unless it starts within the second in which its predecessor
\* started: then Redis still has the entries of its keys.
Restart ==
    /\ ResetGlobalCacheIndex
    /\ client' = [c \in Clients |-> Idle]
    /\ gc' = [keys |-> {}, missing |-> Absent]
    /\ \/ store' = [k \in Keys |-> Absent]
       \/ Backend = "redis" /\ store' = store
    /\ tainted' = {k \in Keys : store'[k] # Absent}
    /\ UNCHANGED <<db, fresh>>

-----------------------------------------------------------------------------

Step(c) ==
    \/ SelectIDs(c) \/ QueryFails(c) \/ SetQueryIDs(c) \/ RegisterList(c)
    \/ DeriveCount(c) \/ CountRows(c) \/ SetCount(c) \/ RegisterCount(c)
    \/ ExecUpdate(c) \/ ExecDelete(c) \/ ExecNothing(c) \/ Context(c)
    \/ DeleteFailed(c) \/ ReadList(c) \/ DeleteKey(c) \/ PassOver(c) \/ InvalidateDone(c)
    \/ InvalidateQueryCaches(c)

Call(c) ==
    \/ \E q \in Queries : FetchMiss(c, q) \/ CountMiss(c, q)
    \/ \E i \in Ids :
        \/ Delete(c, i)
        \/ RawWrite(c, i, Absent)
        \/ \E value \in Row :
            SaveNew(c, i, value) \/ SaveExisting(c, i, value) \/ RawWrite(c, i, value)

Cleanup == CleanupStart \/ CleanupLoad \/ CleanupDeregister

QNext ==
    \/ \E c \in Clients : Call(c) \/ Step(c)
    \/ \E k \in Keys : Expire(k)
    \/ Cleanup
    \/ Restart

QSpec == QInit /\ [][QNext]_vars

\* A call under way goes on, and no entry outlives its time to live.
QFairSpec ==
    /\ QSpec
    /\ \A c \in Clients : WF_vars(Step(c))
    /\ \A k \in Keys : WF_vars(Expire(k))

-----------------------------------------------------------------------------

\* A cached list or count is what the database would return, unless a write in
\* progress is about to look at it, or it is one of these known cases: the query
\* read the table before a write and was stored or registered after it; the
\* count was derived from such a list; the cleanup took the key out of the index
\* as it was being cached; the process was started again within a second; Redis did not
\* answer an invalidation; a write was wrong about the row it changed; a soft-deleted row
\* was restored.
QueryCoherence ==
    \A k \in Keys :
        (/\ store[k] # Absent /\ k \notin tainted
         /\ \A c \in Clients : ~Pending(c, k))
            => store[k] = Result(k)

InFlightWrite ==
    \E c \in Clients : client[c].pc \in {"exec", "context", "tablekeys", "invalidate"}

\* Whatever races, restarts and cleanups have done, once no write runs any more
\* every cached list and count comes to be what the database returns, and stays
\* so, although Fetch and Count go on caching and counts are derived from lists.
EventuallyFresh ==
    (<>[]~InFlightWrite) => <>[](\A k \in Keys : store[k] # Absent => store[k] = Result(k))

=============================================================================
