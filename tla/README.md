# Verification of thing's caching layer

`thing` is a Go ORM. It caches single models, lists of IDs and counts in a `CacheClient`
(a store in the process, or Redis) and keeps them in step with the database through an
index from tables, columns and values to cached queries. What is hard to test in it is the
coherence of these caches: which cached queries a write must throw away, and what happens
when reads, writes, expiry and restarts fall between each other's steps. Beside the caches,
the project covers the batch operations with their hooks, and the migration of tables.

The modules in this directory are translated from the code under `src/`. A definition has
the name it has there where TLA+ allows it, and `PROJECT.json` gives its lines. It also
lists the components of the repository, the hazards in its code, and which property covers
which hazard.

## The system and its parts

| part | state | operations | module |
|---|---|---|---|
| cache index, `internal/cache/index.go` | nine maps from tables, columns and values to keys, one mutex | register, deregister, look up for a change, reset | `CacheIndex` |
| query invalidation, `cache.go` | none: a decision over the index and two versions of a row | `invalidateAffectedQueryCaches` | `QueryInvalidation` |
| predicates, `internal/cache/query_predicate.go`, `query_match.go` | none | parse a WHERE clause, match a model against it | `QueryPredicate` |
| model cache and CRUD, `crud.go` | the table, entries `{table}:{id}`, a lock per row | `ByID`, `Save`, `Delete`, `ClearCacheByID` | `ModelCache` |
| cached queries, `query.go` | list, count and precise-count entries, the copies in a `CachedResult` | `Fetch`, `All`, `First`, `Count`, `CountPrecise` | `QueryCache`, `CachedResult` |
| lock, `cache.go`, `drivers/cache/redis/client.go` | a channel per key, or a Redis key | `WithLock` | `CacheLock` |
| local store, `cache.go` | a map of values, a map of deadlines, a cleanup goroutine | the `CacheClient` operations | `LocalStore`, `ForgetfulStore` |
| batches, `crud.go` | a transaction, the caches, the caller's objects | `SaveMany`, `DeleteMany` | `Batch` |
| hooks, `hooks.go` | a slice of listeners per event type | register, unregister, reset, trigger | `Hooks` |
| migration, `migrate.go`, `internal/schema`, the introspectors | the tables of the database | `AutoMigrate` | `Migration`, `SchemaDiff` |
| relationships, `relationships.go` | list entries and join-table entries | preload belongsTo, hasMany, manyToMany | `Relations` |

They interact as follows. A query that misses its entry selects IDs, stores them, and
registers the key in the index. A write goes to the database, then to the model cache under
the row's lock, then asks the index which keys the change may affect, matches old and new row
against the predicate of each, and deletes the entries whose result changes. Models are
loaded from the model cache, or from the database, in which case they are stored there
without a lock. The local cache removes expired entries once a minute and then takes keys
that have no entry out of the index.

`QueryInvalidation` extends `CacheIndex`, and `QueryCache` extends both: it is the
composition of queries, writes, index, cleanup and restarts. `CachedResult` takes from it
that a write deletes the entries of the query, and adds paging, a custom `KeepItem` and
failing reads, with whole calls as steps. `QueryPredicate` discharges, on bounded clauses, what
`CacheIndex` assumes of predicates (`ParamsAssumption`) and `QueryInvalidation` calls `Exact`.
`Batch` extends `Hooks`. `LocalStore` discharges what the other modules take for granted of the
local cache: that an operation on it is one step, and that an entry goes away after its
time to live.

## The modules

**CacheIndex.** A query's parameters are abstracted to what the index reads from them: the
columns of the WHERE clause, its pinned values, the rows it selects and matches, the columns
of ORDER BY. The nine maps are nine variables. Every operation holds the index's mutex and
is one action.

**QueryInvalidation.** Phases 1 to 3 of `invalidateAffectedQueryCaches` as operators:
candidate columns, context, match against old and new row, `determineCacheAction`, and
the list that is kept because it already has the row. The properties quantify over all
pairs of row versions and compare the decision with what the change does to the query.

**QueryPredicate, MCQueryPredicate.** Tokeniser kinds, the recursive-descent parser, the
matcher for every operator, `ExactMatches` and `ExpandInClauses`; and, as reference
definitions, the grammar and SQL's three-valued logic. `MCQueryPredicate` grows clauses
out of conditions, and may lose or add one token or argument.

**ModelCache.** Every access of a call to the database, the cache or the lock is a step. A
`Save` reads its original through the cache, writes the changed columns, and stores the
model under the lock; a `Delete` does both its writes under the lock; a fetch takes none.
Any SELECT, UPDATE, DELETE or lock attempt may fail. `disturbed` is a history variable: the
rows on which two calls have run at once or a `Save` found no original.

**QueryCache, MCQueryCache.** `_fetch_data` and `Count` step by step against `Save`,
`Delete`, bulk writes followed by `InvalidateQueryCaches`, expiry, the cleanup and restarts.
`tainted` is a history variable: the keys whose entry one of the races listed at
`QueryCoherence` may have made stale.

**CachedResult.** One query, its three entries and the two copies in the object. A call is
an operator from the caches it finds to the caches and the result it leaves, and the actions
apply it. `suspect` is a history variable: the values that were copied before a write, built
although rows could not be loaded or remained after `maxIterations`, or derived from such.

**CacheLock.** `WithLock` with its retries over the channel lock and the Redis lock. A context
may be cancelled at any time; a Redis command may fail and have taken effect or not.

**Relations.** The three preloads between writes of others. A preload registers keys under
which nothing is stored, and an invalidation skips them, so writes delete no entry.

**LocalStore, ForgetfulStore.** An access to one of the two maps is a step; nothing holds them
together. A deadline is abstracted to whether it has passed. `ForgetfulStore` is the
abstract specification: a store whose calls take effect at one instant, and which may
forget anything at any time. The refinement mapping leaves the values as they are and maps the
place of a call to "called", "seen" or "done" (`Phase`). `timed`, `raced` and `steady` are history
variables.

**Hooks.** The Go slice of one event type: an array with a capacity, and a length.
`triggerEvent` copies the header under the lock and walks the array without it;
`UnregisterListener` shifts the elements of the same array one by one. `due` is a history variable:
the listeners that were registered when the walk began, without those that are unregistered from its array
meanwhile and those behind them.

**Batch, MCBatch.** `SaveMany` and `DeleteMany`: listeners, statements in a transaction, commit,
then each model's entry and the query. A statement, a commit or a cache call may fail, a
commit may succeed although it reports an error, the process may crash, and the application
may call again with the objects as the failed call left them. `MCBatch` lists scenarios,
each with its own numbers of calls, faults, changes of the registry and steps of others, since
everything at once is out of reach. `doubt` is a history variable: the keys that a named
cause may have left wrong.

**SchemaDiff.** Which indexes a model declares, through tags and its `Indexes` method, and the
statements that create its table or alter it, as records. Types are the few the models in
`MCMigration` use.

**Migration, MCMigration.** `AutoMigrate` of several instances, one statement at a time, on the three
dialects. What a database makes of a statement (`Accepts`, `Execute`, `Runnable`) is modelled from
the documented behaviour of SQLite, PostgreSQL and MySQL, not from code of this
repository. `MCMigration` has eight rollouts from one release of the models to another.

## Runs

| run | what it asks | instance | distinct states |
|---|---|---|---|
| `invalidation` | Does the index find, and the decision delete, every cached query that a create, update or delete changes, whatever was registered, registered again and removed before? | 9 keys of every kind, 16 rows, a custom KeepItem, ORDER BY, an unparsed clause | 512 |
| `predicate` | Does the parser accept what the database accepts, and the matcher say what SQL says? | 1 to 3 conditions over int, \*int and \*string columns | 65,210 |
| `model_cache` | Is the model cache right between calls that do not overlap, does it become right after races, does every call return? | 2 clients, 1 row of 2 columns | 114,832 |
| `query_cache_local` | Is every cached list and count what the database returns, outside the named races? | 1 reader that also bulk-writes, 1 writer, 1 row, a query that fails to match some rows | 529,364 |
| `query_cache_redis` | The same over Redis, at the length limit, and freshness once writes cease. | 1 reader, 1 writer, 2 rows, limit 1 | 173,672 |
| `cached_result` | Are pages exact and sound, does paging miss a row, are counts right in any order of calls? | 4 rows, limit 2, 1 iteration, batches of 2 and 3, 1 write | 91,316 |
| `cache_lock` | Do two actions ever run under one key, does `WithLock` return, is a Redis lock freed? | 3 clients, 2 attempts | 72,712 |
| `relations` | Does a preload give the wrong items, miss items, and do its list entries become exact? | 2 owners, 2 items, batches of 1 and 2 | 710,074 |
| `local_store` | Are the two maps together a store that may forget? Do values keep their deadlines and disappear, are increments lost? | 2 clients, 1 key, 1 payload and the marker, no `Incr` begins above 0 | 458,298 |
| `batch` | Do the caches follow the commit of a batch, does a veto stop it, does what commits hold what the objects hold, after retries, too? | batches of 1 and 2 objects, 2 ids, 5 listeners, up to 2 calls, 1 fault | 517,885 |
| `migration` | Does success mean that the tables have what the models declare, and does calling again complete what failed? | 2 instances, 2 tables, 8 rollouts, 3 dialects, 1 fault | 175,122 |
| `many_to_many_hit` | Does a second manyToMany preload return what is cached: violated. | as above | |

Why the bounds are enough for what is asked. The races of the model cache, the query cache
and the lock are between two calls, of which one is passive: two clients reach every order of
their steps, and a third waits for the lock while a second has it. One row is enough for
the model cache because entries and locks of different rows are disjoint, and the proof
covers any number; the query cache needs two rows where a list is cut off. `CachedResult`
shrinks the constants 200, 300, 500 and 20 to 2, 3, 2 and 1, so that four rows reach beyond the list,
beyond a batch and beyond the iterations. In `invalidation` the two values per column
give every change of a column, and the queries are one of each kind the code tells apart.

In `batch` a second object is enough for two writes of one row, a second call for a retry, and five
listeners for a walk that is overtaken by the shift, overtakes it and is overtaken again. In `migration` two instances give every
order of two sequences of statements, and the rollouts add, change and drop columns and
indexes in each way that the code tells apart.

Deadlock is looked for in every run but `predicate`, whose clauses are complete at some
point, and `batch`, whose calls are numbered.

## What the runs show

*Invalidation.* As long as the predicate agrees with the database, an update keeps only
queries whose list, order and counts it leaves alone; a create or delete keeps only queries
the row is not in; a list that is kept because it already has the row was wrong before. One
case is excepted: an update that sets `deleted` back to false.

*Predicates.* The parser accepts exactly the well-formed clauses with one argument per
placeholder, and the matcher agrees with SQL except where a NULL takes part in `=`, `<>`, `IN`,
`NOT IN` or an ordering, where `NOT IN` has an empty slice, and where a LIKE pattern has a `%` inside or blanks at
its ends. `NullMatters` and `PatternMatters` name these cases. On such rows an invalidation may keep a
query whose result has changed.

*Model cache.* Rows on which calls do not overlap are cached truthfully, whatever fails.
Overlapping calls may leave a stale model or a stale marker of a missing row, until the
entry expires: no fetch keeps such an entry alive once writes have ceased.

*Query cache.* An entry can be stale only while a write is about to look at it, or by one of
the causes listed at `QueryCoherence`: the query read the table before a write and was stored
or registered after it; its count was derived from such a list; the cleanup took the key
out of the index just as it was stored; the process started again within a second over
Redis; the write had a stale original; a soft-deleted row was restored; Redis did not answer
when the invalidation read the list or deleted the entry. In every case
the entry is fresh again after its time to live.

*Paging and counting.* Without a custom `KeepItem` pages are exact across the border between
cached IDs and SQL. With one they are exact within the cached IDs; beyond, where the offset
into the filtered list is used as an offset into the unfiltered table, rows may be repeated (also by
`All`) and none is missed. No page has a row that is deleted or hidden. `CountPrecise` is
exact whatever was cached before, unless rows could not be loaded or the list it is derived
from ended after `maxIterations`; then the wrong number is cached. (`docs/usage-guide-EN.md:461`
calls it always exact.)

*Lock.* Two actions run at once only if one outlasts the time to live of its Redis lock;
its release then takes away the lock of the next.

*Relations.* `preloadHasMany` groups by the foreign key of the loaded models, so that a stale
list entry loses items but gives none to the wrong owner, and it becomes exact with time.
A first manyToMany preload is exact; a second finds IDs and loads no model.

*Local store.* The two maps implement a store that may forget: no call sees a value that was
deleted before it began. What they do forget includes fresh values: the cleanup and a read of an expired entry
delete a value that was stored after they looked. A value whose `Set` overlaps a half-done
removal of the key may be left without a deadline, and then stays until it is set again or deleted.
`Incr` does not look at the deadline: an expired counter goes on from its old value until
something removes it.

*Batches.* The caches change only after the commit, and then agree with the table except for
keys in doubt: a crash or a lost answer after the commit, a failing cache, a row that another
instance deleted, a deleted object that no longer matched its row. After a rollback the
objects keep the IDs of their INSERTs: called again, `SaveMany` updates rows that do not
exist, reports success and caches the models; over SQLite, which gives the IDs out again, it may
update the row of another. `CommitStoresLast` excepts such rows and no others. All doubts end when the entries expire.

*Hooks.* A walk calls every listener that was registered when it began, except one that
`UnregisterListener` takes out of the array meanwhile and those behind it. Of these it may miss
several: it misses one each time the shift overtakes it, and it can overtake the shift by calling one
listener twice. `RegisterListener` and `ResetListeners` make it miss none.

*Migration.* Once all instances report success, the tables have the columns, types and indexes of the
models (and other columns only if dropping is not allowed), whatever failed or ran at once before, with two exceptions: an index name that two
tables share, and one that two tags share through a default name. What failed half way is
completed by calling again, unless the same statement is refused each time: a type SQLite cannot
change, a type PostgreSQL cannot convert, an indexed column that SQLite will not drop
because its index is dropped later, a batch for MySQL without `multiStatements`.

One run expects a violation: `many_to_many_hit` states what a test says, and `PROJECT.json`
quotes it.

## Observations

Met while modelling; the models have the behaviour, and no property contradicts it.

- A `Save` that restores a soft-deleted row changes only `deleted` and finds no query over it, so that lists
  and counts lack the row until they expire (`cache.go:292`; `model.go:55-56` says that the framework
  special-cases `deleted`). `UpdateInvalidates` excepts restores.
- A `Save` that cannot read its original compares with a zero model (`crud.go:331`): columns that become
  zero are not written, though the comment at line 335 says "as if all fields changed".
  `IsolatedCoherence` counts such rows as disturbed, `CommitStoresLast` excepts them (`unread`).
- With a cancelled context the local `ReleaseLock` may give up (`cache.go:1061`), and the lock is never
  free again; so may the lock of an `Incr`.
- On MySQL every `AutoMigrate` modifies every column, because the reported type names
  (`int`) never equal the generated ones (`INT`), and `MODIFY COLUMN` without them removes NOT NULL,
  DEFAULT and AUTO_INCREMENT (`generate.go:362-367`; the comment at 351 says that changes are only detected).
  PostgreSQL repeats its `ALTER TYPE`, without effect.
- `crud.go:105`, `crud.go:411` and `relationships.go:340` quote a column with double quotes in every dialect. The models take this
  as the column, as SQLite and PostgreSQL do; MySQL does so only in ANSI_QUOTES mode.
- `All` keeps its result in the `CachedResult` and returns it from then on (`query.go:673`). `invalidateCache`
  resets the IDs and the count "to trigger reload on next access" (`query.go:499`), and not this copy.
- A changed predicate of a partial index is not detected, only that there is one.

## Fairness

Liveness assumes weak fairness of the steps of a call under way (a goroutine that can run
does run, and statements, commands and actions under a lock return) and of expiry
(every entry but the join entries of `Relations` is stored with a time to live, after which `Get` does not
return it). `LocalStore` also assumes that time passes and that the ticker of a started cleanup
goes off, and `Migration` that an instance whose `AutoMigrate` failed, or that runs an old
release, is started again. No fairness is assumed of new calls, of cancellation or of a
failing operation, nor of the cleanup elsewhere. The freshness properties assume that writes cease.

## Proofs

Eight modules hold theorems that TLAPS proves for every value of the constants, from the
assumptions named in the modules (`KeysAssumption`, `ParamsAssumption`, `KeepItemAssumption`,
`ParamsOfAssumption`, `QueryCacheAssumption`, `OrderByAssumption`, `ModelAssumption`, `LockAssumption`,
`StoreAssumption`, `HookAssumption`, `BatchAssumption`, `RelationsAssumption`, `MigrationAssumption`).

- `QueryCacheProofs`, first part, on the index: `NoDanglingKey` and `IndexCovers` are inductive together with `TypeOK`.
  `IndexCovers` says that a registered key is in every map that its latest parameters call
  for; since registering only adds, entries of an earlier life may remain, and removal
  takes the key out of all maps. `UpdateFindsAffectedKeys` and `ForcedFindsAllKeys` follow
  from `IndexCovers` without further induction. On the decision, three theorems follow from `TypeOK`
  and `IndexCovers` in each state; `KeyedIsSpec` carries these over from `CacheIndex`. The
  argument goes by cases: a key that is no task depends on no changed column, so old and
  new row agree on its clause; a task that needs nothing matches both or neither, and its
  order columns and the columns of `KeepItem` are unchanged.
- `QueryCacheProofs`, second part. `QueryCacheUsesIndex` shows that every step of a query, a write, the cleanup or a restart
  is a step of the index or leaves it alone (`QSpec => KeyedSpec`), so that the theorems on the decision
  hold in the states of `QueryCache`. `QueryCoherence` speaks of entries nobody is about to look at and is not inductive.
  `CacheInv` adds why the others come right: an entry that is out of date is registered, and some client owes its
  deletion (`Owes`: it is still to compute the context of a write that affects the key, or has the key among
  its deletions); an entry that is not registered has a client about to register it (`Announced`);
  and what a query has read is what the database holds, unless a write has come since (`FreshRead`). That an owing
  client does find the key is where `IndexCovers` and the theorems on the decision are used. `OrderByAssumption` says of
  the order of a SELECT only that each selected ID is listed once.
- `RelationsProofs`. The four results of the preloads are inductive with `ListsHold` (a list entry, and the list a
  preload has read, lacks only items written since its SELECT, whatever the order of the batch that it is stored under) and
  `JoinsHold` (what a preload that found no entry has read of the join table is there, up to the items
  written meanwhile). `HasManySound` needs neither: the rows are filtered by foreign key as they are read.
- `ModelCacheProofs`. `IsolatedCoherence` is not inductive: it says nothing while a call runs.
  `AloneInv` adds that an undisturbed row has at most one call, and what that call knows at
  each step (`InFlight`). Each action is shown to keep it for its own row, and a frame lemma
  covers the other rows. `DeleteIsExclusive` follows from `LockInv`, which says that lock
  and calls agree on the holder.
- `LocalStoreProofs`. `Refinement`: the initial states are equal, and each action maps to an action of
  `ForgetfulStore` or to a stutter; removals by an expired read and by the cleanup map to `Forget`.
  It needs `TypeOK`, and what a call has loaded when it is at a given place. `DeadlinesKept` adds
  that a half-done removal is recorded in `raced` of every value stored meanwhile, and `IncrementsKept` that
  the lock of a key is held by at most one `Incr`.
- `BatchProofs`. `BatchesCoherent` and `CommitsStoreLast` rest on one invariant, `IInv`. While a transaction is
  open, its writes are those of the mutations recorded so far, and each row that enters or leaves the
  query's result has a mutation that shows it (`TxInv`); after the commit a wrong entry is in doubt or
  is still to be set, and the last mutation to set it has the committed value (`FinalInv`). `IdInv` is needed
  because SQLite gives IDs out again: no row is beyond the last ID, also after a rollback has
  lowered it. `StoreInv` says that each item written so far has left its value in its row. `VetoesRespected` rests on
  `WalkInv`: each listener that the walk has to call (`due`) and that objects is ahead of the walk, at a
  place that the shift does not overwrite, and none is behind it.
- `MigrationProofs`. `DropsAllowedOnly` rests on `MInv`: of each instance the plan that remains to be executed drops only
  columns that its own model lacks, and none if dropping is not allowed (`PlanOK`). The plan is computed from the table as it
  was read, and executed on tables that other instances have changed meanwhile; the statements name
  the columns, so that what they take away does not depend on the table. The lemmas say, by induction over the length of a
  sequence, what `Concat` and `Executed` return.
- `CacheLockProofs`. `MutualExclusion` follows from `OwnerInv`: until a lock overran, whoever is
  in its action is the owner and the lock is held.

Only model-checked: all liveness (fairness is out of the prover's reach), `QueryPredicate` and
`CachedResult` (recursion over clauses and batches), of `Migration` that success means that the tables are in step and
that a repetition changes nothing (both depend on what the introspectors read back of each statement), and that the
doubts of `Batch` end. The types, the inductive
invariants `IndexCovers`, `AloneInv`, `LockInv` and `OwnerInv`, the completeness of the
index's lookups and `QueryCacheUsesIndex` are proved and are not among the runs' properties.

## What the models assume

- One process, as `docs/usage-guide-EN.md:451` asks for, except in `Batch` and `Migration`. Statements are
  atomic.
- `ModelCache`: cache commands do not fail, except the lock, and contexts are not cancelled
  (`CacheLock` has both). `QueryCache`: they fail only in an invalidation over Redis.
- `LocalStore`: the strings that `Set` stores are markers; numbers come from `Incr`.
- `Batch`: the steps of other instances are whole operations, and the query is on the one
  column. `After` events are left out: their errors are only logged.
- `Migration`: the calls of one introspection are two steps (columns, indexes); types of different
  columns are modified in one order. Models agree on the primary key.
- `QueryCache`: no custom `KeepItem`, no `WithDeleted`, predicates that are exact, and a `Save`
  that reads its original from the database.
- `CachedResult`: calls one after the other, one fault per call, no restored rows.
- `QueryPredicate`: arguments have the type of their column; LIKE tells cases apart.
- `Relations`: the model cache holds the rows of the table; no duplicate rows in a join table;
  models whose relation fields are still nil.

## Not modelled

- JSON serialisation, the text of statements, the parsing of struct tags and the formatting of default values
  are conversions without state. Values are not encoded: `SetModel` and `GetModel` are inverse to
  each other.
- The database drivers and the Redis client's value operations are thin adapters; their contract
  is in the models.
- The copy of its result that `All` keeps in a `CachedResult`: no other call reads it, and it multiplies
  the states of its run.
- Statistics, logging, configuration.
