---------------------------- MODULE CachedResult ----------------------------
(***************************************************************************)
(* Paging and counting on one CachedResult (query.go): how Fetch, All,     *)
(* First, Count and CountPrecise get from the table, through the shared    *)
(* list and count entries and the copies in the object, to the rows and    *)
(* numbers they return.                                                    *)
(*                                                                         *)
(* The rows that satisfy the WHERE clause are 1..MaxRows in the order of   *)
(* the query. A row is "absent" or is                                      *)
(*   "kept"     KeepItem is true                                           *)
(*   "hidden"   a custom KeepItem is false, which SQL cannot see           *)
(*   "deleted"  soft-deleted                                               *)
(* Calls run one at a time: QueryCache interleaves their steps. Writes in  *)
(* between go through the ORM, which deletes the shared entries of the     *)
(* query (QueryInvalidation) but not the copies in the object.             *)
(***************************************************************************)
EXTENDS Integers, Sequences, SequencesExt

CONSTANTS
    MaxRows,
    MaxWrites,            \* bounds the writes between the calls
    Offsets, Limits,      \* the arguments of Fetch
    cacheListCountLimit,  \* 200 in the code
    maxIterations,        \* 20 in the code
    scanBatch,            \* batchSize of countByFullScan, 500 in the code
    Lost,                 \* sets of rows that a failing SELECT may cover
    None                  \* no entry, or nothing loaded

VARIABLES
    rows,             \* the status of each row
    custom,           \* info.HasCustomKeepItem
    includeDeleted,   \* params.IncludeDeleted
    list, count, precise,         \* the shared entries
    cachedIDs, cachedCount,  \* the object, None standing for the hasLoaded flags
    suspect,          \* history: which of these five may be wrong (see below)
    writes

vars == <<rows, custom, includeDeleted, list, count, precise,
          cachedIDs, cachedCount, suspect, writes>>

\* A value is suspect if it was copied into the object before a write, if it was
\* built although rows could not be loaded or more remained after maxIterations, or
\* if it was derived from a suspect value.
Entries == {"list", "count", "precise", "cachedIDs", "cachedCount"}

Copies == {"cachedIDs", "cachedCount"}

Statuses == {"absent", "kept", "hidden", "deleted"}

\* What SQL selects: the soft-delete condition is added unless IncludeDeleted.
Selected ==
    LET where(i) == rows[i] \in {"kept", "hidden"} \/ (includeDeleted /\ rows[i] = "deleted")
    IN  SelectSeq([i \in 1..MaxRows |-> i], where)

\* Whether a loaded row passes cr.params.IncludeDeleted || model.KeepItem().
Keeps(i) == includeDeleted \/ rows[i] = "kept"

\* The rows a query should return.
Visible == SelectSeq(Selected, Keeps)

\* LIMIT limit OFFSET offset, and s[offset:offset+limit] cut at the end of s.
Window(s, offset, limit) == SubSeq(s, offset + 1, Min({offset + limit, Len(s)}))

_fetch_ids_from_db(offset, limit) == Window(Selected, offset, limit)

batchSize == (3 * cacheListCountLimit) \div 2

skipKeepItemFilter == ~custom /\ ~includeDeleted

Take(s, n) == Window(s, 0, n)

\* The entries and the object as a call finds them and leaves them. out is what the
\* call returns, None for an error.
Caches ==
    [list |-> list, count |-> count, precise |-> precise,
     cachedIDs |-> cachedIDs, cachedCount |-> cachedCount,
     suspect |-> suspect, out |-> None]

\* w after x has been set to v, derived from the entry y (None: from the table).
Put(w, x, v, y) ==
    [w EXCEPT ![x] = v, !.suspect = (@ \ {x}) \cup (IF y \in @ THEN {x} ELSE {})]

\* What may fail in a call: nothing, the SELECT of the models lost, the SELECT of IDs
\* in iteration at of Fetch, or the COUNT. (Where _fetch_data or countByFullScan cannot
\* select IDs, the call ends with an error and changes nothing.)
NoFault == [kind |-> "none", at |-> 0, lost |-> {}]

Faults ==
    {NoFault, [NoFault EXCEPT !.kind = "count"]}
        \cup {[NoFault EXCEPT !.kind = "select", !.at = n] : n \in {1, 2}}
        \cup {[NoFault EXCEPT !.kind = "models", !.lost = ids] : ids \in Lost}

\* The models ByIDs returns. It logs a failing SELECT and leaves its rows out: its only
\* error, for a model type that is not a pointer, is left out.
ByIDs(f, ids) == SelectSeq(ids, LAMBDA i : rows[i] # "absent" /\ i \notin f.lost)

-----------------------------------------------------------------------------
(* Loading the list.                                                       *)

\* The loop of _fetch_data. whole says that no row is missing because it was lost or
\* because of maxIterations.
RECURSIVE Collect(_, _, _, _)
Collect(f, iteration, offset, acc) ==
    LET batch == _fetch_ids_from_db(offset, batchSize)
        kept == IF skipKeepItemFilter THEN batch ELSE SelectSeq(ByIDs(f, batch), Keeps)
        after == [ids |-> Take(acc.ids \o kept, cacheListCountLimit),
                  whole |-> acc.whole /\ (skipKeepItemFilter \/ ToSet(batch) \cap f.lost = {})]
    IN  IF Len(acc.ids) >= cacheListCountLimit \/ batch = <<>> THEN acc
        ELSE IF iteration > maxIterations THEN [acc EXCEPT !.whole = FALSE]
        ELSE IF Len(batch) < batchSize THEN after
        ELSE Collect(f, iteration + 1, offset + Len(batch), after)

\* Mutant: a list of the full length sets the count entry too.
StoreList_Full(w, r) ==
    LET stored == Put(Put(w, "list", r.ids, None), "count", Len(r.ids), None)
    IN  [stored EXCEPT !.out = r.ids, !.suspect = IF r.whole THEN @ ELSE @ \cup {"list", "count"}]

\* A new list is stored, and if it is shorter than the limit its length as the count.
StoreList(w, r) ==
    LET listed == Put(w, "list", r.ids, None)
        counted == Put(listed, "count", Len(r.ids), None)
        set == IF Len(r.ids) < cacheListCountLimit THEN {"list", "count"} ELSE {"list"}
    IN  [(IF "count" \in set THEN counted ELSE listed) EXCEPT
            !.out = r.ids, !.suspect = IF r.whole THEN @ ELSE @ \cup set]

\* A list entry is used as it is.
_fetch_data(w, f) ==
    IF w.list # None THEN [w EXCEPT !.out = w.list]
    ELSE StoreList(w, Collect(f, 1, 0, [ids |-> <<>>, whole |-> TRUE]))

LoadIDs(w) == Put(w, "cachedIDs", w.out, "list")

_fetch(w, f) == IF w.cachedIDs # None THEN w ELSE LoadIDs(_fetch_data(w, f))

-----------------------------------------------------------------------------
(* Counting.                                                               *)

SetCount(w, n, y) == [Put(Put(w, "count", n, y), "cachedCount", n, y) EXCEPT !.out = n]

\* From the object, the count entry, a list entry below the limit, or SQL.
Count(w, f) ==
    LET derivable == w.list # None /\ Len(w.list) < cacheListCountLimit
    IN  CASE w.cachedCount # None -> [w EXCEPT !.out = w.cachedCount]
          [] w.cachedCount = None /\ w.count # None ->
               [Put(w, "cachedCount", w.count, "count") EXCEPT !.out = w.count]
          [] w.cachedCount = None /\ w.count = None /\ derivable -> SetCount(w, Len(w.list), "list")
          [] w.cachedCount = None /\ w.count = None /\ ~derivable ->
               IF f.kind = "count" THEN [w EXCEPT !.out = None] ELSE SetCount(w, Len(Selected), None)

\* Mutant: the scan ends with the first batch that KeepItem rejects entirely.
RECURSIVE countByFullScan_Stops(_, _)
countByFullScan_Stops(f, offset) ==
    LET batch == _fetch_ids_from_db(offset, scanBatch)
        kept == Len(SelectSeq(ByIDs(f, batch), Keeps))
    IN  IF Len(batch) < scanBatch \/ kept = 0 THEN kept
        ELSE kept + countByFullScan_Stops(f, offset + Len(batch))

\* The rows KeepItem retains, batch by batch.
RECURSIVE countByFullScan(_, _)
countByFullScan(f, offset) ==
    LET batch == _fetch_ids_from_db(offset, scanBatch)
        kept == Len(SelectSeq(ByIDs(f, batch), Keeps))
    IN  IF Len(batch) < scanBatch THEN kept ELSE kept + countByFullScan(f, offset + Len(batch))

\* Count, unless KeepItem is custom: then from the precise entry, a list entry below
\* the limit, or a full scan.
CountPrecise(w, f) ==
    LET derivable == w.list # None /\ Len(w.list) < cacheListCountLimit
        cachePreciseCount(n, y) == [Put(w, "precise", n, y) EXCEPT !.out = n]
        scanned == cachePreciseCount(countByFullScan(f, 0), None)
    IN  CASE ~custom -> Count(w, f)
          [] custom /\ w.precise # None -> [w EXCEPT !.out = w.precise]
          [] custom /\ w.precise = None /\ derivable -> cachePreciseCount(Len(w.list), "list")
          [] custom /\ w.precise = None /\ ~derivable ->
               IF ToSet(Selected) \cap f.lost = {} THEN scanned
               ELSE [scanned EXCEPT !.suspect = @ \cup {"precise"}]

-----------------------------------------------------------------------------
(* Fetch, All and First.                                                   *)

invalidateCache(w) ==
    [w EXCEPT !.list = None, !.count = None, !.cachedIDs = None, !.cachedCount = None,
              !.suspect = @ \ {"list", "count", "cachedIDs", "cachedCount"}]

\* Mutant: rows are returned without asking KeepItem.
Checked_All(f, ids) == ByIDs(f, ids)

\* The rows of a batch that are found and kept.
Checked(f, ids) == SelectSeq(ByIDs(f, ids), Keeps)

\* The loop of Fetch: from the IDs in the object, then, while the offset is below
\* the total read before the loop, from SQL. The first batch of the object's IDs that
\* lacks a row invalidates the caches. s has the next offset,
\* the rows still needed, the results and the number of the iteration.
RECURSIVE FetchLoop(_, _, _, _)
FetchLoop(w, f, total, s) ==
    LET ids == IF w.cachedIDs = None THEN <<>> ELSE w.cachedIDs
        fromCache == s.offset < Len(ids)
        fromDB == ~fromCache /\ s.offset < total
        idsToCheck == CASE fromCache -> Window(ids, s.offset, s.needed)
                        [] fromDB    -> _fetch_ids_from_db(s.offset, s.needed)
                        [] OTHER     -> <<>>
        kept == Checked(f, idsToCheck)
        issue == fromCache /\ Len(kept) < Len(idsToCheck) /\ ~s.invalidated
    IN  IF s.needed = 0 THEN [w EXCEPT !.out = s.results]
        ELSE IF fromDB /\ f.kind = "select" /\ f.at = s.iteration THEN [w EXCEPT !.out = None]
        ELSE IF idsToCheck = <<>> THEN [w EXCEPT !.out = s.results]
        ELSE FetchLoop(IF issue THEN invalidateCache(w) ELSE w, f, total,
                       [offset |-> s.offset + Len(idsToCheck), needed |-> s.needed - Len(kept),
                        results |-> s.results \o kept, iteration |-> s.iteration + 1,
                        invalidated |-> s.invalidated \/ issue])

\* Mutant: the total is the number of IDs in the object.
FetchPages_Loaded(w, f, offset, limit) ==
    FetchLoop(w, f, Len(w.cachedIDs), [offset |-> offset, needed |-> limit, results |-> <<>>,
                                       iteration |-> 1, invalidated |-> FALSE])

\* The total is w.out, the result of Count, or else the number of IDs in the object.
FetchPages(w, f, offset, limit) ==
    FetchLoop(w, f, IF w.out = None THEN Len(w.cachedIDs) ELSE w.out,
              [offset |-> offset, needed |-> limit, results |-> <<>>,
               iteration |-> 1, invalidated |-> FALSE])

FetchLoaded(w, f, offset, limit) ==
    IF w.cachedIDs = <<>> THEN [w EXCEPT !.out = <<>>] ELSE FetchPages(Count(w, f), f, offset, limit)

\* Load the IDs, read the total, and go through the pages.
Fetch(w, f, offset, limit) == FetchLoaded(_fetch(w, f), f, offset, limit)

FetchAll(w, f) ==
    CASE w.out = None -> w
      [] w.out = 0    -> [w EXCEPT !.out = <<>>]
      [] OTHER        -> Fetch(w, f, 0, w.out)

\* Fetch(0, count). (The copy that the object keeps for later calls of All, and that
\* nothing else reads, is left out.)
All(w, f) == FetchAll(Count(w, f), f)

-----------------------------------------------------------------------------

Init ==
    /\ custom \in BOOLEAN /\ includeDeleted \in BOOLEAN
    /\ rows \in [1..MaxRows -> IF custom THEN Statuses ELSE Statuses \ {"hidden"}]
    /\ \A i, j \in 1..MaxRows : {rows[i], rows[j]} \subseteq {"absent", "deleted"} => i = j
    /\ list = None /\ count = None /\ precise = None
    /\ cachedIDs = None /\ cachedCount = None
    /\ suspect = {}
    /\ writes = 0

\* A call leaves the caches as w.
Leave(w) ==
    /\ list' = w.list /\ count' = w.count /\ precise' = w.precise
    /\ cachedIDs' = w.cachedIDs /\ cachedCount' = w.cachedCount
    /\ suspect' = w.suspect
    /\ UNCHANGED <<rows, custom, includeDeleted, writes>>

CallFetch == \E f \in Faults, offset \in Offsets, limit \in Limits : Leave(Fetch(Caches, f, offset, limit))

CallFirst == \E f \in Faults : Leave(Fetch(Caches, f, 0, 1))

CallAll == \E f \in Faults : Leave(All(Caches, f))

CallCount == \E f \in Faults : Leave(Count(Caches, f))

CallCountPrecise == \E f \in Faults : Leave(CountPrecise(Caches, f))

\* The caller builds the query again.
NewQuery ==
    /\ cachedIDs' = None /\ cachedCount' = None
    /\ suspect' = suspect \ Copies
    /\ UNCHANGED <<rows, custom, includeDeleted, list, count, precise, writes>>

\* The states a row can be written to: created, shown or hidden, soft-deleted, removed.
Successors(status) ==
    CASE status = "absent"  -> {"kept", "hidden"}
      [] status = "deleted" -> {"absent"}
      [] OTHER              -> {"kept", "hidden", "deleted", "absent"} \ {status}

\* A Save, SoftDelete or Delete of a row of the query. It deletes the registered list
\* and count keys; the object keeps what it has loaded.
Write(i, status) ==
    /\ writes < MaxWrites /\ writes' = writes + 1
    /\ status \in Successors(rows[i]) /\ (status = "hidden" => custom)
    /\ rows' = [rows EXCEPT ![i] = status]
    /\ list' = None /\ count' = None /\ precise' = None
    /\ suspect' = {x \in Copies : Caches[x] # None}
    /\ UNCHANGED <<custom, includeDeleted, cachedIDs, cachedCount>>

\* An entry reaches the end of its time to live.
Expire(x) ==
    /\ Caches[x] # None
    /\ list' = IF x = "list" THEN None ELSE list
    /\ count' = IF x = "count" THEN None ELSE count
    /\ precise' = IF x = "precise" THEN None ELSE precise
    /\ suspect' = suspect \ {x}
    /\ UNCHANGED <<rows, custom, includeDeleted, cachedIDs, cachedCount, writes>>

Next ==
    \/ CallFetch \/ CallFirst \/ CallAll \/ CallCount \/ CallCountPrecise
    \/ NewQuery
    \/ \E i \in 1..MaxRows, status \in Statuses : Write(i, status)
    \/ \E x \in Entries \ Copies : Expire(x)

Spec == Init /\ [][Next]_vars

-----------------------------------------------------------------------------

\* What is cached is right unless it is suspect: the list holds the first visible
\* rows, cacheListCountLimit at most; the precise count is the number of visible rows
\* (CountPrecise), whatever order the counts, the lists and the writes came in; the
\* count is that number or, for a custom KeepItem, the number of rows SQL selects, but
\* never the latter beside a list below the limit, from which Count can derive the
\* former.
EntriesExact ==
    LET right(ids) == ids = Take(Visible, cacheListCountLimit)
        near(n) == n \in {Len(Visible), Len(Selected)}
        trusted(x) == Caches[x] # None /\ x \notin suspect
    IN  /\ trusted("list") => right(list)
        /\ trusted("cachedIDs") => right(cachedIDs)
        /\ trusted("count") => near(count)
        /\ trusted("cachedCount") => near(cachedCount)
        /\ trusted("precise") => precise = Len(Visible)
        /\ trusted("list") /\ trusted("count") /\ Len(list) < cacheListCountLimit => count = Len(Visible)

\* The caches a Fetch reads can be trusted, and so can the list it loads.
Trusted ==
    (suspect \cup _fetch(Caches, NoFault).suspect) \cap {"list", "count", "cachedIDs", "cachedCount"} = {}

\* Fetch returns exactly the requested window of the visible rows, across the border
\* between the IDs in the object and SQL if KeepItem is not custom, and within the
\* IDs in the object if it is.
PageExact ==
    Trusted =>
        \A offset \in Offsets, limit \in Limits :
            LET r == Fetch(Caches, NoFault, offset, limit)
            IN  (~custom \/ offset + limit <= Len(r.cachedIDs))
                  => r.out = Window(Visible, offset, limit)

\* Fetch returns no row that is gone, soft-deleted or hidden, even from an object
\* loaded before the row changed and when rows cannot be loaded.
PageSound ==
    \A f \in Faults, offset \in Offsets, limit \in Limits :
        LET r == Fetch(Caches, f, offset, limit)
        IN  r.out # None => ToSet(r.out) \subseteq ToSet(Visible)

\* A caller who walks through the pages meets every visible row: where the object's
\* IDs end, the offset into them goes on as an offset into the rows SQL selects, which
\* may repeat rows but skips none. The same holds for All.
WalkCovers ==
    Trusted =>
        /\ \A limit \in Limits :
             ToSet(Visible) \subseteq
               UNION {ToSet(Fetch(Caches, NoFault, k * limit, limit).out) : k \in 0..(MaxRows \div limit)}
        /\ ToSet(Visible) \subseteq ToSet(All(Caches, NoFault).out)

=============================================================================
