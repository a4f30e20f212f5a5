------------------------------ MODULE Relations ------------------------------
(***************************************************************************)
(* Preloading of related models (relationships.go): belongsTo, hasMany and *)
(* manyToMany, with the cache entries the last two keep.                   *)
(*                                                                         *)
(* An item has the foreign key of its owner (belongsTo, hasMany), or items *)
(* and owners are linked in a join table (manyToMany). A preload and the   *)
(* writes of other goroutines interleave between its accesses to the cache *)
(* and the database.                                                       *)
(*                                                                         *)
(* A preload registers the keys "{items}:{owner}" and "{joinTable}:{owner}"*)
(* in the cache index. No entry has these keys, and an invalidation skips  *)
(* them (cache.go:229), so a write changes no entry and the index is left  *)
(* out. The model cache is taken to hold the rows of the table (ModelCache *)
(* has its races); no preload looks at the deleted flag.                   *)
(***************************************************************************)
EXTENDS Naturals, Sequences, FiniteSets

CONSTANTS
    Owners, Items,   \* primary keys
    Batches,         \* the sets of owners that are loaded together
    ForeignKeys,     \* the foreign keys that items are saved with, 0 for none
    Absent,          \* no row
    None,            \* no entry, no related model
    NoneResult       \* the marker cached for an empty list

ASSUME RelationsAssumption ==
    /\ 0 \notin Owners /\ Absent \notin Owners \cup {0} /\ None \notin Owners
    /\ None # NoneResult
    /\ \A ids \in SUBSET Items : ids # None /\ ids # NoneResult
    /\ ForeignKeys \subseteq Owners \cup {0} /\ Batches \subseteq SUBSET Owners
    /\ {} \notin Batches /\ IsFiniteSet(Owners)

VARIABLES
    relation,    \* the kind of relation that is preloaded
    fk,          \* the table of the items: the foreign key of each, 0 for none
    owners,      \* the rows of the owners' table
    links,       \* the join table
    cache,       \* the entry of each key: a set of item IDs, NoneResult or None
    missed,      \* history: the items written since a list entry's SELECT
    loader,      \* the preload under way
    result       \* what a preload that has just returned has put into its models

tables == <<fk, owners, links>>
vars == <<relation, fk, owners, links, cache, missed, loader, result>>

\* The local keys of a batch, in the order in which Go's map iteration, or the slice
\* of results, gives them.
Orders(B) ==
    {s \in [1..Cardinality(B) -> B] : \A i, j \in DOMAIN s : s[i] = s[j] => i = j}

AllOrders == UNION {Orders(B) : B \in Batches}

Elements(s) == {s[i] : i \in DOMAIN s}

\* Mutant: the hash covers the least argument only.
ListKey_Least(s) ==
    [kind |-> "list", keys |-> <<CHOOSE o \in Elements(s) : \A p \in Elements(s) : o <= p>>]

\* "list:{items}:{hash}": the hash covers the arguments in their order.
ListKey(s) == [kind |-> "list", keys |-> s]

\* "{joinTable}:{joinLocalKey}:{owner}".
JoinKey(o) == [kind |-> "join", keys |-> <<o>>]

Keys == {[kind |-> "list", keys |-> s] : s \in AllOrders} \cup {JoinKey(o) : o \in Owners}

IsIDs(v) == v \notin {None, NoneResult}

\* batch: the local keys; todo: those whose join entries are still to be read; ids:
\* relatedIDs or, by owner, relatedIDsMap; all: the IDs whose models are loaded.
\* History: since, the items written since the SELECT of some of these IDs, and cold,
\* that no join entry was used.
Idle == [pc |-> "idle", batch |-> <<>>, todo |-> <<>>, ids |-> [o \in Owners |-> {}],
         all |-> {}, since |-> {}, cold |-> TRUE]

NoResult == [of |-> None, since |-> {}, cold |-> TRUE, whole |-> FALSE]

\* Of the IDs asked for, the rows fetchModelsByIDsInternal can find.
Existing(ids) == {i \in ids : fk[i] # Absent}

\* The preload is over. It has set the fields of its models to of; whole says that no
\* row was missing because the database failed.
Return(of, whole) ==
    /\ result' = [of |-> of, since |-> loader.since, cold |-> loader.cold, whole |-> whole]
    /\ loader' = Idle
    /\ UNCHANGED <<relation, fk, owners, links, cache, missed>>

\* A failed SELECT of IDs ends the preload with an error and sets no field.
Abort ==
    /\ loader' = Idle /\ result' = NoResult
    /\ UNCHANGED <<relation, fk, owners, links, cache, missed>>

Continue(l) ==
    /\ loader' = l /\ result' = NoResult
    /\ UNCHANGED <<relation, fk, owners, links, cache, missed>>

-----------------------------------------------------------------------------
(* hasMany.                                                                *)

preloadHasMany ==
    /\ relation = "hasMany" /\ loader.pc = "idle"
    /\ \E s \in AllOrders : Continue([Idle EXCEPT !.pc = "getIDs", !.batch = s])

\* An entry with IDs is used. NoneResult cannot be decoded and counts as a miss, as
\* does every other error of the cache.
GetQueryIDs ==
    /\ loader.pc = "getIDs"
    /\ LET key == ListKey(loader.batch)
       IN  \/ /\ IsIDs(cache[key])
              /\ Continue([loader EXCEPT !.pc = "models", !.all = cache[key], !.since = missed[key]])
           \/ Continue([loader EXCEPT !.pc = "selectIDs"])

SelectIDs ==
    /\ loader.pc = "selectIDs"
    /\ \/ Continue([loader EXCEPT !.pc = "setIDs",
                                  !.all = {i \in Items : fk[i] \in Elements(loader.batch)}])
       \/ Abort

\* An error of the cache is logged and changes nothing else.
SetQueryIDs ==
    /\ loader.pc = "setIDs"
    /\ LET key == ListKey(loader.batch)
       IN  \/ /\ cache' = [cache EXCEPT ![key] = IF loader.all = {} THEN NoneResult ELSE loader.all]
              /\ missed' = [missed EXCEPT ![key] = IF loader.all = {} THEN {} ELSE loader.since]
           \/ UNCHANGED <<cache, missed>>
    /\ loader' = [loader EXCEPT !.pc = "models"]
    /\ UNCHANGED <<relation, fk, owners, links, result>>

\* Mutant: the models go to the owner whose list they were in, the first of the batch
\* if there are several.
Grouped_ByList(found) ==
    [o \in Elements(loader.batch) |-> IF o = loader.batch[1] THEN found ELSE {}]

\* The models by their foreign key.
Grouped(found) == [o \in Elements(loader.batch) |-> {i \in found : fk[i] = o}]

\* A batch that cannot be loaded is left out; models in the model cache are found.
LoadModels ==
    /\ loader.pc = "models"
    /\ \E found \in SUBSET Existing(loader.all) :
         Return(Grouped(found), found = Existing(loader.all))

-----------------------------------------------------------------------------
(* manyToMany.                                                             *)

preloadManyToMany ==
    /\ relation = "manyToMany" /\ loader.pc = "idle"
    /\ \E s \in AllOrders : Continue([Idle EXCEPT !.pc = "getJoin", !.batch = s, !.todo = s])

\* The IDs of an entry go to their owner's list, and not to the IDs to be loaded.
GetJoin ==
    /\ loader.pc = "getJoin" /\ loader.todo # <<>>
    /\ LET o == Head(loader.todo)
           key == JoinKey(o)
       IN  \/ /\ cache[key] # None
              /\ Continue([loader EXCEPT !.ids[o] = cache[key], !.todo = Tail(@), !.cold = FALSE])
           \/ Continue([loader EXCEPT !.pc = "selectJoin"])

\* Mutant: the IDs to be loaded are those of the last owner.
SelectJoin_Last ==
    /\ loader.pc = "selectJoin"
    /\ LET o == Head(loader.todo)
           linked == {i \in Items : <<o, i>> \in links}
       IN  Continue([loader EXCEPT !.pc = "setJoin", !.ids[o] = linked, !.all = linked])

SelectJoin ==
    /\ loader.pc = "selectJoin"
    /\ LET o == Head(loader.todo)
           linked == {i \in Items : <<o, i>> \in links}
       IN  \/ Continue([loader EXCEPT !.pc = "setJoin", !.ids[o] = linked, !.all = @ \cup linked])
           \/ Abort

\* The entry has no time to live.
SetJoin ==
    /\ loader.pc = "setJoin"
    /\ LET o == Head(loader.todo)
       IN  cache' \in {cache, [cache EXCEPT ![JoinKey(o)] = loader.ids[o]]}
    /\ loader' = [loader EXCEPT !.pc = "getJoin", !.todo = Tail(@)]
    /\ UNCHANGED <<relation, fk, owners, links, missed, result>>

\* Each owner gets those of its IDs whose models were loaded.
LoadLinked ==
    /\ loader.pc = "getJoin" /\ loader.todo = <<>>
    /\ \E found \in SUBSET Existing(loader.all) :
         Return([o \in Elements(loader.batch) |-> loader.ids[o] \cap found],
                found = Existing(loader.all))

-----------------------------------------------------------------------------
(* belongsTo.                                                              *)

\* Mutant: a key that is zero ends the collection of keys.
fkValues_UntilZero(copies) ==
    IF \E i \in DOMAIN copies : copies[i] = 0 THEN {} ELSE {copies[i] : i \in DOMAIN copies}

fkValues(copies) == {copies[i] : i \in DOMAIN copies} \ {0}

\* The models are copies of items read at any time. A field whose owner is not found
\* stays nil.
preloadBelongsTo ==
    /\ relation = "belongsTo"
    /\ \E models \in (SUBSET Items) \ {{}} : \E copies \in [models -> Owners \cup {0}] :
       \E found \in SUBSET (fkValues(copies) \cap owners) :
         Return([i \in models |->
                   [fk |-> copies[i], owner |-> IF copies[i] \in found THEN copies[i] ELSE None]],
                found = fkValues(copies) \cap owners)

-----------------------------------------------------------------------------
(* Writes of other goroutines, and the time to live of list entries.       *)

\* The preload has got no IDs yet, or there is none.
NothingRead ==
    \/ loader.pc \in {"idle", "getIDs", "selectIDs"}
    \/ loader.pc \in {"getJoin", "selectJoin"} /\ loader.todo = loader.batch

\* A row of item i, or a link to it, is written.
Touch(i) ==
    /\ missed' = [k \in Keys |-> IF k.kind = "list" /\ IsIDs(cache[k]) THEN missed[k] \cup {i} ELSE {}]
    /\ loader' = IF NothingRead THEN loader ELSE [loader EXCEPT !.since = @ \cup {i}]
    /\ result' = NoResult
    /\ UNCHANGED <<relation, owners, cache>>

\* An item is created, or moved to another owner.
SaveItem(i, o) ==
    /\ relation = "hasMany" /\ fk[i] # o
    /\ fk' = [fk EXCEPT ![i] = o] /\ links' = links
    /\ Touch(i)

DeleteItem(i) ==
    /\ relation # "belongsTo" /\ fk[i] # Absent
    /\ fk' = [fk EXCEPT ![i] = Absent] /\ links' = links
    /\ Touch(i)

\* A row of the join table is saved or deleted.
SaveLink(o, i) ==
    /\ relation = "manyToMany"
    /\ links' = IF <<o, i>> \in links THEN links \ {<<o, i>>} ELSE links \cup {<<o, i>>}
    /\ fk' = fk
    /\ Touch(i)

WriteOwner(o) ==
    /\ relation = "belongsTo"
    /\ owners' = IF o \in owners THEN owners \ {o} ELSE owners \cup {o}
    /\ result' = NoResult
    /\ UNCHANGED <<relation, fk, links, cache, missed, loader>>

\* Mutant: list entries have no time to live either.
Expire_Never(k) == FALSE /\ UNCHANGED vars

\* SetQueryIDs and Set of NoneResult give a list entry a time to live.
Expire(k) ==
    /\ k.kind = "list" /\ cache[k] # None
    /\ cache' = [cache EXCEPT ![k] = None] /\ missed' = [missed EXCEPT ![k] = {}]
    /\ result' = NoResult
    /\ UNCHANGED <<relation, fk, owners, links, loader>>

-----------------------------------------------------------------------------

Init ==
    /\ relation \in {"belongsTo", "hasMany", "manyToMany"}
    /\ fk \in IF relation = "hasMany" THEN [Items -> ForeignKeys \cup {Absent}] ELSE {[i \in Items |-> 0]}
    /\ owners \in IF relation = "belongsTo" THEN SUBSET Owners ELSE {Owners}
    /\ links \in IF relation = "manyToMany" THEN SUBSET (Owners \X Items) ELSE {{}}
    /\ cache = [k \in Keys |-> None] /\ missed = [k \in Keys |-> {}]
    /\ loader = Idle /\ result = NoResult

Step ==
    \/ GetQueryIDs \/ SelectIDs \/ SetQueryIDs \/ LoadModels
    \/ GetJoin \/ SelectJoin \/ SetJoin \/ LoadLinked

Next ==
    \/ preloadHasMany \/ preloadManyToMany \/ preloadBelongsTo
    \/ Step
    \/ \E i \in Items, o \in ForeignKeys : SaveItem(i, o)
    \/ \E i \in Items : DeleteItem(i)
    \/ \E o \in Owners, i \in Items : SaveLink(o, i)
    \/ \E o \in Owners : WriteOwner(o)
    \/ \E k \in Keys : Expire(k)

Spec == Init /\ [][Next]_vars

\* A preload under way goes on, and no list entry outlives its time to live.
FairSpec == Spec /\ WF_vars(Step) /\ \A k \in Keys : WF_vars(Expire(k))

-----------------------------------------------------------------------------

Returned(kind) == relation = kind /\ result.of # None

\* preloadHasMany gives an owner only items that are the owner's when it returns, no
\* matter how old the list entry is, or what is written between its steps.
HasManySound ==
    Returned("hasMany") => \A o \in DOMAIN result.of : \A i \in result.of[o] : fk[i] = o

\* Unless the database failed, it misses only items that were written after the list
\* of IDs was selected.
HasManyComplete ==
    Returned("hasMany") /\ result.whole =>
        \A o \in DOMAIN result.of, i \in Items \ result.since : fk[i] = o => i \in result.of[o]

\* The items an owner is linked to.
Linked(o) == {i \in Items : <<o, i>> \in links /\ fk[i] # Absent}

\* A preloadManyToMany that finds no entry gives each owner its linked items, up to
\* writes in the meantime.
ColdManyToMany ==
    Returned("manyToMany") /\ result.whole /\ result.cold =>
        \A o \in DOMAIN result.of :
            result.of[o] \ result.since = Linked(o) \ result.since

\* preloadBelongsTo sets a model's field to the owner its foreign key names, if there
\* is one and the database does not fail, even if other models of the batch have no
\* owner.
BelongsToExact ==
    Returned("belongsTo") =>
        \A i \in DOMAIN result.of :
            LET m == result.of[i]
            IN  /\ m.owner # None => m.owner = m.fk /\ m.fk \in owners
                /\ result.whole /\ m.fk \in owners => m.owner = m.fk

ListsExact ==
    \A s \in AllOrders :
        LET v == cache[[kind |-> "list", keys |-> s]]
        IN  IsIDs(v) => v = {i \in Items : fk[i] \in Elements(s)}

\* Writes invalidate no list entry of a relation. Once they cease, every list entry
\* nevertheless comes to hold the items of its owners.
EventuallyExact == (<>[][UNCHANGED tables]_vars) => <>[]ListsExact

-----------------------------------------------------------------------------
(* What the repository says of these calls and the code does not keep.     *)

\* The second load of a relation finds the entry of the first ("second load should be
\* cache hit") and has the same related models (tests/many_to_many_cache_test.go:121):
\* an item that is in an owner's entry, and linked to it, is preloaded.
WarmManyToMany ==
    Returned("manyToMany") /\ result.whole =>
        \A o \in DOMAIN result.of :
            cache[JoinKey(o)] # None =>
                (cache[JoinKey(o)] \cap Linked(o)) \ result.since \subseteq result.of[o]

=============================================================================
