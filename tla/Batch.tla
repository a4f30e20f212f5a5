-------------------------------- MODULE Batch -------------------------------
(* SaveMany and DeleteMany (crud.go): the writes of a batch in one           *)
(* transaction, with the listeners of Hooks before each of them, and the     *)
(* caches of the models and of one query brought up to date after the        *)
(* commit.  A write, a commit, a call to the cache may fail; a commit may    *)
(* fail after it has taken effect; the process may crash.  The application   *)
(* keeps its objects between calls and may call again with the same ones.    *)
(*                                                                           *)
(* A row is one column.  The query asks for the rows that are 1.  The other  *)
(* instances read, insert and delete in single steps: how their steps race   *)
(* with those of a call is the subject of ModelCache and QueryCache.         *)
EXTENDS Hooks

CONSTANTS
    Objects,     \* the objects of the application, pointers to models
    Batches,     \* the arguments of a call: sequences of objects
    Vetoes,      \* pairs of a listener and a value it returns an error for
    Absent,      \* no row, no cache entry, nothing written
    Deleted,     \* the write of a DELETE
    MaxId,
    Scenarios    \* [event, changes, calls, faults, others]: the event type the listeners
                 \* are registered for, and how many times what happens

Ids == 1 .. MaxId
Vals == {0, 1}

ASSUME BatchAssumption ==
    /\ MaxId \in Nat \ {0}
    /\ Batches \subseteq Seq(Objects)
    /\ Absent \notin Vals /\ Deleted \notin Vals \cup {Absent}

List == 0        \* the key of the cached query among those of the models

VARIABLES
    reuse,       \* whether a rolled-back INSERT gives its id back (SQLite)
    event,       \* the event type the listeners are registered for
    db, last,    \* the committed rows, the last id given to an INSERT
    tx,          \* the writes of the transaction: a value, Deleted or Absent
    cache, list, \* the cached models, the cached ids of the query or Absent
    obj,         \* the id and the value of every object, id 0 before it is saved
    pc, op, batch, pos,
    began,       \* the last id when the transaction began
    muts,        \* the mutations that were applied: [obj, old, ghost]; old is 0
                 \* for an INSERT, and ghost says that an UPDATE found no row
    calls, faults, others,   \* how many more there are
    unread,      \* history: ids of objects whose original could not be read
    doubt        \* history: the keys of cache entries that may be wrong

dbVars == <<db, last, tx>>
cacheVars == <<cache, list>>
callVars == <<pc, op, batch, pos, began, muts, unread>>
vars == <<hookVars, reuse, event, dbVars, cacheVars, obj, callVars, calls, faults, others, doubt>>

NoWrites == [i \in Ids |-> Absent]
Applied(t, w) == [i \in Ids |-> IF w[i] = Absent THEN t[i] ELSE IF w[i] = Deleted THEN Absent ELSE w[i]]
Result(t) == {i \in Ids : t[i] = 1}      \* what the query returns
Locked == reuse /\ pc \notin {"idle", "set", "invalidate"}    \* SQLite has one writer

Init ==
    /\ HookInit
    /\ reuse \in BOOLEAN
    /\ \E s \in Scenarios :
          /\ event = s.event /\ changes = s.changes
          /\ calls = s.calls /\ faults = s.faults /\ others = s.others
    /\ \E v \in Vals : db = [i \in Ids |-> IF i = 1 THEN v ELSE Absent]
    /\ last = 1
    /\ tx = NoWrites
    /\ cache = [i \in Ids |-> Absent] /\ list = Absent
    /\ obj = [o \in Objects |-> [id |-> 0, val |-> 0]]
    /\ pc = "idle" /\ op = "save" /\ batch = <<>> /\ pos = 0 /\ began = 0
    /\ muts = <<>> /\ unread = {}
    /\ doubt = {}

-----------------------------------------------------------------------------
(* Around the call.                                                          *)

Other == others > 0 /\ others' = others - 1

\* Another instance fetches a model or runs the query, and fills the cache.
ReadModel(i) ==
    /\ Other
    /\ cache[i] = Absent /\ db[i] # Absent
    /\ cache' = [cache EXCEPT ![i] = db[i]]
    /\ UNCHANGED <<hookVars, reuse, event, dbVars, list, obj, callVars, calls, faults, doubt>>
ReadList ==
    /\ Other
    /\ list = Absent
    /\ list' = Result(db)
    /\ UNCHANGED <<hookVars, reuse, event, dbVars, cache, obj, callVars, calls, faults, doubt>>

\* Another instance inserts a row, or deletes one, and brings the caches up to
\* date.  A row that the call is about to cache is wrong there afterwards.
OtherInsert(v) ==
    /\ Other
    /\ ~Locked /\ last < MaxId
    /\ last' = last + 1
    /\ db' = [db EXCEPT ![last + 1] = v]
    /\ cache' = [cache EXCEPT ![last + 1] = v]
    /\ list' = IF v = 1 THEN Absent ELSE list
    /\ doubt' = (doubt \ {last + 1}) \ (IF v = 1 THEN {List} ELSE {})
    /\ UNCHANGED <<hookVars, reuse, event, tx, obj, callVars, calls, faults>>
OtherDelete(i) ==
    /\ Other
    /\ ~Locked /\ db[i] # Absent /\ tx[i] = Absent
    /\ db' = [db EXCEPT ![i] = Absent]
    /\ cache' = [cache EXCEPT ![i] = Absent]
    /\ list' = IF db[i] = 1 THEN Absent ELSE list
    /\ doubt' = (doubt \ (IF db[i] = 1 THEN {List} ELSE {}))
                \cup {j \in {i} : \E k \in DOMAIN muts : obj[muts[k].obj].id = j}
    /\ UNCHANGED <<hookVars, reuse, event, last, tx, obj, callVars, calls, faults>>

\* Mutant: models are stored without a time to live.
Expire_Lists(k) ==
    /\ k = List /\ list # Absent
    /\ list' = Absent
    /\ doubt' = doubt \ {k}
    /\ UNCHANGED <<hookVars, reuse, event, dbVars, cache, obj, callVars, calls, faults, others>>

\* An entry outlives its time to live.
Expire(k) ==
    /\ IF k = List THEN list # Absent /\ list' = Absent /\ UNCHANGED cache
                   ELSE cache[k] # Absent /\ cache' = [cache EXCEPT ![k] = Absent] /\ UNCHANGED list
    /\ doubt' = doubt \ {k}
    /\ UNCHANGED <<hookVars, reuse, event, dbVars, obj, callVars, calls, faults, others>>

\* A listener is registered or unregistered, or all are.  Between the walks this
\* would only change what the next one starts with.
Registry ==
    /\ pc = "hook" \/ ~Unlocked
    /\ HookChange
    /\ UNCHANGED <<reuse, event, dbVars, cacheVars, obj, callVars, calls, faults, others, doubt>>

-----------------------------------------------------------------------------
(* The call.                                                                 *)

\* The application makes new objects, fetches some, changes the values of some,
\* or takes them as an earlier call has left them.
Values(o) ==
    {[id |-> i, val |-> v] : i \in {0, obj[o].id}, v \in Vals}
    \cup {[id |-> i, val |-> db[i]] : i \in {j \in Ids : db[j] # Absent}}
Call(o, b) ==
    /\ pc = "idle" /\ calls > 0
    /\ obj' \in {f \in [Objects -> UNION {Values(x) : x \in Objects}] :
                   \A x \in Objects : IF \E k \in DOMAIN b : b[k] = x THEN f[x] \in Values(x) ELSE f[x] = obj[x]}
    /\ op' = o /\ batch' = b /\ began' = last
    /\ pc' = "item" /\ pos' = 1 /\ muts' = <<>> /\ unread' = {}
    /\ calls' = calls - 1
    /\ UNCHANGED <<hookVars, reuse, event, dbVars, cacheVars, faults, others, doubt>>

Item == batch[pos]
IsNew == op = "save" /\ obj[Item].id = 0

\* The event types that are triggered before the item is written.
Events ==
    CASE op = "delete" -> {"BeforeDelete"}
      [] IsNew -> {"BeforeSave", "BeforeCreate"}
      [] OTHER -> {"BeforeSave"}

\* The listeners are called, unless the event type has none.
Before ==
    /\ pc = "item" /\ pos <= Len(batch)
    /\ op = "delete" => obj[Item].id # 0
    /\ IF event \in Events
       THEN Trigger /\ pc' = "hook"
       ELSE pc' = "write" /\ UNCHANGED hookVars
    /\ UNCHANGED <<reuse, event, dbVars, cacheVars, obj, op, batch, began, pos, muts, unread, calls, faults, others, doubt>>

\* Mutant: the error of a listener is only logged.
Listen_ErrorLogged ==
    /\ pc = "hook" /\ ~Ended
    /\ Pass
    /\ UNCHANGED <<reuse, event, dbVars, cacheVars, obj, callVars, calls, faults, others, doubt>>

\* A listener returns nil.
Listen ==
    /\ pc = "hook" /\ ~Ended
    /\ <<Listener, obj[Item].val>> \notin Vetoes
    /\ Pass
    /\ UNCHANGED <<reuse, event, dbVars, cacheVars, obj, callVars, calls, faults, others, doubt>>

\* All have.
Heard ==
    /\ pc = "hook" /\ Ended
    /\ Leave
    /\ pc' = "write"
    /\ UNCHANGED <<reuse, event, dbVars, cacheVars, obj, op, batch, began, pos, muts, unread, calls, faults, others, doubt>>

Seen(i) == Applied(db, tx)[i]            \* what a statement of the transaction reads

\* Mutant: the original is read outside the transaction.
Original_Committed(i) == IF db[i] = Absent THEN 0 ELSE db[i]

\* What an update is compared with: the row, or a zero model when there is none.
Original(i) == IF Seen(i) = Absent THEN 0 ELSE Seen(i)

\* The INSERT of a new object, which gets its id; the UPDATE of a row that differs
\* from the original, which does not fail when there is no row; the DELETE.
Mutation(old, ghost) == [obj |-> Item, old |-> old, ghost |-> ghost]
Insert ==
    /\ IsNew /\ last < MaxId
    /\ last' = last + 1
    /\ tx' = [tx EXCEPT ![last + 1] = obj[Item].val]
    /\ obj' = [obj EXCEPT ![Item].id = last + 1]
    /\ muts' = Append(muts, Mutation(0, FALSE))
Update(i, original) ==
    /\ op = "save" /\ ~IsNew
    /\ IF obj[Item].val = original
       THEN UNCHANGED <<tx, muts>>
       ELSE /\ tx' = IF Seen(i) = Absent THEN tx ELSE [tx EXCEPT ![i] = obj[Item].val]
            /\ muts' = Append(muts, Mutation(original, Seen(i) = Absent))
    /\ UNCHANGED <<last, obj>>
Delete(i) ==
    /\ op = "delete" /\ Seen(i) # Absent
    /\ tx' = [tx EXCEPT ![i] = Deleted]
    /\ muts' = Append(muts, Mutation(Original(i), FALSE))
    /\ UNCHANGED <<last, obj>>
Written ==
    /\ pc = "write"
    /\ pc' = "item" /\ pos' = pos + 1
    /\ UNCHANGED <<hookVars, reuse, event, db, cacheVars, op, batch, began, calls, others, doubt>>
Write ==
    /\ Written
    /\ \/ Insert
       \/ Update(obj[Item].id, Original(obj[Item].id))
       \/ Delete(obj[Item].id)
    /\ UNCHANGED <<unread, faults>>

Fault == faults > 0 /\ faults' = faults - 1

\* The original cannot be read, which is taken as if there were none.
WriteUnread ==
    /\ Fault
    /\ Written
    /\ Update(obj[Item].id, 0)
    /\ unread' = unread \cup {obj[Item].id}

\* The call returns an error and the transaction is rolled back.  The objects
\* keep the ids that their INSERTs got.
Undo ==
    /\ tx' = NoWrites
    /\ last' = IF reuse THEN began ELSE last
Over == pc' = "idle" /\ batch' = <<>> /\ pos' = 0 /\ began' = 0 /\ muts' = <<>> /\ unread' = {}
Rollback ==
    /\ Undo
    /\ Over
    /\ UNCHANGED <<reuse, event, db, cacheVars, obj, op, calls, others>>

\* A listener returns an error.
Veto ==
    /\ pc = "hook" /\ ~Ended
    /\ <<Listener, obj[Item].val>> \in Vetoes
    /\ Leave
    /\ Rollback
    /\ UNCHANGED <<faults, doubt>>

\* There is nothing to delete.
Missing ==
    /\ op = "delete"
    /\ \/ pc = "item" /\ pos <= Len(batch) /\ obj[Item].id = 0
       \/ pc = "write" /\ Seen(obj[Item].id) = Absent
    /\ Rollback
    /\ UNCHANGED <<hookVars, faults, doubt>>

\* BeginTx, a statement or the commit fails, without effect.
Fail ==
    /\ Fault
    /\ \/ pc = "write"
       \/ pc = "item" /\ pos \in {1, Len(batch) + 1}
    /\ Rollback
    /\ UNCHANGED <<hookVars, doubt>>

Touched == {obj[muts[k].obj].id : k \in DOMAIN muts}

Commit ==
    /\ pc = "item" /\ pos > Len(batch)
    /\ db' = Applied(db, tx)
    /\ tx' = NoWrites
    /\ pc' = "set" /\ pos' = 1
    /\ UNCHANGED <<hookVars, reuse, event, last, cacheVars, obj, op, batch, began, muts, unread, calls, faults, others, doubt>>

\* The commit takes effect, and the answer is lost: SaveMany returns an error
\* and leaves the caches alone.
CommitUnknown ==
    /\ Fault
    /\ pc = "item" /\ pos > Len(batch)
    /\ db' = Applied(db, tx)
    /\ tx' = NoWrites
    /\ doubt' = doubt \cup Touched \cup {List}
    /\ Over
    /\ UNCHANGED <<hookVars, reuse, event, last, cacheVars, obj, op, calls, others>>

\* finalizeSave and finalizeDelete, for each mutation: the model's entry ...
Done == pos > Len(muts)
Model == obj[muts[pos].obj]
SetModel ==
    /\ pc = "set" /\ ~Done
    /\ cache' = [cache EXCEPT ![Model.id] = IF op = "save" THEN Model.val ELSE Absent]
    /\ doubt' = IF op = "save" /\ (muts[pos].ghost \/ db[Model.id] = Absent)
                THEN doubt \cup {Model.id} ELSE doubt \ {Model.id}
    /\ pc' = "invalidate"
    /\ UNCHANGED <<hookVars, reuse, event, dbVars, list, obj, op, batch, began, pos, muts, unread, calls, faults, others>>

\* ... which a failing lock or cache leaves as it is.  A failing finalizeDelete
\* passes over the query caches, too; its error is what DeleteMany returns in the end.
SetFails ==
    /\ Fault
    /\ pc = "set" /\ ~Done
    /\ doubt' = doubt \cup {Model.id} \cup (IF op = "save" THEN {} ELSE {List})
    /\ IF op = "save" THEN pc' = "invalidate" /\ UNCHANGED pos
                      ELSE pos' = pos + 1 /\ UNCHANGED pc
    /\ UNCHANGED <<hookVars, reuse, event, dbVars, cacheVars, obj, op, batch, began, muts, unread, calls, others>>

\* Mutant: a row that leaves the result is not noticed.
Affected_Matching == Model.val = 1

\* ... and the query, when the row enters or leaves its result.  A deleted row
\* is judged by the object, which may not be what was in the table.
Affected ==
    IF op = "delete" THEN Model.val = 1
    ELSE Model.val # muts[pos].old
Misjudged == op = "delete" /\ Model.val = 0 /\ muts[pos].old = 1
Invalidate ==
    /\ pc = "invalidate"
    /\ \/ list' = IF Affected THEN Absent ELSE list
       \/ list' = list
    /\ LET fails == Affected /\ list' # Absent
       IN  /\ fails => faults > 0
           /\ faults' = IF fails THEN faults - 1 ELSE faults
           /\ doubt' = IF fails \/ Misjudged THEN doubt \cup {List}
                       ELSE IF Affected THEN doubt \ {List} ELSE doubt
    /\ pc' = "set" /\ pos' = pos + 1
    /\ UNCHANGED <<hookVars, reuse, event, dbVars, cache, obj, op, batch, began, muts, unread, calls, others>>

Return ==
    /\ pc = "set" /\ Done
    /\ Over
    /\ UNCHANGED <<hookVars, reuse, event, dbVars, cacheVars, obj, op, calls, faults, others, doubt>>

\* The process crashes: the database rolls back what is not committed, the
\* objects are lost and what is left of the call does not happen.
Crash ==
    /\ Fault
    /\ pc # "idle"
    /\ IF pc \in {"set", "invalidate"} THEN UNCHANGED <<tx, last>> ELSE Undo
    /\ doubt' = doubt \cup (IF pc \in {"set", "invalidate"} THEN Touched \cup {List} ELSE {})
    /\ obj' = [o \in Objects |-> [id |-> 0, val |-> 0]]
    /\ Over
    /\ Restart
    /\ UNCHANGED <<reuse, event, db, cacheVars, op, calls, others>>

Step ==
    \/ Before \/ Listen \/ Heard \/ Veto \/ Write \/ Missing
    \/ Commit \/ SetModel \/ Invalidate \/ Return
Faulty == WriteUnread \/ Fail \/ CommitUnknown \/ SetFails \/ Crash
Around ==
    \/ \E i \in Ids : ReadModel(i) \/ OtherDelete(i)
    \/ ReadList
    \/ \E v \in Vals : OtherInsert(v)
    \/ \E k \in Ids \cup {List} : Expire(k)
    \/ Registry
Next ==
    \/ \E o \in {"save", "delete"}, b \in Batches : Call(o, b)
    \/ Step \/ Faulty \/ Around

Spec == Init /\ [][Next]_vars

\* A call goes on, the registry's lock is released, and an entry expires.
FairSpec ==
    /\ Spec
    /\ WF_vars(Step) /\ WF_vars(Registry /\ ~Unlocked)
    /\ \A k \in Ids \cup {List} : WF_vars(Expire(k))

-----------------------------------------------------------------------------
(* Properties.                                                               *)

Right(k) ==
    IF k = List THEN list \in {Absent, Result(db)} ELSE cache[k] \in {Absent, db[k]}

\* Until a batch commits, and once its call has ended, the caches agree with
\* the table, except for the keys whose entry a crash, a lost answer, a failing
\* cache, a row that another instance deleted or an object unlike its row has
\* left in doubt.
BatchCoherent == pc \notin {"set", "invalidate"} => \A k \in (Ids \cup {List}) \ doubt : Right(k)

\* A batch that commits leaves each row it saved as the last of its objects with
\* that id has it, unless the row did not exist when it was to be updated.
CommitStoresLast ==
    [][Commit /\ op = "save" =>
        \A n \in DOMAIN batch :
            LET i == obj[batch[n]].id
            IN  \/ \E m \in n + 1 .. Len(batch) : obj[batch[m]].id = i
                \/ db'[i] = obj[batch[n]].val
                \/ Seen(i) = Absent
                \/ i \in unread]_vars

\* When triggerEvent returns without an error, no listener that was registered
\* when it began has an error for the item, but for one that UnregisterListener
\* removed meanwhile, and the listeners registered after that one: it may miss
\* those, which are moved while it walks.  RegisterListener and ResetListeners do
\* not make it miss any.
VetoRespected ==
    pc = "hook" /\ Ended => \A l \in due : <<l, obj[Item].val>> \notin Vetoes

\* Whatever was left in doubt, the caches agree with the table once no calls are
\* made any more.
EventuallyRepaired == <>[](\A k \in Ids \cup {List} : Right(k))

=============================================================================
