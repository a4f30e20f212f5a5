----------------------------- MODULE ModelCache -----------------------------
(***************************************************************************)
(* ByID, Save, Delete and ClearCacheByID of crud.go and cache.go on the    *)
(* rows of one table and the model cache entries "{table}:{id}".           *)
(*                                                                         *)
(* A client runs one call at a time. Every access of a call to the         *)
(* database, to the cache or to the lock "{table}:{id}:lock" is a step of  *)
(* its own, so calls of different clients interleave as the code lets      *)
(* them: a fetch takes no lock, a Save writes the database before it locks,*)
(* a Delete does both under the lock.                                      *)
(*                                                                         *)
(* A row is its columns without the primary key and updated_at. Hooks and  *)
(* query caches are left out.                                              *)
(***************************************************************************)
EXTENDS Naturals, FiniteSets

CONSTANTS
    Clients,
    Ids,               \* primary keys
    Columns, Values,
    Zero,              \* the zero value of a column's Go type
    Absent,            \* no row, no cache entry, no client
    NoneResult         \* the cached marker of a missing row

Row == [Columns -> Values]

ASSUME ModelAssumption ==
    /\ Zero \in Values
    /\ Absent \notin Row /\ NoneResult \notin Row /\ NoneResult # Absent
    /\ Absent \notin Clients

VARIABLES
    db,          \* the table: a row or Absent for each id
    cache,       \* a row, NoneResult or Absent for each id
    lock,        \* the holder of each id's lock, or Absent
    client,      \* each client's call and its local variables
    fresh,       \* the ids no INSERT has used yet
    disturbed    \* history: the ids on which two calls have run at once, or a
                 \* Save has found no original to compare with

vars == <<db, cache, lock, client, fresh, disturbed>>

PCs == {"idle", "get", "select", "fill", "exec", "lock",
        "setmodel", "dbdelete", "uncache", "unlock"}

\* value: the argument of Save; found: the fetched model, which is Save's original.
Client ==
    [pc : PCs, op : {"byid", "save", "delete"}, id : Ids, value : Row,
     found : Row \cup {Absent}]

ZeroRow == [c \in Columns |-> Zero]

Init ==
    /\ db \in [Ids -> Row \cup {Absent}]
    /\ cache = [i \in Ids |-> Absent]
    /\ lock = [i \in Ids |-> Absent]
    /\ client \in [Clients -> {[pc |-> "idle", op |-> "byid", id |-> i, value |-> ZeroRow,
                                found |-> Absent] : i \in Ids}]
    /\ \A c, d \in Clients : client[c] = client[d]
    /\ fresh \in SUBSET {i \in Ids : db[i] = Absent}
    /\ disturbed = {}

Busy(c, i) == client[c].pc # "idle" /\ client[c].id = i

\* A client that returns keeps no local variables.
Done(c) ==
    client' = [client EXCEPT ![c] = [pc |-> "idle", op |-> "byid", id |-> @.id,
                                     value |-> ZeroRow, found |-> Absent]]

Goto(c, pc) == client' = [client EXCEPT ![c].pc = pc]

Start(c, op, i, value, pc) ==
    /\ client[c].pc = "idle"
    /\ client' = [client EXCEPT ![c] = [pc |-> pc, op |-> op, id |-> i, value |-> value,
                                        found |-> Absent]]
    /\ disturbed' = IF \E d \in Clients : d # c /\ Busy(d, i)
                     THEN disturbed \cup {i} ELSE disturbed

-----------------------------------------------------------------------------
(* fetchModelsByIDsInternal, called by ByID and by Save for the original.  *)

\* The fetch is over: ByID returns, Save goes on to compare and write.
FetchDone(c, model) ==
    IF client[c].op = "save"
    THEN /\ client' = [client EXCEPT ![c].pc = "exec", ![c].found = model]
         /\ disturbed' = IF model = Absent THEN disturbed \cup {client[c].id} ELSE disturbed
    ELSE Done(c) /\ UNCHANGED disturbed

\* Neither cache client reports the marker NoneResult as such: decoding it fails
\* with another error, which counts as a miss.
MGetModel(c) ==
    /\ client[c].pc = "get"
    /\ LET entry == cache[client[c].id]
       IN  IF entry \in Row
           THEN FetchDone(c, entry)
           ELSE Goto(c, "select") /\ UNCHANGED disturbed
    /\ UNCHANGED <<db, cache, lock, fresh>>

Select(c) ==
    /\ client[c].pc = "select"
    /\ client' = [client EXCEPT ![c].pc = "fill", ![c].found = db[client[c].id]]
    /\ UNCHANGED <<db, cache, lock, fresh, disturbed>>

\* A failed SELECT is logged and the model counts as not found.
SelectFails(c) ==
    /\ client[c].pc = "select"
    /\ FetchDone(c, Absent)
    /\ UNCHANGED <<db, cache, lock, fresh>>

\* SetModel for a row that was found, Set(NoneResult) for one that was not.
Fill(c) ==
    /\ client[c].pc = "fill"
    /\ cache' = [cache EXCEPT ![client[c].id] =
                    IF client[c].found = Absent THEN NoneResult ELSE client[c].found]
    /\ FetchDone(c, client[c].found)
    /\ UNCHANGED <<db, lock, fresh>>

ByID(c, i) ==
    /\ Start(c, "byid", i, ZeroRow, "get")
    /\ UNCHANGED <<db, cache, lock, fresh>>

-----------------------------------------------------------------------------
(* saveWithExecutor and finalizeSave.                                      *)

\* Save of a model that has an ID.
SaveExisting(c, i, value) ==
    /\ i \notin fresh
    /\ Start(c, "save", i, value, "get")
    /\ UNCHANGED <<db, cache, lock, fresh>>

\* Save of a new model: the INSERT gives it an ID no row has had before. (If
\* the INSERT fails, nothing happens.)
SaveNew(c, i, value) ==
    /\ i \in fresh
    /\ Start(c, "save", i, value, "lock")
    /\ db' = [db EXCEPT ![i] = value]
    /\ fresh' = fresh \ {i}
    /\ UNCHANGED <<cache, lock>>

\* The original to compare with: a zero model if none was found.
Original(c) == IF client[c].found = Absent THEN ZeroRow ELSE client[c].found

ChangedFields(c) == {col \in Columns : Original(c)[col] # client[c].value[col]}

\* The UPDATE sets the changed fields only; it may meet no row, which goes
\* unnoticed.
Updated(c) ==
    IF db[client[c].id] = Absent
    THEN Absent
    ELSE [col \in Columns |-> IF col \in ChangedFields(c)
                              THEN client[c].value[col] ELSE db[client[c].id][col]]

\* Nothing to update: Save returns.
SkipUpdate(c) ==
    /\ client[c].pc = "exec"
    /\ ChangedFields(c) = {}
    /\ Done(c)
    /\ UNCHANGED <<db, cache, lock, fresh, disturbed>>

Update(c) ==
    /\ client[c].pc = "exec"
    /\ ChangedFields(c) # {}
    /\ db' = [db EXCEPT ![client[c].id] = Updated(c)]
    /\ Goto(c, "lock")
    /\ UNCHANGED <<cache, lock, fresh, disturbed>>

\* The UPDATE fails: Save returns the error.
UpdateFails(c) ==
    /\ client[c].pc = "exec"
    /\ ChangedFields(c) # {}
    /\ Done(c)
    /\ UNCHANGED <<db, cache, lock, fresh, disturbed>>

\* Mutant: the lock is taken whoever has it.
AcquireLock_Anyway(c) ==
    /\ client[c].pc = "lock"
    /\ lock' = [lock EXCEPT ![client[c].id] = c]
    /\ Goto(c, IF client[c].op = "delete" THEN "dbdelete" ELSE "setmodel")
    /\ UNCHANGED <<db, cache, fresh, disturbed>>

\* WithLock gets the lock.
AcquireLock(c) ==
    /\ client[c].pc = "lock"
    /\ lock[client[c].id] = Absent
    /\ lock' = [lock EXCEPT ![client[c].id] = c]
    /\ Goto(c, IF client[c].op = "delete" THEN "dbdelete" ELSE "setmodel")
    /\ UNCHANGED <<db, cache, fresh, disturbed>>

\* Mutant: WithLock tries for ever.
LockFails_Never(c) ==
    /\ client[c].pc = "lock"
    /\ lock[client[c].id] # Absent
    /\ UNCHANGED vars

\* WithLock gives up after LockMaxRetries: Save only logs it, Delete returns it.
LockFails(c) ==
    /\ client[c].pc = "lock"
    /\ lock[client[c].id] # Absent
    /\ Done(c)
    /\ UNCHANGED <<db, cache, lock, fresh, disturbed>>

SetModel(c) ==
    /\ client[c].pc = "setmodel"
    /\ cache' = [cache EXCEPT ![client[c].id] = client[c].value]
    /\ Goto(c, "unlock")
    /\ UNCHANGED <<db, lock, fresh, disturbed>>

ReleaseLock(c) ==
    /\ client[c].pc = "unlock"
    /\ lock' = [lock EXCEPT ![client[c].id] = Absent]
    /\ Done(c)
    /\ UNCHANGED <<db, cache, fresh, disturbed>>

-----------------------------------------------------------------------------
(* deleteInternal.                                                         *)

Delete(c, i) ==
    /\ i \notin fresh
    /\ Start(c, "delete", i, ZeroRow, "lock")
    /\ UNCHANGED <<db, cache, lock, fresh>>

DeleteRow(c) ==
    /\ client[c].pc = "dbdelete"
    /\ db' = [db EXCEPT ![client[c].id] = Absent]
    /\ Goto(c, "uncache")
    /\ UNCHANGED <<cache, lock, fresh, disturbed>>

\* The DELETE fails: the lock is released and the error returned.
DeleteRowFails(c) ==
    /\ client[c].pc = "dbdelete"
    /\ Goto(c, "unlock")
    /\ UNCHANGED <<db, cache, lock, fresh, disturbed>>

\* Mutant: a Delete leaves the cached model.
DeleteKey_Kept(c) ==
    /\ client[c].pc = "uncache"
    /\ Goto(c, "unlock")
    /\ UNCHANGED <<db, cache, lock, fresh, disturbed>>

DeleteKey(c) ==
    /\ client[c].pc = "uncache"
    /\ cache' = [cache EXCEPT ![client[c].id] = Absent]
    /\ Goto(c, "unlock")
    /\ UNCHANGED <<db, lock, fresh, disturbed>>

-----------------------------------------------------------------------------

ClearCacheByID(i) ==
    /\ cache' = [cache EXCEPT ![i] = Absent]
    /\ UNCHANGED <<db, lock, client, fresh, disturbed>>

\* Mutant: the marker of a missing row never expires.
Expire_RowsOnly(i) ==
    /\ cache[i] \in Row
    /\ cache' = [cache EXCEPT ![i] = Absent]
    /\ UNCHANGED <<db, lock, client, fresh, disturbed>>

\* The entry's time to live is over.
Expire(i) ==
    /\ cache[i] # Absent
    /\ cache' = [cache EXCEPT ![i] = Absent]
    /\ UNCHANGED <<db, lock, client, fresh, disturbed>>

\* A step of a call that is under way.
Step(c) ==
    \/ MGetModel(c) \/ Select(c) \/ SelectFails(c) \/ Fill(c)
    \/ SkipUpdate(c) \/ Update(c) \/ UpdateFails(c)
    \/ AcquireLock(c) \/ LockFails(c) \/ SetModel(c) \/ ReleaseLock(c)
    \/ DeleteRow(c) \/ DeleteRowFails(c) \/ DeleteKey(c)

Call(c) ==
    \E i \in Ids :
        \/ ByID(c, i)
        \/ Delete(c, i)
        \/ \E value \in Row : SaveExisting(c, i, value) \/ SaveNew(c, i, value)

Next ==
    \/ \E c \in Clients : Call(c) \/ Step(c)
    \/ \E i \in Ids : ClearCacheByID(i) \/ Expire(i)

Spec == Init /\ [][Next]_vars

\* A call under way goes on, and no cache entry outlives its time to live.
Fairness ==
    /\ \A c \in Clients : WF_vars(Step(c))
    /\ \A i \in Ids : WF_vars(Expire(i))

FairSpec == Spec /\ Fairness

-----------------------------------------------------------------------------

TypeOK ==
    /\ db \in [Ids -> Row \cup {Absent}]
    /\ cache \in [Ids -> Row \cup {NoneResult, Absent}]
    /\ lock \in [Ids -> Clients \cup {Absent}]
    /\ client \in [Clients -> Client]
    /\ fresh \in SUBSET Ids
    /\ disturbed \in SUBSET Ids

\* The cache tells the truth about a row.
Coherent(i) ==
    \/ cache[i] = Absent
    \/ cache[i] = NoneResult /\ db[i] = Absent
    \/ cache[i] = db[i]

\* As long as no two calls on a row have run at once and every Save of it has read
\* its original, the cache tells the truth about the row between calls, whatever
\* other clients do to other rows meanwhile and whichever database reads, writes
\* and locks fail.
IsolatedCoherence ==
    \A i \in Ids :
        (i \notin disturbed /\ \A c \in Clients : ~Busy(c, i)) => Coherent(i)

\* No Save stores a model, and no Delete removes one, between a Delete's two
\* steps on the database and on the cache of the same row: the lock excludes it.
DeleteIsExclusive ==
    \A c, d \in Clients :
        (/\ c # d /\ client[c].id = client[d].id
         /\ client[c].pc \in {"dbdelete", "uncache"})
            => client[d].pc \notin {"setmodel", "dbdelete", "uncache"}

\* The lock and the calls agree on who holds it.
Holding == {"setmodel", "dbdelete", "uncache", "unlock"}

LockInv ==
    /\ \A i \in Ids : lock[i] # Absent =>
         client[lock[i]].id = i /\ client[lock[i]].pc \in Holding
    /\ \A c \in Clients : client[c].pc \in Holding => lock[client[c].id] = c

\* What a call that runs alone on its row knows at each of its steps.
InFlight(c) ==
    LET i == client[c].id
        pc == client[c].pc
        op == client[c].op
    IN  /\ pc \in {"get", "select", "fill", "exec", "dbdelete", "unlock"} => Coherent(i)
        /\ pc = "fill" => client[c].found = db[i]
        /\ pc = "exec" => op = "save" /\ db[i] # Absent /\ client[c].found = db[i]
        /\ pc = "lock" /\ op = "delete" => Coherent(i)
        /\ pc = "lock" /\ op # "delete" => db[i] = client[c].value
        /\ pc = "setmodel" => db[i] = client[c].value

\* A row that has not been disturbed.
Alone(i) ==
    /\ \A c, d \in Clients : Busy(c, i) /\ Busy(d, i) => c = d
    /\ (\A c \in Clients : ~Busy(c, i)) => Coherent(i)
    /\ \A c \in Clients : Busy(c, i) => InFlight(c)

\* The inductive invariant behind IsolatedCoherence: on a row that has not been
\* disturbed there is at most one call, the row and its cache entry are as that
\* call left them, and without a call they agree.
AloneInv == \A i \in Ids : i \notin disturbed => Alone(i)

WriteInFlight == \E c \in Clients : client[c].pc # "idle" /\ client[c].op # "byid"

\* Whatever races have done to the cache, once no Save or Delete runs any more
\* the cache comes to tell the truth about every row and stays so, although
\* ByID goes on filling it: no fetch keeps a stale entry alive.
EventuallyCoherent ==
    (<>[]~WriteInFlight) => <>[](\A i \in Ids : Coherent(i))

\* Every call returns.
CallsReturn == \A c \in Clients : client[c].pc # "idle" ~> client[c].pc = "idle"

-----------------------------------------------------------------------------
(* What the repository says of these calls and the code does not keep.     *)

=============================================================================
