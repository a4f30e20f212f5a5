----------------------------- MODULE LocalStore -----------------------------
(***************************************************************************)
(* The local cache client (localCache, cache.go): a map of values and a    *)
(* map of deadlines, which its calls and the cleanup goroutine read and    *)
(* change one access at a time, with no lock around them. A deadline is    *)
(* abstracted to whether it has passed.                                    *)
(***************************************************************************)
EXTENDS Naturals

CONSTANTS
    Clients, Keys,
    Marker,     \* the string NoneResult
    Payloads,   \* encoded rows and identifier lists, stored as bytes
    Absent, Error,
    MaxCount    \* bound: no Incr starts on a larger counter

ASSUME StoreAssumption ==
    /\ Absent \notin Nat \cup {Marker, Error} \cup Payloads \cup Keys
    /\ Marker \notin Nat \cup Payloads
    /\ Payloads \cap Nat = {}

VARIABLES
    store,          \* the value of each key, or Absent
    expiryStore,    \* its deadline: "none", "running" or "passed"
    pc, call,       \* each client's place, and the call it is in
    seen, reply,    \* the value it has loaded, and what it will return
    incrLock,       \* the keys whose lock "incr:" + key is taken
    cleaner,        \* the cleanup goroutine has been started
    sweeping,       \* the keys it has collected and not yet deleted
    dropping,       \* the key whose value it has deleted, and not yet its deadline
    timed,          \* history: the value was to have a deadline
    raced,          \* history: it was stored while a removal of the key was half done
    steady          \* history: the key of an Incr was written by Incr only since its load

vars == <<store, expiryStore, pc, call, seen, reply, incrLock, cleaner, sweeping, dropping,
          timed, raced, steady>>
history == <<timed, raced, steady>>
sweep == <<cleaner, sweeping, dropping>>

Strings == Nat \cup {Marker}
Values == Strings \cup Payloads
NoCall == [op |-> "none", key |-> Absent, val |-> Absent, ttl |-> FALSE]

\* GetModel and GetQueryIDs decode ("decode"); MGetModel is a GetModel per key, and
\* Exists is a Get that replies whether it hit. Set stores strings, here the marker;
\* SetModel and SetQueryIDs store bytes.
Inputs ==
    [op : {"get", "decode", "delete", "incr"}, key : Keys, val : {Absent}, ttl : {FALSE}]
    \cup [op : {"expire"}, key : Keys, val : {Absent}, ttl : BOOLEAN]
    \cup [op : {"set"}, key : Keys, val : {Marker} \cup Payloads, ttl : BOOLEAN]

Init ==
    /\ store = [k \in Keys |-> Absent]
    /\ expiryStore = [k \in Keys |-> "none"]
    /\ pc = [c \in Clients |-> "idle"]
    /\ call = [c \in Clients |-> NoCall]
    /\ seen = [c \in Clients |-> Absent]
    /\ reply = [c \in Clients |-> Absent]
    /\ incrLock = {}
    /\ cleaner = FALSE /\ sweeping = {} /\ dropping = Absent
    /\ timed = [k \in Keys |-> FALSE]
    /\ raced = [k \in Keys |-> FALSE]
    /\ steady = [c \in Clients |-> FALSE]

Goto(c, l) == pc' = [pc EXCEPT ![c] = l]
Key(c) == call[c].key

\* A call goes on at label l with the reply r.
Replies(c, l, r) ==
    /\ Goto(c, l)
    /\ reply' = [reply EXCEPT ![c] = r]
    /\ seen' = [seen EXCEPT ![c] = Absent]

\* A removal, or a Set without an expiration, is about to delete the deadline of k.
Pending(c, k) ==
    /\ Key(c) = k
    /\ pc[c] = "dropExpiry" \/ (pc[c] = "deadline" /\ call[c].op = "set" /\ ~call[c].ttl)
Overlapped(c, k) == dropping = k \/ \E d \in Clients \ {c} : Pending(d, k)

\* Writing k ends the steadiness of the Incr calls on k other than c's.
Disturb(c, k) == steady' = [d \in Clients |-> steady[d] /\ (d = c \/ Key(d) # k)]

First(x) ==
    CASE x.op = "set" -> IF x.val = Marker THEN "probe" ELSE "store"
      [] x.op = "delete" -> "dropValue"
      [] x.op = "incr" -> "lock"
      [] x.op = "expire" -> "check"
      [] OTHER -> "load"

Call(c) ==
    /\ pc[c] = "idle"
    /\ \E x \in Inputs :
        /\ x.op = "incr" => \A n \in ({store[x.key]} \cup {seen[d] : d \in Clients}) \cap Nat : n < MaxCount
        /\ call' = [call EXCEPT ![c] = x]
        /\ Goto(c, First(x))
    /\ UNCHANGED <<store, expiryStore, seen, reply, incrLock, sweep, history>>

Return(c) ==
    /\ pc[c] = "done"
    /\ Goto(c, "idle")
    /\ call' = [call EXCEPT ![c] = NoCall]
    /\ reply' = [reply EXCEPT ![c] = Absent]
    /\ UNCHANGED <<store, expiryStore, seen, incrLock, sweep, history>>

-----------------------------------------------------------------------------
(* Get, GetModel, GetQueryIDs, Exists                                        *)

Load(c) ==
    /\ pc[c] = "load"
    /\ seen' = [seen EXCEPT ![c] = store[Key(c)]]
    /\ Goto(c, IF store[Key(c)] = Absent THEN "miss" ELSE "expiry")
    /\ UNCHANGED <<store, expiryStore, call, reply, incrLock, sweep, history>>

Miss(c) ==
    /\ pc[c] = "miss"
    /\ Replies(c, "done", Absent)
    /\ UNCHANGED <<store, expiryStore, call, incrLock, sweep, history>>

\* Get wants a string and takes other values for a miss; GetModel and GetQueryIDs
\* want bytes and fail on others.
Decoded(op, v) ==
    CASE op = "get" -> IF v \in Payloads THEN Absent ELSE v
      [] op = "decode" -> IF v \in Payloads THEN v ELSE Error

\* Mutant: the reply is loaded again after the deadline was checked.
Hit_Reloaded(c) ==
    /\ pc[c] = "expiry" /\ expiryStore[Key(c)] # "passed"
    /\ Replies(c, "done", store[Key(c)])
    /\ UNCHANGED <<store, expiryStore, call, incrLock, sweep, history>>

Hit(c) ==
    /\ pc[c] = "expiry" /\ expiryStore[Key(c)] # "passed"
    /\ Replies(c, "done", Decoded(call[c].op, seen[c]))
    /\ UNCHANGED <<store, expiryStore, call, incrLock, sweep, history>>

Expired(c) ==
    /\ pc[c] = "expiry" /\ expiryStore[Key(c)] = "passed"
    /\ Goto(c, "dropValue")
    /\ UNCHANGED <<store, expiryStore, call, seen, reply, incrLock, sweep, history>>

\* Delete, DeleteModel and DeleteQueryIDs, and the removal of an expired entry.
DropValue(c) ==
    /\ pc[c] = "dropValue"
    /\ store' = [store EXCEPT ![Key(c)] = Absent]
    /\ timed' = [timed EXCEPT ![Key(c)] = FALSE]
    /\ raced' = [raced EXCEPT ![Key(c)] = FALSE]
    /\ Disturb(c, Key(c))
    /\ Goto(c, "dropExpiry")
    /\ UNCHANGED <<expiryStore, call, seen, reply, incrLock, sweep>>

DropExpiry(c) ==
    /\ pc[c] = "dropExpiry"
    /\ expiryStore' = [expiryStore EXCEPT ![Key(c)] = "none"]
    /\ Replies(c, "done", Absent)
    /\ UNCHANGED <<store, call, incrLock, sweep, history>>

-----------------------------------------------------------------------------
(* Set, SetModel, SetQueryIDs and Expire                                     *)

\* A marker that is stored already is left as it is, deadline included.
Probe(c) ==
    /\ pc[c] = "probe"
    /\ Goto(c, IF store[Key(c)] = Marker THEN "done" ELSE "store")
    /\ UNCHANGED <<store, expiryStore, call, seen, reply, incrLock, sweep, history>>

StoreValue(c) ==
    /\ pc[c] = "store"
    /\ store' = [store EXCEPT ![Key(c)] = call[c].val]
    /\ timed' = [timed EXCEPT ![Key(c)] = call[c].ttl]
    /\ raced' = [raced EXCEPT ![Key(c)] = call[c].ttl /\ Overlapped(c, Key(c))]
    /\ Disturb(c, Key(c))
    /\ Goto(c, "deadline")
    /\ UNCHANGED <<expiryStore, call, seen, reply, incrLock, sweep>>

\* Expire on a missing key replies ErrNotFound.
Check(c) ==
    /\ pc[c] = "check"
    /\ seen' = [seen EXCEPT ![c] = store[Key(c)]]
    /\ Goto(c, IF store[Key(c)] = Absent THEN "miss" ELSE "deadline")
    /\ UNCHANGED <<store, expiryStore, call, reply, incrLock, sweep, history>>

\* Mutant: a deadline starts the cleanup only if it comes with a Set.
StoreDeadline_SetStarts(c) ==
    /\ pc[c] = "deadline"
    /\ expiryStore' = [expiryStore EXCEPT ![Key(c)] = IF call[c].ttl THEN "running" ELSE "none"]
    /\ cleaner' = (cleaner \/ (call[c].ttl /\ call[c].op = "set"))
    /\ timed' = [timed EXCEPT ![Key(c)] =
                    IF call[c].op = "expire" THEN call[c].ttl /\ store[Key(c)] # Absent ELSE @]
    /\ raced' = [raced EXCEPT ![Key(c)] =
                    IF call[c].op = "expire"
                    THEN call[c].ttl /\ store[Key(c)] # Absent /\ (@ \/ Overlapped(c, Key(c))) ELSE @]
    /\ Replies(c, "done", Absent)
    /\ UNCHANGED <<store, call, incrLock, sweeping, dropping, steady>>

StoreDeadline(c) ==
    /\ pc[c] = "deadline"
    /\ expiryStore' = [expiryStore EXCEPT ![Key(c)] = IF call[c].ttl THEN "running" ELSE "none"]
    /\ cleaner' = (cleaner \/ call[c].ttl)
    /\ timed' = [timed EXCEPT ![Key(c)] =
                    IF call[c].op = "expire" THEN call[c].ttl /\ store[Key(c)] # Absent ELSE @]
    /\ raced' = [raced EXCEPT ![Key(c)] =
                    IF call[c].op = "expire"
                    THEN call[c].ttl /\ store[Key(c)] # Absent /\ (@ \/ Overlapped(c, Key(c))) ELSE @]
    /\ Replies(c, "done", Absent)
    /\ UNCHANGED <<store, call, incrLock, sweeping, dropping, steady>>

-----------------------------------------------------------------------------
(* Incr                                                                      *)

Successor(v) == IF v \in Nat THEN v + 1 ELSE 1

\* Mutant: Incr does not wait for the lock.
Lock_Shared(c) ==
    /\ pc[c] = "lock"
    /\ incrLock' = incrLock \cup {Key(c)}
    /\ Goto(c, "incrLoad")
    /\ UNCHANGED <<store, expiryStore, call, seen, reply, sweep, history>>

Lock(c) ==
    /\ pc[c] = "lock" /\ Key(c) \notin incrLock
    /\ incrLock' = incrLock \cup {Key(c)}
    /\ Goto(c, "incrLoad")
    /\ UNCHANGED <<store, expiryStore, call, seen, reply, sweep, history>>

\* The caller's context is cancelled while it waits.
LockCancelled(c) ==
    /\ pc[c] = "lock"
    /\ Replies(c, "done", Error)
    /\ UNCHANGED <<store, expiryStore, call, incrLock, sweep, history>>

\* The deadline is not looked at: an expired counter goes on.
IncrLoad(c) ==
    /\ pc[c] = "incrLoad"
    /\ seen' = [seen EXCEPT ![c] = store[Key(c)]]
    /\ steady' = [steady EXCEPT ![c] = TRUE]
    /\ Goto(c, "incrStore")
    /\ UNCHANGED <<store, expiryStore, call, reply, incrLock, sweep, timed, raced>>

\* Mutant: Incr stores the counter as a new entry, without a deadline.
IncrStore_Resets(c) ==
    /\ pc[c] = "incrStore"
    /\ store' = [store EXCEPT ![Key(c)] = Successor(seen[c])]
    /\ expiryStore' = [expiryStore EXCEPT ![Key(c)] = "none"]
    /\ timed' = [timed EXCEPT ![Key(c)] = @ /\ store[Key(c)] # Absent]
    /\ steady' = [steady EXCEPT ![c] = FALSE]
    /\ Replies(c, "unlock", Successor(seen[c]))
    /\ UNCHANGED <<call, incrLock, sweep, raced>>

IncrStore(c) ==
    /\ pc[c] = "incrStore"
    /\ store' = [store EXCEPT ![Key(c)] = Successor(seen[c])]
    /\ timed' = [timed EXCEPT ![Key(c)] = @ /\ store[Key(c)] # Absent]
    /\ steady' = [steady EXCEPT ![c] = FALSE]
    /\ Replies(c, "unlock", Successor(seen[c]))
    /\ UNCHANGED <<expiryStore, call, incrLock, sweep, raced>>

Unlock(c) ==
    /\ pc[c] = "unlock"
    /\ incrLock' = incrLock \ {Key(c)}
    /\ Goto(c, "done")
    /\ UNCHANGED <<store, expiryStore, call, seen, reply, sweep, history>>

\* The context is cancelled by now: ReleaseLock may give up, and nobody releases.
UnlockCancelled(c) ==
    /\ pc[c] = "unlock"
    /\ Goto(c, "done")
    /\ UNCHANGED <<store, expiryStore, call, seen, reply, incrLock, sweep, history>>

-----------------------------------------------------------------------------
(* Time, and the cleanup goroutine                                           *)

Pass(k) ==
    /\ expiryStore[k] = "running"
    /\ expiryStore' = [expiryStore EXCEPT ![k] = "passed"]
    /\ UNCHANGED <<store, pc, call, seen, reply, incrLock, sweep, history>>

\* A tick of the cleanup: collect the expired keys.
Collect ==
    /\ cleaner /\ sweeping = {} /\ dropping = Absent
    /\ \E k \in Keys : expiryStore[k] = "passed"
    /\ sweeping' = {k \in Keys : expiryStore[k] = "passed"}
    /\ UNCHANGED <<store, expiryStore, pc, call, seen, reply, incrLock, cleaner, dropping, history>>

\* The keys are deleted without another look at their deadlines.
SweepValue(k) ==
    /\ k \in sweeping /\ dropping = Absent
    /\ store' = [store EXCEPT ![k] = Absent]
    /\ timed' = [timed EXCEPT ![k] = FALSE]
    /\ raced' = [raced EXCEPT ![k] = FALSE]
    /\ steady' = [d \in Clients |-> steady[d] /\ Key(d) # k]
    /\ sweeping' = sweeping \ {k} /\ dropping' = k
    /\ UNCHANGED <<expiryStore, pc, call, seen, reply, incrLock, cleaner>>

SweepExpiry ==
    /\ dropping \in Keys
    /\ expiryStore' = [expiryStore EXCEPT ![dropping] = "none"]
    /\ dropping' = Absent
    /\ UNCHANGED <<store, pc, call, seen, reply, incrLock, cleaner, sweeping, history>>

-----------------------------------------------------------------------------

Step(c) ==
    \/ Load(c) \/ Miss(c) \/ Hit(c) \/ Expired(c) \/ DropValue(c) \/ DropExpiry(c)
    \/ Probe(c) \/ StoreValue(c) \/ Check(c) \/ StoreDeadline(c)
    \/ Lock(c) \/ IncrLoad(c) \/ IncrStore(c) \/ Unlock(c)
    \/ Return(c)

Next ==
    \/ \E c \in Clients : Call(c) \/ Step(c) \/ LockCancelled(c) \/ UnlockCancelled(c)
    \/ \E k \in Keys : Pass(k) \/ SweepValue(k)
    \/ Collect \/ SweepExpiry

Spec == Init /\ [][Next]_vars

\* A call goes on, time passes, and the ticker of the cleanup goes off.
FairSpec ==
    /\ Spec
    /\ \A c \in Clients : WF_vars(Step(c))
    /\ \A k \in Keys : WF_vars(Pass(k)) /\ WF_vars(SweepValue(k))
    /\ WF_vars(Collect) /\ WF_vars(SweepExpiry)

-----------------------------------------------------------------------------

Labels == {"idle", "load", "miss", "expiry", "dropValue", "dropExpiry", "probe", "store", "check",
           "deadline", "lock", "incrLoad", "incrStore", "unlock", "done"}

TypeOK ==
    /\ store \in [Keys -> Values \cup {Absent}]
    /\ expiryStore \in [Keys -> {"none", "running", "passed"}]
    /\ pc \in [Clients -> Labels]
    /\ call \in [Clients -> Inputs \cup {NoCall}]
    /\ seen \in [Clients -> Values \cup {Absent}]
    /\ reply \in [Clients -> Values \cup {Absent, Error}]
    /\ incrLock \subseteq Keys
    /\ cleaner \in BOOLEAN
    /\ sweeping \subseteq Keys
    /\ dropping \in Keys \cup {Absent}
    /\ timed \in [Keys -> BOOLEAN]
    /\ raced \in [Keys -> BOOLEAN]
    /\ steady \in [Clients -> BOOLEAN]

\* The refinement mapping: a call is done with its effect once it has stored,
\* removed or found its value, even while it still has a deadline to change.
Phase(c) ==
    CASE pc[c] = "idle" -> "idle"
      [] pc[c] \in {"load", "probe", "store", "check", "lock", "incrLoad"} -> "called"
      [] pc[c] = "dropValue" /\ call[c].op = "delete" -> "called"
      [] pc[c] = "dropExpiry" /\ call[c].op = "delete" -> "done"
      [] pc[c] = "deadline" /\ call[c].op = "set" -> "done"
      [] pc[c] \in {"unlock", "done"} -> "done"
      [] OTHER -> "seen"

Abstract == INSTANCE ForgetfulStore WITH
                content <- store,
                phase <- [c \in Clients |-> Phase(c)]

\* The two maps together are a store that may forget: every call, the cleanup
\* and the passing of time notwithstanding, takes effect at one instant between
\* its start and its return. In particular no read that starts after a Delete has
\* returned replies with the deleted value, and Set may skip a marker that is
\* stored already.
RefinesForgetfulStore == Abstract!Spec

Setting(k) == \E c \in Clients : Key(c) = k /\ pc[c] = "deadline" /\ call[c].ttl

\* A value stored with an expiration has a deadline as soon as the call that
\* stored it is over, unless it was stored while a removal of the same key (Delete,
\* an expired read, the cleanup) was between its two steps: that removal then
\* deletes the deadline of a value it has not seen.
DeadlineKept ==
    \A k \in Keys :
        store[k] # Absent /\ timed[k] /\ ~raced[k] /\ ~Setting(k) => expiryStore[k] # "none"

Refreshing(k) == \E c \in Clients : Key(c) = k /\ call[c].op \in {"set", "expire"}

\* Such a value disappears in the end, even if nobody reads it again, unless it
\* is set anew or given another expiration: this is the expiry that the
\* eventual coherence of cached rows and lists rests on.
EntriesExpire ==
    \A k \in Keys :
        (store[k] # Absent /\ timed[k]) ~> (store[k] = Absent \/ raced[k] \/ Refreshing(k))

\* Two Incr calls never lose an increment: if nothing but Incr has written the key
\* since the call loaded it, it still holds what the call loaded.
NoLostIncrement ==
    \A c \in Clients :
        pc[c] = "incrStore" /\ steady[c] => store[Key(c)] = seen[c]

=============================================================================
