------------------------------ MODULE CacheLock ------------------------------
(***************************************************************************)
(* WithLock (cache.go) over the two implementations of one lock key: the   *)
(* local cache's channel of capacity one, on which AcquireLock waits for   *)
(* at most LockDuration, and Redis' SETNX with LockDuration as the key's   *)
(* time to live. A caller's context may be cancelled, or its deadline      *)
(* pass, at any time.                                                      *)
(***************************************************************************)
EXTENDS Naturals

CONSTANTS
    Clients,
    LockMaxRetries,
    NoOwner

ASSUME LockAssumption ==
    /\ LockMaxRetries \in Nat \ {0}
    /\ NoOwner \notin Clients

VARIABLES
    held,       \* the channel is full, or the key exists
    pc, tries,  \* each client's place in WithLock, and the attempts it has made
    cancelled,  \* each client's context
    backend,    \* the cache client in use, "local" or "redis"; it never changes
    owner,      \* history: the client whose attempt took the lock
    overran     \* history: a lock expired before its owner was done with it

vars == <<held, pc, tries, cancelled, owner, overran, backend>>

Init ==
    /\ held = FALSE
    /\ pc = [c \in Clients |-> "idle"]
    /\ tries = [c \in Clients |-> 0]
    /\ cancelled = [c \in Clients |-> FALSE]
    /\ backend \in {"local", "redis"}
    /\ owner = NoOwner
    /\ overran = FALSE

Goto(c, l) == pc' = [pc EXCEPT ![c] = l]

WithLock(c) ==
    /\ pc[c] = "idle"
    /\ Goto(c, "acquire")
    /\ tries' = [tries EXCEPT ![c] = 0]
    /\ cancelled' = [cancelled EXCEPT ![c] = FALSE]
    /\ UNCHANGED <<held, owner, overran, backend>>

Cancel(c) ==
    /\ pc[c] # "idle" /\ ~cancelled[c]
    /\ cancelled' = [cancelled EXCEPT ![c] = TRUE]
    /\ UNCHANGED <<held, pc, tries, owner, overran, backend>>

Take(c) == held' = TRUE /\ owner' = c

\* Mutant: the lock is taken whether or not it is free.
AcquireLock_Anyway(c) ==
    /\ pc[c] = "acquire"
    /\ Take(c)
    /\ Goto(c, "action")
    /\ UNCHANGED <<tries, cancelled, overran, backend>>

AcquireLock(c) ==
    /\ pc[c] = "acquire" /\ ~held
    /\ Take(c)
    /\ Goto(c, "action")
    /\ UNCHANGED <<tries, cancelled, overran, backend>>

\* The key exists, or the local lock stays taken for LockDuration. If the deadline
\* of the context has passed, the local select may choose it over a free lock.
AcquireFails(c) ==
    /\ pc[c] = "acquire"
    /\ held \/ (backend = "local" /\ cancelled[c])
    /\ Goto(c, "retry")
    /\ tries' = [tries EXCEPT ![c] = @ + 1]
    /\ UNCHANGED <<held, cancelled, owner, overran, backend>>

\* With a cancelled context, or when Redis does not answer, AcquireLock returns an
\* error although the lock is free; a SETNX may then have reached Redis or not.
AcquireError(c) ==
    /\ pc[c] = "acquire"
    /\ cancelled[c] \/ backend = "redis"
    /\ Goto(c, "idle")
    /\ \/ UNCHANGED <<held, owner>>
       \/ backend = "redis" /\ ~held /\ Take(c)
    /\ UNCHANGED <<tries, cancelled, overran, backend>>

\* Mutant: every retry counts as the first.
Retry_Forever(c) ==
    /\ pc[c] = "retry"
    /\ Goto(c, "acquire")
    /\ tries' = [tries EXCEPT ![c] = 0]
    /\ UNCHANGED <<held, cancelled, owner, overran, backend>>

\* After LockRetryDelay: the next attempt, or ErrLockNotAcquired.
Retry(c) ==
    /\ pc[c] = "retry"
    /\ Goto(c, IF tries[c] < LockMaxRetries THEN "acquire" ELSE "idle")
    /\ UNCHANGED <<held, tries, cancelled, owner, overran, backend>>

RetryCancelled(c) ==
    /\ pc[c] = "retry" /\ cancelled[c]
    /\ Goto(c, "idle")
    /\ UNCHANGED <<held, tries, cancelled, owner, overran, backend>>

\* The action has run, well or not.
Act(c) ==
    /\ pc[c] = "action"
    /\ Goto(c, "release")
    /\ UNCHANGED <<held, tries, cancelled, owner, overran, backend>>

\* Whoever has taken the lock since, the channel is emptied or the key deleted.
ReleaseLock(c) ==
    /\ pc[c] = "release"
    /\ held' = FALSE /\ owner' = NoOwner
    /\ Goto(c, "idle")
    /\ UNCHANGED <<tries, cancelled, overran, backend>>

\* With a cancelled context, or when Redis does not answer, ReleaseLock may return
\* an error instead.
ReleaseError(c) ==
    /\ pc[c] = "release"
    /\ cancelled[c] \/ backend = "redis"
    /\ Goto(c, "idle")
    /\ UNCHANGED <<held, tries, cancelled, owner, overran, backend>>

\* Mutant: the key is set without a time to live.
LockExpires_Never ==
    /\ backend = "redis" /\ held
    /\ UNCHANGED vars

\* Redis drops the key at the end of its time to live.
LockExpires ==
    /\ backend = "redis" /\ held
    /\ held' = FALSE /\ owner' = NoOwner
    /\ overran' = (overran \/ \E c \in Clients : c = owner /\ pc[c] \in {"action", "release"})
    /\ UNCHANGED <<pc, tries, cancelled, backend>>

Step(c) ==
    \/ AcquireLock(c) \/ AcquireFails(c) \/ AcquireError(c)
    \/ Retry(c) \/ RetryCancelled(c)
    \/ Act(c) \/ ReleaseLock(c) \/ ReleaseError(c)

Next ==
    \/ \E c \in Clients : WithLock(c) \/ Cancel(c) \/ Step(c)
    \/ LockExpires

Spec == Init /\ [][Next]_vars

\* A call under way goes on (its action returns), and the time to live ends.
FairSpec ==
    /\ Spec
    /\ \A c \in Clients : WF_vars(Step(c))
    /\ WF_vars(LockExpires)

-----------------------------------------------------------------------------

TypeOK ==
    /\ held \in BOOLEAN
    /\ pc \in [Clients -> {"idle", "acquire", "retry", "action", "release"}]
    /\ tries \in [Clients -> 0 .. LockMaxRetries]
    /\ cancelled \in [Clients -> BOOLEAN]
    /\ backend \in {"local", "redis"}
    /\ owner \in Clients \cup {NoOwner}
    /\ overran \in BOOLEAN

Critical(c) == pc[c] \in {"action", "release"}

\* Until some action has outlasted the time to live of its Redis lock, no two
\* actions run under the same lock key at once: neither a caller that gave up,
\* nor a cancelled one, nor a release takes the lock from its owner. With the
\* local cache an action may last as long as it likes.
MutualExclusion ==
    ~overran => \A c, d \in Clients : Critical(c) /\ Critical(d) => c = d

\* The inductive invariant: the lock is the owner's as long as it needs it.
OwnerInv ==
    /\ ~overran => \A c \in Clients : Critical(c) => held /\ owner = c
    /\ backend = "local" => ~overran

\* Every WithLock returns, with or without the lock, however the others behave:
\* LockMaxRetries bounds the attempts.
WithLockReturns == \A c \in Clients : pc[c] # "idle" ~> pc[c] = "idle"

\* A Redis lock is free again after a while, even if its owner never released
\* it; the local lock has no such time limit.
RedisLockFreed == (backend = "redis" /\ held) ~> ~held

-----------------------------------------------------------------------------

=============================================================================
