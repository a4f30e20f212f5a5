--------------------------- MODULE CacheLockProofs ---------------------------
(* Proofs about CacheLock, for any set of clients, either cache client and   *)
(* any number of retries.                                                    *)
EXTENDS CacheLock, TLAPS

\* The default backend. Steps that need no arithmetic cite Zenon instead.
USE SMTT(60), Z3T(60)

\* Whoever calls, retries, is cancelled or releases, the state keeps its types;
\* in particular no call makes more than LockMaxRetries attempts.
THEOREM TypeCorrect == Spec => []TypeOK
<1> DEFINE Counted == \A c \in Clients : pc[c] = "acquire" => tries[c] < LockMaxRetries
<1>1. Init => TypeOK /\ Counted
  <2> SUFFICES ASSUME Init PROVE TypeOK /\ Counted
    OBVIOUS
  <2>1. tries \in [Clients -> 0 .. LockMaxRetries] /\ Counted
    BY LockAssumption DEF Init
  <2>2. cancelled \in [Clients -> BOOLEAN] /\ held \in BOOLEAN /\ overran \in BOOLEAN
    BY Zenon DEF Init
  <2> QED
    BY <2>1, <2>2 DEF Init, TypeOK
<1>2. TypeOK /\ Counted /\ [Next]_vars => TypeOK' /\ Counted'
  <2> SUFFICES ASSUME TypeOK, Counted, [Next]_vars PROVE TypeOK' /\ Counted'
    OBVIOUS
  <2> USE LockAssumption DEF TypeOK
  <2>1. ASSUME NEW c \in Clients, WithLock(c) PROVE TypeOK' /\ Counted'
    BY <2>1 DEF WithLock, Goto
  <2>2. ASSUME NEW c \in Clients, Cancel(c) PROVE TypeOK' /\ Counted'
    BY <2>2 DEF Cancel
  <2>3. ASSUME NEW c \in Clients, AcquireLock(c) \/ AcquireError(c) PROVE TypeOK' /\ Counted'
    BY <2>3, ZenonT(60) DEF AcquireLock, AcquireError, Goto, Take
  <2>4. ASSUME NEW c \in Clients, AcquireFails(c) PROVE TypeOK' /\ Counted'
    BY <2>4 DEF AcquireFails, Goto
  <2>5. ASSUME NEW c \in Clients, Retry(c) \/ RetryCancelled(c) \/ Act(c)
        PROVE  TypeOK' /\ Counted'
    BY <2>5 DEF Retry, RetryCancelled, Act, Goto
  <2>6. ASSUME NEW c \in Clients, ReleaseLock(c) \/ ReleaseError(c) PROVE TypeOK' /\ Counted'
    BY <2>6, ZenonT(60) DEF ReleaseLock, ReleaseError, Goto
  <2>7. CASE LockExpires
    BY <2>7, ZenonT(60) DEF LockExpires
  <2>8. CASE UNCHANGED vars
    BY <2>8 DEF vars
  <2> QED
    BY <2>1, <2>2, <2>3, <2>4, <2>5, <2>6, <2>7, <2>8 DEF Next, Step
<1> QED
  BY <1>1, <1>2, PTL DEF Spec

\* A client in its action owns the lock, until a Redis lock has expired under it;
\* the local lock never does.
THEOREM OwnerKeepsLock == Spec => []OwnerInv
<1>1. Init => OwnerInv
  BY DEF Init, OwnerInv, Critical
<1>2. TypeOK /\ OwnerInv /\ [Next]_vars => OwnerInv'
  <2> SUFFICES ASSUME TypeOK, OwnerInv, [Next]_vars PROVE OwnerInv'
    OBVIOUS
  <2> USE DEF TypeOK, OwnerInv, Critical
  <2>1. ASSUME NEW c \in Clients, WithLock(c) PROVE OwnerInv'
    BY <2>1 DEF WithLock, Goto
  <2>2. ASSUME NEW c \in Clients, Cancel(c) PROVE OwnerInv'
    BY <2>2 DEF Cancel
  <2>3. ASSUME NEW c \in Clients, AcquireLock(c) \/ AcquireError(c) PROVE OwnerInv'
    BY <2>3 DEF AcquireLock, AcquireError, Goto, Take
  <2>4. ASSUME NEW c \in Clients, AcquireFails(c) \/ Retry(c) \/ RetryCancelled(c) \/ Act(c)
        PROVE  OwnerInv'
    BY <2>4 DEF AcquireFails, Retry, RetryCancelled, Act, Goto
  <2>5. ASSUME NEW c \in Clients, ReleaseLock(c) \/ ReleaseError(c) PROVE OwnerInv'
    BY <2>5 DEF ReleaseLock, ReleaseError, Goto
  <2>6. CASE LockExpires
    BY <2>6, ZenonT(60) DEF LockExpires
  <2>7. CASE UNCHANGED vars
    BY <2>7 DEF vars
  <2> QED
    BY <2>1, <2>2, <2>3, <2>4, <2>5, <2>6, <2>7 DEF Next, Step
<1> QED
  BY <1>1, <1>2, TypeCorrect, PTL DEF Spec

\* No two actions run under one lock key at once, unless a Redis lock has expired
\* under its owner.
THEOREM Exclusion == Spec => []MutualExclusion
<1>1. OwnerInv => MutualExclusion
  BY DEF OwnerInv, MutualExclusion
<1> QED
  BY <1>1, OwnerKeepsLock, PTL

=============================================================================
