-------------------------- MODULE ModelCacheProofs --------------------------
(***************************************************************************)
(* Type correctness, mutual exclusion and the coherence of the model cache *)
(* for any number of clients, rows, columns and values.                    *)
(***************************************************************************)
EXTENDS ModelCache, TLAPS

\* The default backend. Steps that need no arithmetic cite Zenon instead.
USE SMTT(60), Z3T(60)

\* The zero model is a row.
LEMMA ZeroRowTyped == ZeroRow \in Row
BY ModelAssumption DEF ZeroRow, Row

\* Returning keeps the clients well typed.
LEMMA DoneTyped ==
    ASSUME TypeOK, NEW c \in Clients, Done(c)
    PROVE  client' \in [Clients -> Client]
BY ZeroRowTyped DEF TypeOK, Done, Client, PCs

\* The end of a fetch keeps the clients well typed.
LEMMA FetchDoneTyped ==
    ASSUME TypeOK, NEW c \in Clients, NEW model \in Row \cup {Absent}, FetchDone(c, model)
    PROVE  client' \in [Clients -> Client] /\ disturbed' \in SUBSET Ids
<1>1. CASE client[c].op = "save"
  BY <1>1 DEF FetchDone, TypeOK, Client, PCs
<1>2. CASE client[c].op # "save"
  BY <1>2, DoneTyped DEF FetchDone, TypeOK
<1> QED
  BY <1>1, <1>2

\* A jump keeps the clients well typed.
LEMMA GotoTyped ==
    ASSUME TypeOK, NEW c \in Clients, NEW pc \in PCs, Goto(c, pc)
    PROVE  client' \in [Clients -> Client]
BY DEF Goto, TypeOK, Client

\* Every call keeps the state well typed.
THEOREM TypeCorrect == Spec => []TypeOK
<1>1. Init => TypeOK
  <2> SUFFICES ASSUME Init PROVE TypeOK
    OBVIOUS
  <2> QED
    BY ZeroRowTyped DEF Init, TypeOK, Client, PCs
<1>2. TypeOK /\ [Next]_vars => TypeOK'
  <2> SUFFICES ASSUME TypeOK, [Next]_vars PROVE TypeOK'
    OBVIOUS
  <2> USE DEF TypeOK, Client, PCs
  <2>1. ASSUME NEW c \in Clients, NEW i \in Ids, ByID(c, i) PROVE TypeOK'
    BY ZeroRowTyped, <2>1 DEF ByID, Start
  <2>2. ASSUME NEW c \in Clients, NEW i \in Ids, Delete(c, i) PROVE TypeOK'
    BY ZeroRowTyped, <2>2 DEF Delete, Start
  <2>3. ASSUME NEW c \in Clients, NEW i \in Ids, NEW value \in Row,
               SaveExisting(c, i, value)
        PROVE  TypeOK'
    BY <2>3 DEF SaveExisting, Start
  <2>4. ASSUME NEW c \in Clients, NEW i \in Ids, NEW value \in Row, SaveNew(c, i, value)
        PROVE  TypeOK'
    BY <2>4 DEF SaveNew, Start
  <2>5. ASSUME NEW c \in Clients, MGetModel(c) PROVE TypeOK'
    <3>1. CASE cache[client[c].id] \in Row
      BY <2>5, <3>1, FetchDoneTyped DEF MGetModel
    <3>2. CASE cache[client[c].id] \notin Row
      BY <2>5, <3>2, GotoTyped DEF MGetModel
    <3> QED
      BY <3>1, <3>2
  <2>6. ASSUME NEW c \in Clients, Select(c) PROVE TypeOK'
    <3>1. client[c] \in Client /\ db[client[c].id] \in Row \cup {Absent}
      OBVIOUS
    <3> QED
      BY <2>6, <3>1, Zenon DEF Select
  <2>7. ASSUME NEW c \in Clients, SelectFails(c) PROVE TypeOK'
    BY <2>7, FetchDoneTyped DEF SelectFails
  <2>8. ASSUME NEW c \in Clients, Fill(c) PROVE TypeOK'
    BY <2>8, FetchDoneTyped DEF Fill
  <2>9. ASSUME NEW c \in Clients, SkipUpdate(c) \/ UpdateFails(c) \/ LockFails(c)
        PROVE  TypeOK'
    BY <2>9, DoneTyped DEF SkipUpdate, UpdateFails, LockFails
  <2>10. ASSUME NEW c \in Clients, Update(c) PROVE TypeOK'
    <3>1. Updated(c) \in Row \cup {Absent}
      BY DEF Updated, Row
    <3> QED
      BY <2>10, <3>1, GotoTyped DEF Update
  <2>11. ASSUME NEW c \in Clients, AcquireLock(c) PROVE TypeOK'
    BY <2>11, GotoTyped DEF AcquireLock
  <2>12. ASSUME NEW c \in Clients, SetModel(c) PROVE TypeOK'
    BY <2>12, GotoTyped DEF SetModel
  <2>13. ASSUME NEW c \in Clients, ReleaseLock(c) PROVE TypeOK'
    BY <2>13, DoneTyped DEF ReleaseLock
  <2>14. ASSUME NEW c \in Clients, DeleteRow(c) \/ DeleteRowFails(c) \/ DeleteKey(c)
         PROVE  TypeOK'
    BY <2>14, GotoTyped DEF DeleteRow, DeleteRowFails, DeleteKey
  <2>15. ASSUME NEW i \in Ids, ClearCacheByID(i) \/ Expire(i) PROVE TypeOK'
    BY <2>15 DEF ClearCacheByID, Expire
  <2>16. CASE UNCHANGED vars
    BY <2>16 DEF vars
  <2> HIDE DEF TypeOK, Client, PCs
  <2> QED
    BY <2>1, <2>2, <2>3, <2>4, <2>5, <2>6, <2>7, <2>8, <2>9, <2>10, <2>11, <2>12,
       <2>13, <2>14, <2>15, <2>16 DEF Next, Call, Step
<1> QED
  BY <1>1, <1>2, PTL DEF Spec

-----------------------------------------------------------------------------
(* The lock.                                                               *)

\* Returning, jumping and ending a fetch touch one client.
LEMMA DoneFrame ==
    ASSUME TypeOK, NEW c \in Clients, Done(c)
    PROVE  /\ \A d \in Clients : d # c => client'[d] = client[d]
           /\ client'[c].pc = "idle" /\ client'[c].id = client[c].id
BY DEF TypeOK, Done

\* Goto moves one client and changes nothing but its program counter.
LEMMA GotoFrame ==
    ASSUME TypeOK, NEW c \in Clients, NEW pc, Goto(c, pc)
    PROVE  /\ \A d \in Clients : d # c => client'[d] = client[d]
           /\ client'[c] = [client[c] EXCEPT !.pc = pc]
           /\ client'[c].pc = pc /\ client'[c].id = client[c].id
           /\ client'[c].op = client[c].op /\ client'[c].value = client[c].value
           /\ client'[c].found = client[c].found
BY DEF TypeOK, Goto, Client

\* FetchDone ends ByID and hands Save its original.
LEMMA FetchDoneFrame ==
    ASSUME TypeOK, NEW c \in Clients, NEW model, FetchDone(c, model)
    PROVE  /\ \A d \in Clients : d # c => client'[d] = client[d]
           /\ client'[c].id = client[c].id
           /\ disturbed' = disturbed \/ disturbed' = disturbed \cup {client[c].id}
           /\ client[c].op = "save" /\ model = Absent => client[c].id \in disturbed'
           /\ \/ client[c].op # "save" /\ client'[c].pc = "idle"
              \/ /\ client[c].op = "save" /\ client'[c].op = "save"
                 /\ client'[c].pc = "exec" /\ client'[c].found = model
                 /\ client'[c].value = client[c].value
<1>1. CASE client[c].op = "save"
  BY <1>1 DEF FetchDone, TypeOK, Client
<1>2. CASE client[c].op # "save"
  BY <1>2, DoneFrame DEF FetchDone
<1> QED
  BY <1>1, <1>2

\* A step of one client that neither takes nor gives back a lock.
LEMMA LockFrame ==
    ASSUME TypeOK, LockInv, NEW c \in Clients, UNCHANGED lock,
           client' \in [Clients -> Client],
           \A d \in Clients : d # c => client'[d] = client[d],
           client[c].pc \in Holding <=> client'[c].pc \in Holding,
           client[c].pc \in Holding => client'[c].id = client[c].id
    PROVE  LockInv'
<1>1. ASSUME NEW i \in Ids, lock'[i] # Absent
      PROVE  client'[lock'[i]].id = i /\ client'[lock'[i]].pc \in Holding
  <2>1. lock[i] \in Clients /\ client[lock[i]].id = i /\ client[lock[i]].pc \in Holding
    BY <1>1 DEF LockInv, TypeOK
  <2> QED
    BY <2>1
<1>2. ASSUME NEW d \in Clients, client'[d].pc \in Holding
      PROVE  lock'[client'[d].id] = d
  BY <1>2 DEF LockInv
<1> QED
  BY <1>1, <1>2 DEF LockInv

\* The lock of a row and the calls on the row agree on who holds it.
THEOREM LockAgrees == Spec => []LockInv
<1>1. Init => LockInv
  <2> SUFFICES ASSUME Init PROVE LockInv
    OBVIOUS
  <2>1. \A c \in Clients : client[c].pc = "idle"
    BY DEF Init
  <2> QED
    BY <2>1 DEF Init, LockInv, Holding
<1>2. TypeOK /\ TypeOK' /\ LockInv /\ [Next]_vars => LockInv'
  <2> SUFFICES ASSUME TypeOK, TypeOK', LockInv, [Next]_vars PROVE LockInv'
    OBVIOUS
  <2>0. client \in [Clients -> Client] /\ client' \in [Clients -> Client]
    BY DEF TypeOK
  <2>1. ASSUME NEW c \in Clients, NEW i \in Ids, NEW value, NEW op, NEW pc \in {"get", "lock"},
               Start(c, op, i, value, pc), UNCHANGED lock
        PROVE  LockInv'
    BY <2>0, <2>1, LockFrame DEF Start, Holding
  <2>2. ASSUME NEW c \in Clients, MGetModel(c) \/ Select(c) \/ SelectFails(c) \/ Fill(c)
        PROVE  LockInv'
    <3>1. /\ client[c].pc \in {"get", "select", "fill"}
          /\ UNCHANGED lock
      BY <2>2 DEF MGetModel, Select, SelectFails, Fill
    <3>2. /\ \A d \in Clients : d # c => client'[d] = client[d]
          /\ client'[c].pc \in {"select", "fill", "exec", "idle"}
      <4>1. CASE \E model : FetchDone(c, model)
        BY <4>1, FetchDoneFrame
      <4>2. CASE Goto(c, "select")
        BY <4>2, GotoFrame, Zenon
      <4>3. CASE \E found : client' = [client EXCEPT ![c].pc = "fill", ![c].found = found]
        BY <2>0, <4>3 DEF Client
      <4> QED
        BY <2>2, <4>1, <4>2, <4>3 DEF MGetModel, Select, SelectFails, Fill
    <3> QED
      BY <2>0, <3>1, <3>2, LockFrame DEF Holding
  <2>3. ASSUME NEW c \in Clients, SkipUpdate(c) \/ UpdateFails(c) \/ Update(c) \/ LockFails(c)
        PROVE  LockInv'
    <3>1. client[c].pc \in {"exec", "lock"} /\ UNCHANGED lock
      BY <2>3 DEF SkipUpdate, UpdateFails, Update, LockFails
    <3>2. /\ \A d \in Clients : d # c => client'[d] = client[d]
          /\ client'[c].pc \in {"idle", "lock"}
      BY <2>3, DoneFrame, GotoFrame, ZenonT(60) DEF SkipUpdate, UpdateFails, Update, LockFails
    <3> QED
      BY <2>0, <3>1, <3>2, LockFrame DEF Holding
  <2>4. ASSUME NEW c \in Clients,
               SetModel(c) \/ DeleteRow(c) \/ DeleteRowFails(c) \/ DeleteKey(c)
        PROVE  LockInv'
    <3>1. client[c].pc \in Holding /\ UNCHANGED lock
      BY <2>4 DEF SetModel, DeleteRow, DeleteRowFails, DeleteKey, Holding
    <3>2. /\ \A d \in Clients : d # c => client'[d] = client[d]
          /\ client'[c].pc \in Holding /\ client'[c].id = client[c].id
      BY <2>0, <2>4 DEF SetModel, DeleteRow, DeleteRowFails, DeleteKey, Goto, Client, Holding
    <3> QED
      BY <2>0, <3>1, <3>2, LockFrame
  <2>5. ASSUME NEW c \in Clients, AcquireLock(c) PROVE LockInv'
    <3> DEFINE i == client[c].id
    <3>1. /\ i \in Ids /\ lock[i] = Absent /\ c # Absent
          /\ lock' = [lock EXCEPT ![i] = c]
      BY <2>0, <2>5, ModelAssumption DEF AcquireLock, Client
    <3>2. /\ \A d \in Clients : d # c => client'[d] = client[d]
          /\ client'[c].pc \in Holding /\ client'[c].id = i
      BY <2>0, <2>5 DEF AcquireLock, Goto, Holding, Client
    <3>3. \A d \in Clients : d # c /\ client[d].pc \in Holding => client[d].id # i
      BY <3>1, ModelAssumption DEF LockInv
    <3>4. \A j \in Ids : j # i /\ lock[j] # Absent => lock[j] # c
      BY DEF LockInv
    <3> HIDE DEF i
    <3>5. ASSUME NEW j \in Ids, lock'[j] # Absent
          PROVE  client'[lock'[j]].id = j /\ client'[lock'[j]].pc \in Holding
      BY <3>1, <3>2, <3>4, <3>5 DEF LockInv, TypeOK
    <3>6. ASSUME NEW d \in Clients, client'[d].pc \in Holding
          PROVE  lock'[client'[d].id] = d
      <4>1. client[d].id \in Ids
        BY <2>0 DEF Client
      <4> QED
        BY <3>1, <3>2, <3>3, <3>6, <4>1 DEF LockInv, TypeOK
    <3> QED
      BY <3>5, <3>6 DEF LockInv
  <2>6. ASSUME NEW c \in Clients, ReleaseLock(c) PROVE LockInv'
    <3> DEFINE i == client[c].id
    <3>1. /\ i \in Ids /\ lock[i] = c
          /\ lock' = [lock EXCEPT ![i] = Absent]
      BY <2>0, <2>6 DEF ReleaseLock, Client, LockInv, Holding
    <3>2. /\ \A d \in Clients : d # c => client'[d] = client[d]
          /\ client'[c].pc \notin Holding
      BY <2>0, <2>6 DEF ReleaseLock, Done, Holding
    <3>3. \A d \in Clients : d # c /\ client[d].pc \in Holding => client[d].id # i
      BY <3>1 DEF LockInv
    <3>4. \A j \in Ids : j # i /\ lock[j] # Absent => lock[j] # c
      BY DEF LockInv
    <3> HIDE DEF i
    <3>5. ASSUME NEW j \in Ids, lock'[j] # Absent
          PROVE  client'[lock'[j]].id = j /\ client'[lock'[j]].pc \in Holding
      BY <3>1, <3>2, <3>4, <3>5 DEF LockInv, TypeOK
    <3>6. ASSUME NEW d \in Clients, client'[d].pc \in Holding
          PROVE  lock'[client'[d].id] = d
      <4>1. client[d].id \in Ids
        BY <2>0 DEF Client
      <4> QED
        BY <3>1, <3>2, <3>3, <3>6, <4>1 DEF LockInv, TypeOK
    <3> QED
      BY <3>5, <3>6 DEF LockInv
  <2>7. ASSUME NEW i \in Ids, ClearCacheByID(i) \/ Expire(i) PROVE LockInv'
    BY <2>7 DEF ClearCacheByID, Expire, LockInv
  <2>8. CASE UNCHANGED vars
    BY <2>8 DEF vars, LockInv
  <2>9. ASSUME NEW c \in Clients, Call(c) PROVE LockInv'
    BY <2>1, <2>9 DEF Call, ByID, Delete, SaveExisting, SaveNew
  <2> QED
    BY <2>2, <2>3, <2>4, <2>5, <2>6, <2>7, <2>8, <2>9 DEF Next, Step
<1> QED
  BY <1>1, <1>2, TypeCorrect, PTL DEF Spec

\* No Save and no other Delete steps between a Delete's DELETE and its removal of
\* the cached model.
THEOREM DeleteExclusive == Spec => []DeleteIsExclusive
<1>1. LockInv => DeleteIsExclusive
  BY DEF LockInv, DeleteIsExclusive, Holding
<1> QED
  BY <1>1, LockAgrees, PTL

-----------------------------------------------------------------------------
(* Coherence of the rows that are not disturbed.                           *)

\* A step of one client on one row leaves the other rows alone.
LEMMA AloneFrame ==
    ASSUME TypeOK, TypeOK', AloneInv, NEW c \in Clients, NEW i \in Ids,
           \A d \in Clients : d # c => client'[d] = client[d],
           client'[c].id = i, client[c].pc # "idle" => client[c].id = i,
           \A j \in Ids : j # i => db'[j] = db[j] /\ cache'[j] = cache[j],
           disturbed \subseteq disturbed',
           i \notin disturbed' => Alone(i)'
    PROVE  AloneInv'
<1> SUFFICES ASSUME NEW j \in Ids, j \notin disturbed', j # i PROVE Alone(j)'
  BY DEF AloneInv
<1>1. Alone(j)
  BY DEF AloneInv
<1>2. \A d \in Clients : Busy(d, j)' <=> Busy(d, j)
  BY DEF Busy
<1>3. Coherent(j)' <=> Coherent(j)
  BY Zenon DEF Coherent
<1>4. ASSUME NEW d \in Clients, Busy(d, j)
      PROVE  InFlight(d)' <=> InFlight(d)
  <2>1. d # c /\ client'[d] = client[d] /\ client[d].id = j /\ db'[j] = db[j]
    BY <1>4 DEF Busy
  <2> QED
    BY <2>1, <1>3 DEF InFlight
<1> QED
  BY <1>1, <1>2, <1>3, <1>4 DEF Alone

\* A step of a call keeps the invariant if, run alone, it takes what the call
\* knows to what it knows next, or to a coherent entry when it returns.
LEMMA StepFrame ==
    ASSUME TypeOK, TypeOK', AloneInv, NEW c \in Clients, NEW i \in Ids,
           client[c].id = i, client[c].pc # "idle",
           \A d \in Clients : d # c => client'[d] = client[d],
           client'[c].id = i,
           \A j \in Ids : j # i => db'[j] = db[j] /\ cache'[j] = cache[j],
           disturbed \subseteq disturbed',
           i \notin disturbed' /\ InFlight(c) =>
               /\ client'[c].pc = "idle" => Coherent(i)'
               /\ client'[c].pc # "idle" => InFlight(c)'
    PROVE  AloneInv'
<1>1. ASSUME i \notin disturbed' PROVE Alone(i)'
  <2>1. Alone(i) /\ Busy(c, i)
    BY <1>1 DEF AloneInv, Busy
  <2>2. InFlight(c) /\ \A d \in Clients : d # c => ~Busy(d, i)
    BY <2>1 DEF Alone
  <2>3. \A d \in Clients : d # c => ~Busy(d, i)'
    BY <2>2 DEF Busy
  <2>4. Busy(c, i)' <=> client'[c].pc # "idle"
    BY DEF Busy
  <2>5. /\ client'[c].pc = "idle" => Coherent(i)'
        /\ client'[c].pc # "idle" => InFlight(c)'
    BY <1>1, <2>2, Zenon
  <2> QED
    BY <2>3, <2>4, <2>5 DEF Alone
<1> QED
  BY <1>1, AloneFrame

\* The first step of a call on a row that no other call is busy with.
LEMMA StartAlone ==
    ASSUME TypeOK, TypeOK', AloneInv, NEW c \in Clients, NEW i \in Ids,
           NEW op, NEW value, NEW pc \in {"get", "lock"}, Start(c, op, i, value, pc),
           \A j \in Ids : j # i => db'[j] = db[j],
           UNCHANGED cache,
           Coherent(i) =>
               /\ pc = "get" \/ op = "delete" => Coherent(i)'
               /\ pc = "lock" /\ op # "delete" => db'[i] = value
    PROVE  AloneInv'
<1>1. /\ \A d \in Clients : d # c => client'[d] = client[d]
      /\ client'[c].id = i /\ client'[c].pc = pc
      /\ client'[c].op = op /\ client'[c].value = value
      /\ client[c].pc = "idle"
  BY DEF Start, TypeOK
<1>2. disturbed \subseteq disturbed'
  BY Zenon DEF Start
<1>3. ASSUME i \notin disturbed' PROVE Alone(i)'
  <2>1. i \notin disturbed /\ \A d \in Clients : ~Busy(d, i)
    BY <1>1, <1>3 DEF Start, Busy
  <2>2. Coherent(i)
    BY <2>1 DEF AloneInv, Alone
  <2>3. \A d \in Clients : Busy(d, i)' => d = c
    BY <1>1, <2>1, Zenon DEF Busy
  <2>4. InFlight(c)'
    BY <1>1, <2>2 DEF InFlight
  <2>5. Busy(c, i)'
    BY <1>1 DEF Busy
  <2> QED
    BY <2>3, <2>4, <2>5, Zenon DEF Alone
<1> QED
  BY <1>1, <1>2, <1>3, AloneFrame, Zenon

\* Calls start well on rows that are left alone.
LEMMA CallAlone ==
    ASSUME TypeOK, TypeOK', AloneInv, NEW c \in Clients, Call(c)
    PROVE  AloneInv'
<1> USE DEF Coherent
<1>1. ASSUME NEW i \in Ids, ByID(c, i) PROVE AloneInv'
  BY <1>1, StartAlone DEF ByID
<1>2. ASSUME NEW i \in Ids, Delete(c, i) PROVE AloneInv'
  BY <1>2, StartAlone DEF Delete
<1>3. ASSUME NEW i \in Ids, NEW value \in Row, SaveExisting(c, i, value) PROVE AloneInv'
  BY <1>3, StartAlone DEF SaveExisting
<1>4. ASSUME NEW i \in Ids, NEW value \in Row, SaveNew(c, i, value) PROVE AloneInv'
  BY <1>4, StartAlone DEF SaveNew, TypeOK
<1> QED
  BY <1>1, <1>2, <1>3, <1>4, Zenon DEF Call

\* The steps of a fetch keep the invariant.
LEMMA FetchAlone ==
    ASSUME TypeOK, TypeOK', AloneInv, NEW c \in Clients,
           MGetModel(c) \/ Select(c) \/ SelectFails(c) \/ Fill(c)
    PROVE  AloneInv'
<1> DEFINE i == client[c].id
<1>0. /\ client[c] \in Client /\ i \in Ids
      /\ db[i] \in Row \cup {Absent} /\ cache[i] \in Row \cup {NoneResult, Absent}
  BY Zenon DEF TypeOK, Client
<1>1. CASE MGetModel(c)
  <2>1. CASE cache[i] \in Row
    <3>1. FetchDone(c, cache[i]) /\ client[c].pc = "get"
          /\ UNCHANGED <<db, cache>>
      BY <1>1, <2>1 DEF MGetModel
    <3>2. Coherent(i) => cache[i] = db[i] /\ db[i] # Absent
      BY <2>1, ModelAssumption, ZenonT(60) DEF Coherent
    <3>3. InFlight(c) => /\ client'[c].pc = "idle" => Coherent(i)'
                         /\ client'[c].pc # "idle" => InFlight(c)'
      BY <3>1, <3>2, FetchDoneFrame DEF InFlight, Coherent
    <3> QED
      BY <1>0, <3>1, <3>3, FetchDoneFrame, StepFrame, Zenon
  <2>2. CASE cache[i] \notin Row
    <3>1. /\ client[c].pc = "get" /\ UNCHANGED <<db, cache, disturbed>>
          /\ \A d \in Clients : d # c => client'[d] = client[d]
          /\ client'[c].id = i /\ client'[c].pc = "select" /\ client'[c].op = client[c].op
      BY <1>1, <2>2, GotoFrame, Zenon DEF MGetModel
    <3>2. InFlight(c) => InFlight(c)'
      BY <3>1, Zenon DEF InFlight, Coherent
    <3> QED
      BY <1>0, <3>1, <3>2, StepFrame
  <2> QED
    BY <2>1, <2>2, Zenon
<1>2. CASE Select(c)
  <2>1. /\ client[c].pc = "select" /\ UNCHANGED <<db, cache, disturbed>>
        /\ \A d \in Clients : d # c => client'[d] = client[d]
        /\ client'[c].id = i /\ client'[c].pc = "fill" /\ client'[c].op = client[c].op
        /\ client'[c].found = db[i]
    BY <1>0, <1>2, Zenon DEF Select, TypeOK, Client
  <2>2. InFlight(c) => InFlight(c)'
    BY <2>1, Zenon DEF InFlight, Coherent
  <2> QED
    BY <1>0, <2>1, <2>2, StepFrame
<1>3. CASE SelectFails(c)
  <2>1. client[c].pc = "select" /\ UNCHANGED <<db, cache>> /\ FetchDone(c, Absent)
    BY <1>3, Zenon DEF SelectFails
  <2>2. i \notin disturbed' /\ InFlight(c) => Coherent(i)' /\ client'[c].pc = "idle"
    BY <2>1, FetchDoneFrame, Zenon DEF InFlight, Coherent
  <2> QED
    BY <1>0, <2>1, <2>2, FetchDoneFrame, StepFrame, Zenon
<1>4. CASE Fill(c)
  <2>1. /\ client[c].pc = "fill" /\ UNCHANGED db
        /\ FetchDone(c, client[c].found)
        /\ cache'[i] = IF client[c].found = Absent THEN NoneResult ELSE client[c].found
        /\ \A j \in Ids : j # i => cache'[j] = cache[j]
    BY <1>0, <1>4, ZenonT(60) DEF Fill, TypeOK
  <2>2. i \notin disturbed' /\ InFlight(c) =>
          Coherent(i)' /\ (client'[c].pc # "idle" => InFlight(c)')
    <3>1. i \notin disturbed' => i \notin disturbed
      BY <2>1, FetchDoneFrame
    <3>2. i \notin disturbed' /\ InFlight(c) => Coherent(i)' /\ db'[i] = client[c].found
      <4>1. InFlight(c) => client[c].found = db[i]
        BY <2>1, Zenon DEF InFlight
      <4>2. db' = db /\ cache'[i] = IF client[c].found = Absent THEN NoneResult ELSE client[c].found
        BY <2>1, Zenon
      <4>3. client'[c].id = i
        BY <2>1, FetchDoneFrame, Zenon
      <4> QED
        BY <4>1, <4>2, <4>3 DEF Coherent
    <3>3. CASE client[c].op # "save"
      BY <2>1, <3>2, <3>3, FetchDoneFrame, Zenon
    <3>4. CASE client[c].op = "save"
      <4>1. /\ client'[c].op = "save" /\ client'[c].pc = "exec" /\ client'[c].id = i
            /\ client'[c].found = client[c].found
            /\ client[c].found = Absent => i \in disturbed'
        BY <2>1, <3>4, FetchDoneFrame, ZenonT(60)
      <4> QED
        BY <3>2, <4>1, Zenon DEF InFlight
    <3> QED
      BY <3>3, <3>4, Zenon
  <2> QED
    BY <1>0, <2>1, <2>2, FetchDoneFrame, StepFrame
<1> QED
  BY <1>1, <1>2, <1>3, <1>4

\* The steps of a Save or a Delete keep the invariant. Alone on its row, a call
\* does not fail to get the lock: its holder would be another call on the row.
LEMMA WriteAlone ==
    ASSUME TypeOK, TypeOK', AloneInv, LockInv, NEW c \in Clients,
           \/ SkipUpdate(c) \/ Update(c) \/ UpdateFails(c)
           \/ AcquireLock(c) \/ LockFails(c) \/ SetModel(c) \/ ReleaseLock(c)
           \/ DeleteRow(c) \/ DeleteRowFails(c) \/ DeleteKey(c)
    PROVE  AloneInv'
<1> DEFINE i == client[c].id
<1>0. /\ client[c] \in Client /\ i \in Ids /\ client[c].value \in Row
      /\ db[i] \in Row \cup {Absent}
  BY DEF TypeOK, Client
<1> DEFINE Moved(pc) ==
               /\ \A d \in Clients : d # c => client'[d] = client[d]
               /\ client'[c].id = i /\ client'[c].pc = pc /\ client'[c].op = client[c].op
               /\ client'[c].value = client[c].value /\ client'[c].found = client[c].found
<1>m. ASSUME NEW pc, Goto(c, pc) PROVE Moved(pc)
  BY <1>m, GotoFrame, Zenon
<1>1. ASSUME client[c].pc \in {"exec", "unlock"}, Done(c), UNCHANGED <<db, cache, disturbed>>
      PROVE  AloneInv'
  <2>1. InFlight(c) => Coherent(i)'
    BY <1>1, DoneFrame DEF InFlight, Coherent
  <2> QED
    BY <1>0, <1>1, <2>1, DoneFrame, StepFrame, Zenon
<1>2. CASE SkipUpdate(c) \/ UpdateFails(c) \/ ReleaseLock(c)
  BY <1>1, <1>2, ZenonT(60) DEF SkipUpdate, UpdateFails, ReleaseLock
<1>3. CASE Update(c)
  <2>1. /\ client[c].pc = "exec" /\ Moved("lock") /\ UNCHANGED <<cache, disturbed>>
        /\ db'[i] = Updated(c) /\ \A j \in Ids : j # i => db'[j] = db[j]
    BY <1>0, <1>3, <1>m, Zenon DEF Update, TypeOK
  <2>2. ASSUME InFlight(c) PROVE Updated(c) = client[c].value /\ client[c].op = "save"
    <3>1. client[c].found = db[i] /\ db[i] \in Row /\ client[c].op = "save"
      BY <1>0, <2>1, <2>2, Zenon DEF InFlight
    <3>2. \A col \in Columns : col \notin ChangedFields(c) => db[i][col] = client[c].value[col]
      BY <3>1, ModelAssumption, Zenon DEF ChangedFields, Original
    <3> QED
      BY <1>0, <3>1, <3>2, ModelAssumption DEF Updated, Row
  <2>3. InFlight(c) => InFlight(c)'
    BY <2>1, <2>2, ZenonT(60) DEF InFlight
  <2> QED
    BY <1>0, <2>1, <2>3, StepFrame, Zenon
<1>4. CASE AcquireLock(c)
  <2>1. /\ client[c].pc = "lock" /\ UNCHANGED <<db, cache, disturbed>>
        /\ Moved(IF client[c].op = "delete" THEN "dbdelete" ELSE "setmodel")
    BY <1>4, <1>m, Zenon DEF AcquireLock
  <2>2. InFlight(c) => InFlight(c)'
    BY <2>1, Zenon DEF InFlight, Coherent
  <2> QED
    BY <1>0, <2>1, <2>2, StepFrame, Zenon
<1>5. CASE LockFails(c)
  <2>1. /\ client[c].pc = "lock" /\ UNCHANGED <<db, cache, disturbed>> /\ Done(c)
        /\ lock[i] # Absent /\ lock[i] \in Clients
    BY <1>0, <1>5, Zenon DEF LockFails, TypeOK
  <2>2. Busy(lock[i], i) /\ Busy(c, i) /\ lock[i] # c
    BY <1>0, <2>1, Zenon DEF LockInv, Busy, Holding
  <2>3. i \in disturbed
    BY <1>0, <2>1, <2>2, Zenon DEF AloneInv, Alone
  <2> QED
    BY <1>0, <2>1, <2>3, DoneFrame, StepFrame, Zenon
<1>6. CASE SetModel(c)
  <2>1. /\ client[c].pc = "setmodel" /\ UNCHANGED <<db, disturbed>> /\ Moved("unlock")
        /\ cache'[i] = client[c].value /\ \A j \in Ids : j # i => cache'[j] = cache[j]
    BY <1>0, <1>6, <1>m, Zenon DEF SetModel, TypeOK
  <2>2. InFlight(c) => InFlight(c)'
    BY <2>1, Zenon DEF InFlight, Coherent
  <2> QED
    BY <1>0, <2>1, <2>2, StepFrame, Zenon
<1>7. CASE DeleteRow(c)
  <2>1. /\ client[c].pc = "dbdelete" /\ UNCHANGED <<cache, disturbed>> /\ Moved("uncache")
        /\ \A j \in Ids : j # i => db'[j] = db[j]
    BY <1>0, <1>7, <1>m, Zenon DEF DeleteRow, TypeOK
  <2>2. InFlight(c)'
    BY <2>1, Zenon DEF InFlight
  <2> QED
    BY <1>0, <2>1, <2>2, StepFrame, Zenon
<1>8. CASE DeleteRowFails(c)
  <2>1. /\ client[c].pc = "dbdelete" /\ UNCHANGED <<db, cache, disturbed>> /\ Moved("unlock")
    BY <1>8, <1>m, Zenon DEF DeleteRowFails
  <2>2. InFlight(c) => InFlight(c)'
    BY <2>1, Zenon DEF InFlight, Coherent
  <2> QED
    BY <1>0, <2>1, <2>2, StepFrame, Zenon
<1>9. CASE DeleteKey(c)
  <2>1. /\ client[c].pc = "uncache" /\ UNCHANGED <<db, disturbed>> /\ Moved("unlock")
        /\ cache'[i] = Absent /\ \A j \in Ids : j # i => cache'[j] = cache[j]
    BY <1>0, <1>9, <1>m, ZenonT(60) DEF DeleteKey, TypeOK
  <2>2. InFlight(c)'
    BY <2>1, Zenon DEF InFlight, Coherent
  <2> QED
    BY <1>0, <2>1, <2>2, StepFrame, Zenon
<1> QED
  BY <1>2, <1>3, <1>4, <1>5, <1>6, <1>7, <1>8, <1>9

\* Dropping an entry, by ClearCacheByID or at the end of its time to live, keeps
\* the invariant: no call relies on an entry that is there.
LEMMA DropAlone ==
    ASSUME TypeOK, TypeOK', AloneInv, NEW i \in Ids,
           cache' = [cache EXCEPT ![i] = Absent], UNCHANGED <<db, client, disturbed>>
    PROVE  AloneInv'
<1>1. \A j \in Ids : Coherent(j) => Coherent(j)'
  BY DEF Coherent, TypeOK
<1>2. \A c \in Clients : client[c].id \in Ids
  BY Zenon DEF TypeOK, Client
<1>3. \A c \in Clients : InFlight(c) => InFlight(c)'
  BY <1>1, <1>2 DEF InFlight
<1> QED
  BY <1>1, <1>3 DEF AloneInv, Alone, Busy

\* The knowledge of calls that run alone on their rows is invariant.
THEOREM AloneInvariant == Spec => []AloneInv
<1>1. Init => AloneInv
  BY DEF Init, AloneInv, Alone, Busy, Coherent
<1>2. TypeOK /\ TypeOK' /\ LockInv /\ AloneInv /\ [Next]_vars => AloneInv'
  <2> SUFFICES ASSUME TypeOK, TypeOK', LockInv, AloneInv, [Next]_vars PROVE AloneInv'
    OBVIOUS
  <2>1. ASSUME NEW c \in Clients, Call(c) PROVE AloneInv'
    BY <2>1, CallAlone
  <2>2. ASSUME NEW c \in Clients, Step(c) PROVE AloneInv'
    BY <2>2, FetchAlone, WriteAlone, Zenon DEF Step
  <2>3. ASSUME NEW i \in Ids, ClearCacheByID(i) \/ Expire(i) PROVE AloneInv'
    BY <2>3, DropAlone, ZenonT(60) DEF ClearCacheByID, Expire
  <2>4. CASE UNCHANGED vars
    <3>1. UNCHANGED <<db, cache, client, disturbed>>
      BY <2>4, Zenon DEF vars
    <3>2. \A i \in Ids : Coherent(i)' = Coherent(i)
      BY <3>1, Zenon DEF Coherent
    <3>3. \A c \in Clients : InFlight(c) => InFlight(c)'
      BY <3>1, ZenonT(60) DEF InFlight, Coherent
    <3> QED
      BY <3>1, <3>2, <3>3, Zenon DEF AloneInv, Alone, Busy
  <2> QED
    BY <2>1, <2>2, <2>3, <2>4 DEF Next
<1> QED
  BY <1>1, <1>2, TypeCorrect, LockAgrees, PTL DEF Spec

\* The cache tells the truth about every row on which no two calls have run at
\* once and no Save has missed its original, for any number of clients, rows,
\* columns and values.
THEOREM IsolatedRowsCoherent == Spec => []IsolatedCoherence
<1>1. AloneInv => IsolatedCoherence
  BY DEF AloneInv, Alone, IsolatedCoherence
<1> QED
  BY <1>1, AloneInvariant, PTL

=============================================================================
