----------------------------- MODULE BatchProofs ----------------------------
(* Proofs about Batch, for any batches, objects, listeners and numbers of    *)
(* faults, calls and steps of others. First that the calls and the writes    *)
(* within a transaction keep the inductive invariant, and that a veto of a   *)
(* listener stops the batch; then the commit and what follows it: what       *)
(* commits holds what the objects hold, and the caches follow.               *)
EXTENDS Batch, TLAPS

\* The default backend. Steps that need no arithmetic cite Zenon instead.
USE SMTT(60), Z3T(60)

Writing == pc \in {"item", "hook", "write"}
Finalizing == pc \in {"set", "invalidate"}

Mutations == [obj : Objects, old : Vals, ghost : BOOLEAN]
Keys == Ids \cup {List}

\* The types, and how the place in a call goes with its batch and its mutations.
Types ==
    /\ reuse \in BOOLEAN
    /\ db \in [Ids -> Vals \cup {Absent}] /\ cache \in [Ids -> Vals \cup {Absent}]
    /\ tx \in [Ids -> Vals \cup {Absent, Deleted}]
    /\ last \in Nat /\ began \in Nat
    /\ obj \in [Objects -> [id : Ids \cup {0}, val : Vals]]
    /\ pc \in {"idle", "item", "hook", "write", "set", "invalidate"}
    /\ op \in {"save", "delete"}
    /\ batch \in Seq(Objects)
    /\ muts \in Seq(Mutations)
    /\ pos \in Nat
    /\ doubt \subseteq Keys
    /\ Writing => pos \in 1 .. Len(batch) + 1
    /\ pc \in {"hook", "write"} => pos <= Len(batch) /\ (op = "delete" => obj[Item].id # 0)
    /\ Finalizing => pos \in 1 .. Len(muts) + 1
    /\ pc = "invalidate" => pos <= Len(muts)
    /\ pc = "idle" => muts = <<>>
    /\ ~Writing => tx = NoWrites

\* The row and the value of a mutation.
Id(k) == obj[muts[k].obj].id
Val(k) == obj[muts[k].obj].val

\* No row and no write is beyond the last id, and no id but that of a row that an
\* update did not find; what a rollback gives back was not a row before.
IdInv ==
    /\ \A k \in DOMAIN muts : Id(k) \in Ids /\ (~muts[k].ghost => Id(k) <= last)
    /\ \A i \in Ids : db[i] # Absent \/ tx[i] # Absent => i <= last
    /\ ~reuse => \A o \in Objects : obj[o].id <= last
    /\ reuse /\ Writing =>
          began <= last /\ \A i \in Ids : db[i] # Absent => i <= began

Final(k) == \A m \in DOMAIN muts : m > k => Id(m) # Id(k)
\* A mutation that finalization answers: it invalidates the query, or is in doubt.
Shows(k) == IF op = "delete" THEN Val(k) = 1 \/ muts[k].old = 1 ELSE Val(k) # muts[k].old

\* The writes of the transaction are those of the mutations, and each row that
\* enters or leaves the query's result has a mutation that shows it.
TxInv ==
    Writing =>
        /\ \A i \in Ids : tx[i] # Absent => \E k \in DOMAIN muts : Id(k) = i
        /\ op = "save" => \A k \in DOMAIN muts : Final(k) => muts[k].ghost \/ tx[Id(k)] = Val(k)
        /\ \A i \in Ids : (Seen(i) = 1) # (db[i] = 1) => \E k \in DOMAIN muts : Id(k) = i /\ Shows(k)

\* The first mutation whose model has not been set.
Unset == IF pc = "set" THEN pos ELSE pos + 1

\* A wrong entry is in doubt or is still to be set, and the last to set it is right.
FinalInv ==
    Finalizing =>
        /\ \A i \in Ids \ doubt : Right(i) \/ \E k \in DOMAIN muts : k >= Unset /\ Id(k) = i
        /\ op = "save" => \A k \in DOMAIN muts : Final(k) =>
              muts[k].ghost \/ db[Id(k)] \in {Absent, Val(k)}
        /\ List \in doubt \/ Right(List) \/ \E k \in DOMAIN muts : k >= pos /\ Shows(k)

\* The row i of the n-th item: what the items written so far have left in it.
Stored(n, i) ==
    \/ \E m \in n + 1 .. pos - 1 : obj[batch[m]].id = i
    \/ Seen(i) \in {obj[batch[n]].val, Absent}
    \/ i \in unread
\* Each item written so far has its row, and has left its value in it.
StoreInv ==
    Writing /\ op = "save" =>
        \A n \in 1 .. pos - 1 : \E i \in Ids : obj[batch[n]].id = i /\ Stored(n, i)

IInv == Types /\ IdInv /\ TxInv /\ FinalInv /\ StoreInv /\ BatchCoherent

USE DEF Writing, Finalizing

\* The numbers that are ids, and comparing them.
LEMMA IdFacts ==
    /\ Ids \subseteq Nat /\ List \notin Ids /\ Keys = Ids \cup {List}
    /\ \A i \in Ids : i # List /\ i # 0
    /\ \A i, j, k \in Nat : (i <= j /\ j <= k => i <= k) /\ (i > j => ~(i <= j))
    /\ 0 \in Nat /\ \A i \in Nat : 0 <= i /\ i # i + 1
BY BatchAssumption DEF Ids, Keys, List

\* The program starts with no call and empty caches.
LEMMA BatchInit == Init => IInv
<1> SUFFICES ASSUME Init PROVE IInv
  BY Zenon
<1> USE BatchAssumption DEF Init, Ids, Vals, Keys, NoWrites, List
<1>1. Types
  BY DEF Types, Mutations
<1>2. IdInv
  BY DEF IdInv
<1>3. TxInv /\ FinalInv /\ StoreInv
  BY DEF TxInv, FinalInv, StoreInv
<1>4. BatchCoherent
  BY DEF BatchCoherent, Right
<1> QED
  BY <1>1, <1>2, <1>3, <1>4, Zenon DEF IInv

\* Steps between the writes, which change neither the rows nor the caches.
LEMMA BetweenWrites ==
    ASSUME IInv,
           UNCHANGED <<reuse, dbVars, cacheVars, obj, op, batch, began, pos, muts, unread, doubt>>,
           \/ pc' = pc
           \/ /\ Writing /\ pc' \in {"item", "hook", "write"}
              /\ pos <= Len(batch) /\ (op = "delete" => obj[Item].id # 0)
    PROVE  IInv'
<1> USE DEF IInv, dbVars, cacheVars
<1>1. Types'
  BY ZenonT(60) DEF Types, Item, NoWrites
<1>2. IdInv'
  BY Zenon DEF IdInv, Id
<1>3. TxInv'
  BY DEF TxInv, Id, Val, Final, Shows, Seen
<1>4. FinalInv'
  BY DEF FinalInv, Id, Val, Final, Shows, Unset, Right, Result
<1>5. StoreInv'
  BY DEF StoreInv, Stored, Seen
<1>6. BatchCoherent'
  BY DEF BatchCoherent, Right, Result
<1> QED
  BY <1>1, <1>2, <1>3, <1>4, <1>5, <1>6, Zenon

\* A call begins with objects that are new, fetched, or as a call has left them.
LEMMA CallKept ==
    ASSUME IInv, NEW o \in {"save", "delete"}, NEW b \in Batches, Call(o, b)
    PROVE  IInv'
<1> USE DEF IInv, dbVars, cacheVars
<1>1. /\ pc = "idle" /\ pc' = "item" /\ pos' = 1 /\ muts' = <<>> /\ op' = o /\ batch' = b /\ began' = last
      /\ UNCHANGED <<reuse, db, last, tx, cache, list, doubt>>
  BY DEF Call
<1>2. b \in Seq(Objects)
  BY BatchAssumption, Zenon
<1>3. \A x \in Objects :
         /\ obj'[x] \in [id : Ids \cup {0}, val : Vals]
         /\ obj'[x].id \in {0, obj[x].id} \cup {j \in Ids : db[j] # Absent}
  <2>1. ASSUME NEW x \in Objects, NEW w \in Values(x)
        PROVE  /\ w \in [id : Ids \cup {0}, val : Vals]
               /\ w.id \in {0, obj[x].id} \cup {j \in Ids : db[j] # Absent}
    BY <2>1 DEF Values, Types
  <2>2. \A x \in Objects : obj'[x] \in Values(x) \/ obj'[x] = obj[x]
    BY DEF Call
  <2> QED
    BY <2>1, <2>2, Zenon DEF Types
<1>4. obj' \in [Objects -> [id : Ids \cup {0}, val : Vals]]
  <2>1. obj' \in [Objects -> UNION {Values(x) : x \in Objects}]
    BY Zenon DEF Call
  <2> QED
    BY <1>3, <2>1
<1>5. Types'
  BY <1>1, <1>2, <1>4 DEF Types, NoWrites
<1>6. IdInv'
  <2>1. ~reuse => \A x \in Objects : obj'[x].id <= last
    BY <1>3 DEF IdInv, Types
  <2> QED
    BY <1>1, <1>5, <2>1 DEF IdInv, Types, Ids
<1>7. TxInv'
  BY <1>1, BatchAssumption DEF TxInv, Seen, Applied, NoWrites, Types, Ids, Vals
<1>8. FinalInv' /\ StoreInv'
  BY <1>1 DEF FinalInv, StoreInv
<1>9. BatchCoherent'
  BY <1>1, Zenon DEF BatchCoherent, Right, Result
<1> QED
  BY <1>5, <1>6, <1>7, <1>8, <1>9

\* A call ends before its commit: what it has written and the ids it was given
\* are undone, the caches are as before.
LEMMA UndoKept ==
    ASSUME IInv, Writing, Undo, Over, UNCHANGED <<reuse, db, cache, list, op, doubt>>,
           obj' \in [Objects -> [id : Ids \cup {0}, val : Vals]],
           \A o \in Objects : obj'[o].id \in {0, obj[o].id}
    PROVE  IInv'
<1> USE DEF IInv, Over
<1>0. tx' = NoWrites /\ last' = IF reuse THEN began ELSE last
  BY Zenon DEF Undo
<1>1. began' = 0 /\ muts \in Seq(Mutations)
  BY Zenon DEF Types
<1>2. last' \in Nat
  BY <1>0, Zenon DEF Types
<1>3. Types'
  BY <1>0, <1>1, <1>2 DEF Types, NoWrites
<1>4. IdInv'
  <2>1. \A i \in Ids : db[i] # Absent => i <= last'
    BY <1>0, Zenon DEF IdInv
  <2>2. \A i \in Ids : tx'[i] = Absent
    BY <1>0, Zenon DEF NoWrites
  <2>3. ~reuse => \A o \in Objects : obj'[o].id <= last'
    <3>1. ~reuse => last' = last
      BY <1>0, Zenon
    <3>2. ~reuse => \A o \in Objects : obj[o].id <= last
      BY Zenon DEF IdInv
    <3> HIDE DEF Over, IInv
    <3> QED
      BY <1>2, <3>1, <3>2, IdFacts, Zenon
  <2>4. DOMAIN muts' = {} /\ pc' = "idle" /\ reuse' = reuse /\ db' = db
    OBVIOUS
  <2> HIDE DEF Over, IInv
  <2> QED
    BY <2>1, <2>2, <2>3, <2>4 DEF IdInv
<1>5. TxInv' /\ FinalInv' /\ StoreInv'
  BY Zenon DEF TxInv, FinalInv, StoreInv
<1>6. BatchCoherent'
  BY Zenon DEF BatchCoherent, Right, Result
<1> QED
  BY <1>3, <1>4, <1>5, <1>6, Zenon

\* What appending a mutation does to the mutations.
LEMMA Appended ==
    ASSUME NEW m \in Seq(Mutations), NEW x \in Mutations
    PROVE  /\ Append(m, x) \in Seq(Mutations)
           /\ Len(Append(m, x)) = Len(m) + 1
           /\ DOMAIN Append(m, x) = DOMAIN m \cup {Len(m) + 1}
           /\ \A k \in DOMAIN m : k <= Len(m) /\ Append(m, x)[k] = m[k]
           /\ Append(m, x)[Len(m) + 1] = x
<1>1. /\ Append(m, x) \in Seq(Mutations) /\ Len(Append(m, x)) = Len(m) + 1
      /\ \A k \in 1 .. Len(m) : Append(m, x)[k] = m[k]
      /\ Append(m, x)[Len(m) + 1] = x
  OBVIOUS
<1>2. DOMAIN m = 1 .. Len(m) /\ DOMAIN Append(m, x) = 1 .. Len(m) + 1
  OBVIOUS
<1>3. DOMAIN Append(m, x) = DOMAIN m \cup {Len(m) + 1} /\ Len(m) + 1 \notin DOMAIN m
  BY <1>2
<1> QED
  BY <1>1, <1>2, <1>3

\* The fields of a mutation.
LEMMA MutationTyped ==
    ASSUME Types, NEW k \in DOMAIN muts
    PROVE  /\ muts[k] \in Mutations /\ muts[k].obj \in Objects /\ muts[k].old \in Vals
           /\ Val(k) \in Vals /\ k \in Nat
<1>1. muts[k] \in Mutations /\ k \in Nat
  BY DEF Types
<1>2. muts[k].obj \in Objects /\ muts[k].old \in Vals
  BY <1>1, Zenon DEF Mutations
<1> QED
  BY <1>1, <1>2, Zenon DEF Types, Val

\* What a statement of the transaction reads.
LEMMA SeenRow ==
    ASSUME NEW i \in Ids
    PROVE  /\ Seen(i) = IF tx[i] = Absent THEN db[i]
                        ELSE IF tx[i] = Deleted THEN Absent ELSE tx[i]
           /\ Seen(i)' = IF tx'[i] = Absent THEN db'[i]
                         ELSE IF tx'[i] = Deleted THEN Absent ELSE tx'[i]
           /\ Types => Seen(i) \in Vals \cup {Absent}
           /\ IdInv /\ Seen(i) # Absent => i <= last
<1>1. /\ Seen(i) = IF tx[i] = Absent THEN db[i]
                   ELSE IF tx[i] = Deleted THEN Absent ELSE tx[i]
      /\ Seen(i)' = IF tx'[i] = Absent THEN db'[i]
                    ELSE IF tx'[i] = Deleted THEN Absent ELSE tx'[i]
  BY Zenon DEF Seen, Applied
<1> QED
  BY <1>1, Zenon DEF Types, IdInv

\* A new object is inserted.
LEMMA InsertKept ==
    ASSUME IInv, Written, Insert, UNCHANGED <<unread, faults>>
    PROVE  IInv'
<1>0. Types /\ IdInv /\ TxInv /\ StoreInv /\ BatchCoherent
  BY Zenon DEF IInv
<1>i. PICK i \in Ids : i = last + 1
  BY <1>0, BatchAssumption DEF Insert, Types, Ids
<1>n. PICK n \in Nat : n = Len(muts) + 1
  BY <1>0 DEF Types
<1>x. PICK x : x = Mutation(0, FALSE)
  BY Zenon
<1>1. /\ pc = "write" /\ pc' = "item" /\ pos' = pos + 1 /\ op = "save"
      /\ UNCHANGED <<reuse, db, cache, list, op, batch, began, doubt, unread>>
  BY Zenon DEF Written, Insert, IsNew, cacheVars
<1>2. pos \in 1 .. Len(batch) /\ Item \in Objects /\ Item = batch[pos]
  BY <1>0, <1>1 DEF Types, Item
<1>3. /\ obj[Item].id = 0 /\ i \in Ids /\ last' = i
      /\ tx' = [tx EXCEPT ![i] = obj[Item].val] /\ obj' = [obj EXCEPT ![Item].id = i]
      /\ muts' = Append(muts, x)
  BY <1>i, <1>x, Zenon DEF Insert, IsNew
<1>4. x \in Mutations /\ x.obj = Item /\ x.old = 0 /\ ~x.ghost
  BY <1>2, <1>x, Zenon DEF Mutation, Mutations, Vals
<1>5. /\ muts' \in Seq(Mutations) /\ DOMAIN muts' = DOMAIN muts \cup {n}
      /\ \A k \in DOMAIN muts : k <= Len(muts) /\ muts'[k] = muts[k]
      /\ muts'[n] = x
  BY <1>0, <1>3, <1>4, <1>n, Appended DEF Types
<1>6. /\ obj'[Item].id = i /\ obj'[Item].val = obj[Item].val
      /\ \A o \in Objects : o # Item => obj'[o] = obj[o]
      /\ obj' \in [Objects -> [id : Ids \cup {0}, val : Vals]]
  BY <1>0, <1>2, <1>3 DEF Types
<1>7. \A k \in DOMAIN muts : muts[k].obj \in Objects /\ Id(k)' = Id(k) /\ Val(k)' = Val(k)
  <2>1. \A k \in DOMAIN muts : muts[k].obj \in Objects /\ Id(k) \in Ids
    BY <1>0, MutationTyped, Zenon DEF IdInv
  <2>2. \A k \in DOMAIN muts : muts[k].obj # Item
    BY <1>3, <2>1 DEF Id, Ids
  <2> QED
    BY <1>5, <1>6, <2>1, <2>2, Zenon DEF Id, Val
<1>8. Id(n)' = i /\ Val(n)' = obj[Item].val
  BY <1>4, <1>5, <1>6, Zenon DEF Id, Val
<1>9. /\ \A j \in Ids : j # i => tx'[j] = tx[j] /\ Seen(j)' = Seen(j)
      /\ tx'[i] = obj[Item].val /\ Seen(i)' = obj[Item].val /\ db[i] = Absent
      /\ obj[Item].val \in Vals
  <2>1. \A j \in Ids : j # i => tx'[j] = tx[j]
    BY <1>3
  <2>2. tx'[i] = obj[Item].val /\ obj[Item].val \in Vals
    BY <1>0, <1>2, <1>3, Zenon DEF Types
  <2>3. db[i] = Absent
    BY <1>0, <1>i DEF IdInv, Types, Ids
  <2> QED
    BY <1>1, <1>3, <2>1, <2>2, <2>3, SeenRow, BatchAssumption
<1>10. i = last + 1 /\ n = Len(muts) + 1 /\ last \in Nat
  BY <1>0, <1>i, <1>n, Zenon DEF Types
<1>11. Types'
  <2>1. tx' \in [Ids -> Vals \cup {Absent, Deleted}]
    BY <1>0, <1>3, <1>9, Zenon DEF Types
  <2>2. pos' \in Nat /\ pos' \in 1 .. Len(batch) + 1 /\ last' \in Nat
    <3>1. batch \in Seq(Objects)
      BY <1>0, Zenon DEF Types
    <3> QED
      BY <1>1, <1>2, <1>3, <1>10, <3>1
  <2> QED
    BY <1>0, <1>1, <1>5, <1>6, <2>1, <2>2, Zenon DEF Types
<1>12. IdInv'
  <2>1. \A k \in DOMAIN muts' : Id(k)' \in Ids /\ (~muts'[k].ghost => Id(k)' <= last')
    BY <1>0, <1>3, <1>5, <1>7, <1>8, <1>10 DEF IdInv, Ids
  <2>2. \A j \in Ids : db[j] # Absent \/ tx'[j] # Absent => j <= last'
    BY <1>0, <1>3, <1>9, <1>10 DEF IdInv, Ids
  <2>3. ~reuse => \A o \in Objects : obj'[o].id <= last'
    BY <1>0, <1>3, <1>6, <1>10 DEF IdInv, Types, Ids
  <2>4. reuse => began <= last' /\ \A j \in Ids : db[j] # Absent => j <= began
    BY <1>0, <1>1, <1>3, <1>10 DEF IdInv, Types
  <2> QED
    BY <1>1, <2>1, <2>2, <2>3, <2>4, Zenon DEF IdInv
<1>13. TxInv'
  <2>1. \A j \in Ids : tx'[j] # Absent => \E k \in DOMAIN muts' : Id(k)' = j
    BY <1>0, <1>1, <1>5, <1>7, <1>8, <1>9 DEF TxInv
  <2>2. \A k \in DOMAIN muts' : Final(k)' => muts'[k].ghost \/ tx'[Id(k)'] = Val(k)'
    <3>1. ASSUME NEW k \in DOMAIN muts, Final(k)' PROVE muts'[k].ghost \/ tx'[Id(k)'] = Val(k)'
      <4>1. Id(k) # i
        BY <1>0, <1>5, <1>7, <1>8, <1>10, <3>1 DEF Final, Types
      <4>2. Final(k)
        BY <1>5, <1>7, <3>1, Zenon DEF Final
      <4>3. Id(k) \in Ids
        BY <1>0, Zenon DEF IdInv
      <4> QED
        BY <1>0, <1>1, <1>5, <1>7, <1>9, <4>1, <4>2, <4>3, ZenonT(60) DEF TxInv
    <3> QED
      BY <1>5, <1>8, <1>9, <3>1, Zenon
  <2>3. \A j \in Ids : (Seen(j)' = 1) # (db[j] = 1) => \E k \in DOMAIN muts' : Id(k)' = j /\ Shows(k)'
    <3>1. \A k \in DOMAIN muts : Shows(k)' = Shows(k)
      BY <1>1, <1>5, <1>7, Zenon DEF Shows
    <3>2. obj[Item].val = 1 => Shows(n)'
      BY <1>1, <1>4, <1>5, <1>8 DEF Shows
    <3>3. ASSUME NEW j \in Ids, j # i, (Seen(j)' = 1) # (db[j] = 1)
          PROVE  \E k \in DOMAIN muts' : Id(k)' = j /\ Shows(k)'
      BY <1>0, <1>1, <1>5, <1>7, <1>9, <3>1, <3>3 DEF TxInv
    <3>4. ASSUME (Seen(i)' = 1) # (db[i] = 1)
          PROVE  \E k \in DOMAIN muts' : Id(k)' = i /\ Shows(k)'
      BY <1>5, <1>8, <1>9, <3>2, <3>4, BatchAssumption, Zenon DEF Vals
    <3> QED
      BY <3>3, <3>4, Zenon
  <2> QED
    BY <1>1, <2>1, <2>2, <2>3, ZenonT(60) DEF TxInv
<1>14. StoreInv'
  <2>1. ASSUME NEW k \in 1 .. pos - 1
        PROVE  \E j \in Ids : obj'[batch[k]].id = j /\ Stored(k, j)'
    <3>1. PICK j \in Ids : obj[batch[k]].id = j /\ Stored(k, j)
      BY <1>0, <1>1, Zenon DEF StoreInv
    <3>2. /\ pos \in Nat /\ \A m \in 1 .. pos : batch[m] \in Objects
      BY <1>0, <1>2 DEF Types
    <3>3. \A m \in 1 .. pos : obj[batch[m]].id # 0 => obj'[batch[m]] = obj[batch[m]]
      BY <1>3, <1>6, <3>2, Zenon
    <3>4. obj'[batch[k]] = obj[batch[k]] /\ j # 0
      BY <3>1, <3>2, <3>3, BatchAssumption DEF Ids
    <3>5. CASE j = i
      <4>1. pos \in k + 1 .. pos' - 1 /\ obj'[batch'[pos]].id = j
        BY <1>1, <1>2, <1>6, <3>2, <3>5
      <4> QED
        BY <3>1, <3>4, <4>1, Zenon DEF Stored
    <3>6. CASE j # i
      <4>1. CASE \E m \in k + 1 .. pos - 1 : obj[batch[m]].id = j
        BY <1>1, <3>1, <3>2, <3>3, <3>4, <4>1 DEF Stored
      <4>2. CASE Seen(j) \in {obj[batch[k]].val, Absent} \/ j \in unread
        BY <1>1, <1>9, <3>1, <3>4, <3>6, <4>2, Zenon DEF Stored
      <4> QED
        BY <3>1, <4>1, <4>2, Zenon DEF Stored
    <3> QED
      BY <3>5, <3>6, Zenon
  <2>2. PICK q \in Nat : q = pos
    BY <1>2
  <2>3. obj'[batch'[q]].id = i /\ Stored(q, i)'
    BY <1>1, <1>2, <1>6, <1>9, <2>2, Zenon DEF Stored
  <2> QED
    BY <1>1, <1>2, <2>1, <2>2, <2>3 DEF StoreInv
<1>15. FinalInv' /\ BatchCoherent'
  BY <1>0, <1>1, Zenon DEF FinalInv, BatchCoherent, Right, Result
<1> QED
  BY <1>11, <1>12, <1>13, <1>14, <1>15, Zenon DEF IInv

\* An update, whatever it was compared with.
LEMMA UpdateKept ==
    ASSUME IInv, Written, NEW i \in Ids, i = obj[Item].id, NEW original \in Vals,
           Update(i, original), unread \subseteq unread', original = Original(i) \/ i \in unread'
    PROVE  IInv'
<1>0. Types /\ IdInv /\ TxInv /\ StoreInv /\ BatchCoherent
  BY Zenon DEF IInv
<1>1. /\ pc = "write" /\ pc' = "item" /\ pos' = pos + 1 /\ op = "save"
      /\ UNCHANGED <<reuse, db, last, cache, list, obj, op, batch, began, doubt>>
  BY Zenon DEF Written, Update, cacheVars
<1>2. pos \in 1 .. Len(batch) /\ Item \in Objects /\ Item = batch[pos]
  BY <1>0, <1>1 DEF Types, Item
<1>3. FinalInv' /\ BatchCoherent'
  BY <1>0, <1>1, Zenon DEF FinalInv, BatchCoherent, Right, Result
<1>4. obj[Item].val \in Vals /\ Seen(i) \in Vals \cup {Absent}
  BY <1>0, <1>2, SeenRow, Zenon DEF Types
<1>5. ASSUME \A j \in Ids : j # i => Seen(j)' = Seen(j),
             Seen(i)' \in {obj[Item].val, Absent} \/ i \in unread'
      PROVE  StoreInv'
  <2>1. ASSUME NEW k \in 1 .. pos - 1
        PROVE  \E j \in Ids : obj'[batch'[k]].id = j /\ Stored(k, j)'
    <3>1. PICK j \in Ids : obj[batch[k]].id = j /\ Stored(k, j)
      BY <1>0, <1>1 DEF StoreInv
    <3>2. CASE j = i
      <4>0. pos \in Nat /\ pos' = pos + 1
        BY <1>1, <1>2
      <4>1. pos \in k + 1 .. pos' - 1
        BY <4>0
      <4>2. obj'[batch'[pos]].id = j
        BY <1>1, <1>2, <3>2, Zenon
      <4> QED
        BY <1>1, <3>1, <4>1, <4>2, Zenon DEF Stored
    <3>3. CASE j # i
      <4>1. CASE \E m \in k + 1 .. pos - 1 : obj[batch[m]].id = j
        <5>1. \A m \in k + 1 .. pos - 1 : m \in k + 1 .. pos' - 1
          BY <1>1, <1>2
        <5> QED
          BY <1>1, <3>1, <4>1, <5>1, Zenon DEF Stored
      <4>2. CASE Seen(j) \in {obj[batch[k]].val, Absent} \/ j \in unread
        BY <1>1, <1>5, <3>1, <3>3, <4>2, Zenon DEF Stored
      <4> QED
        BY <3>1, <4>1, <4>2, Zenon DEF Stored
    <3> QED
      BY <3>2, <3>3, ZenonT(60)
  <2>2. PICK q \in Nat : q = pos
    BY <1>2
  <2>3. obj'[batch'[q]].id = i /\ Stored(q, i)'
    BY <1>1, <1>2, <1>5, <2>2, Zenon DEF Stored
  <2> QED
    BY <1>1, <1>2, <2>1, <2>2, <2>3 DEF StoreInv
<1>6. CASE obj[Item].val = original
  <2>1. tx' = tx /\ muts' = muts
    BY <1>6, Zenon DEF Update
  <2>2. \A j \in Ids : Seen(j)' = Seen(j)
    BY <1>1, <2>1, SeenRow, Zenon
  <2>3. Seen(i) \in {obj[Item].val, Absent} \/ i \in unread'
    BY <1>6, Zenon DEF Original
  <2>4. StoreInv'
    BY <1>5, <2>2, <2>3, Zenon
  <2>5. Types'
    BY <1>0, <1>1, <1>2, <2>1 DEF Types
  <2>6. IdInv'
    BY <1>0, <1>1, <2>1, Zenon DEF IdInv, Id
  <2>7. TxInv'
    BY <1>0, <1>1, <2>1 DEF TxInv, Id, Val, Final, Shows, Seen
  <2> QED
    BY <1>3, <2>4, <2>5, <2>6, <2>7, Zenon DEF IInv
<1>7. CASE obj[Item].val # original
  <2>n. PICK n \in Nat : n = Len(muts) + 1
    BY <1>0 DEF Types
  <2>x. PICK x : x = Mutation(original, Seen(i) = Absent)
    BY Zenon
  <2>1. /\ tx' = IF Seen(i) = Absent THEN tx ELSE [tx EXCEPT ![i] = obj[Item].val]
        /\ muts' = Append(muts, x)
    BY <1>7, <2>x, Zenon DEF Update
  <2>2. /\ x \in Mutations /\ x.obj = Item /\ x.old = original
        /\ x.ghost = (Seen(i) = Absent)
    BY <1>2, <2>x, Zenon DEF Mutation, Mutations
  <2>3. /\ muts' \in Seq(Mutations) /\ DOMAIN muts' = DOMAIN muts \cup {n}
        /\ \A k \in DOMAIN muts : k <= Len(muts) /\ muts'[k] = muts[k]
        /\ muts'[n] = x
    BY <1>0, <2>1, <2>2, <2>n, Appended DEF Types
  <2>4. \A k \in DOMAIN muts : Id(k)' = Id(k) /\ Val(k)' = Val(k)
    BY <1>1, <2>3, Zenon DEF Id, Val
  <2>5. Id(n)' = i /\ Val(n)' = obj[Item].val /\ Shows(n)'
    BY <1>1, <1>7, <2>2, <2>3, Zenon DEF Id, Val, Shows
  <2>6. /\ tx' \in [Ids -> Vals \cup {Absent, Deleted}]
        /\ \A j \in Ids : j # i => tx'[j] = tx[j]
        /\ Seen(i) # Absent => tx'[i] = obj[Item].val
        /\ Seen(i) = Absent => tx' = tx
    BY <1>0, <1>4, <2>1, Zenon DEF Types
  <2>7. /\ \A j \in Ids : j # i => Seen(j)' = Seen(j)
        /\ Seen(i)' \in {obj[Item].val, Absent}
    BY <1>1, <1>4, <2>6, SeenRow, BatchAssumption, ZenonT(60)
  <2>8. StoreInv'
    BY <1>5, <2>7, Zenon
  <2>9. Types'
    BY <1>0, <1>1, <1>2, <2>3, <2>6 DEF Types
  <2>10. IdInv'
    <3>1. Seen(i) # Absent => i <= last
      BY <1>0, SeenRow, Zenon
    <3>2. \A k \in DOMAIN muts' : Id(k)' \in Ids /\ (~muts'[k].ghost => Id(k)' <= last)
      BY <1>0, <2>2, <2>3, <2>4, <2>5, <3>1, ZenonT(60) DEF IdInv
    <3>3. \A j \in Ids : db[j] # Absent \/ tx'[j] # Absent => j <= last
      BY <1>0, <2>6, <3>1 DEF IdInv
    <3> QED
      BY <1>0, <1>1, <2>3, <3>2, <3>3, Zenon DEF IdInv
  <2>11. TxInv'
    <3>1. \A j \in Ids : tx'[j] # Absent => \E k \in DOMAIN muts' : Id(k)' = j
      <4>1. \A j \in Ids : tx[j] # Absent => \E k \in DOMAIN muts : Id(k) = j
        BY <1>0, <1>1, Zenon DEF TxInv
      <4>2. \A j \in Ids : tx'[j] # Absent => tx[j] # Absent \/ j = i
        BY <2>6, Zenon
      <4>3. n \in DOMAIN muts' /\ \A k \in DOMAIN muts : k \in DOMAIN muts'
        BY <2>3, Zenon
      <4> QED
        BY <2>4, <2>5, <4>1, <4>2, <4>3, Zenon
    <3>2. ASSUME NEW k \in DOMAIN muts, Final(k)' PROVE muts'[k].ghost \/ tx'[Id(k)'] = Val(k)'
      <4>1. Id(k) # i
        BY <1>0, <2>3, <2>4, <2>5, <2>n, <3>2 DEF Final, Types
      <4>2. Final(k)
        BY <2>3, <2>4, <3>2, Zenon DEF Final
      <4>3. Id(k) \in Ids
        BY <1>0, Zenon DEF IdInv
      <4> QED
        BY <1>0, <1>1, <2>3, <2>4, <2>6, <4>1, <4>2, <4>3 DEF TxInv
    <3>3. muts'[n].ghost \/ tx'[Id(n)'] = Val(n)'
      BY <2>2, <2>3, <2>5, <2>6, Zenon
    <3>4. \A k \in DOMAIN muts : Shows(k)' = Shows(k)
      BY <1>1, <2>3, <2>4, Zenon DEF Shows
    <3>5. ASSUME NEW j \in Ids, (Seen(j)' = 1) # (db[j] = 1)
          PROVE  \E k \in DOMAIN muts' : Id(k)' = j /\ Shows(k)'
      <4>1. CASE j = i
        BY <2>3, <2>5, <4>1, ZenonT(60)
      <4>2. CASE j # i
        <5>1. PICK k \in DOMAIN muts : Id(k) = j /\ Shows(k)
          BY <1>0, <1>1, <2>7, <3>5, <4>2, Zenon DEF TxInv
        <5>2. k \in DOMAIN muts'
          BY <2>3, Zenon
        <5>3. Id(k)' = j /\ Shows(k)'
          BY <2>4, <3>4, <5>1, Zenon
        <5> QED
          BY <5>2, <5>3, Zenon
      <4> QED
        BY <4>1, <4>2, Zenon
    <3> QED
      BY <1>1, <2>3, <3>1, <3>2, <3>3, <3>5, ZenonT(60) DEF TxInv
  <2> QED
    BY <1>3, <2>8, <2>9, <2>10, <2>11, Zenon DEF IInv
<1> QED
  BY <1>6, <1>7, Zenon

\* A row is deleted.
LEMMA DeleteKept ==
    ASSUME IInv, Written, NEW i \in Ids, i = obj[Item].id, Delete(i)
    PROVE  IInv'
<1>0. Types /\ IdInv /\ TxInv /\ StoreInv /\ BatchCoherent
  BY Zenon DEF IInv
<1>1. /\ pc = "write" /\ pc' = "item" /\ pos' = pos + 1 /\ op = "delete"
      /\ UNCHANGED <<reuse, db, last, cache, list, obj, op, batch, began, doubt>>
  BY Zenon DEF Written, Delete, cacheVars
<1>2. pos \in 1 .. Len(batch) /\ Item \in Objects
  BY <1>0, <1>1 DEF Types, Item
<1>3. FinalInv' /\ BatchCoherent' /\ StoreInv'
  BY <1>0, <1>1, Zenon DEF FinalInv, BatchCoherent, Right, Result, StoreInv
<1>n. PICK n \in Nat : n = Len(muts) + 1
  BY <1>0 DEF Types
<1>x. PICK x : x = Mutation(Original(i), FALSE)
  BY Zenon
<1>4. Seen(i) \in Vals /\ i <= last
  BY <1>0, SeenRow, Zenon DEF Delete
<1>5. tx' = [tx EXCEPT ![i] = Deleted] /\ muts' = Append(muts, x)
  BY <1>x, Zenon DEF Delete
<1>6. x \in Mutations /\ x.obj = Item /\ x.old = Seen(i) /\ ~x.ghost
  BY <1>2, <1>4, <1>x, BatchAssumption, ZenonT(60) DEF Mutation, Mutations, Original
<1>7. /\ muts' \in Seq(Mutations) /\ DOMAIN muts' = DOMAIN muts \cup {n}
      /\ \A k \in DOMAIN muts : muts'[k] = muts[k]
      /\ muts'[n] = x
  BY <1>0, <1>5, <1>6, <1>n, Appended DEF Types
<1>8. \A k \in DOMAIN muts : Id(k)' = Id(k) /\ Shows(k)' = Shows(k)
  BY <1>1, <1>7, Zenon DEF Id, Val, Shows
<1>9. Id(n)' = i /\ (Seen(i) = 1 => Shows(n)')
  BY <1>1, <1>6, <1>7, Zenon DEF Id, Val, Shows
<1>10. /\ tx' \in [Ids -> Vals \cup {Absent, Deleted}]
       /\ \A j \in Ids : j # i => tx'[j] = tx[j] /\ Seen(j)' = Seen(j)
       /\ Seen(i)' = Absent
  <2>1. /\ tx' \in [Ids -> Vals \cup {Absent, Deleted}]
        /\ \A j \in Ids : j # i => tx'[j] = tx[j]
        /\ tx'[i] = Deleted
    BY <1>0, <1>5, ZenonT(60) DEF Types
  <2> QED
    BY <1>1, <2>1, SeenRow, BatchAssumption
<1>11. Types'
  BY <1>0, <1>1, <1>2, <1>7, <1>10 DEF Types
<1>12. IdInv'
  <2>1. \A k \in DOMAIN muts' : Id(k)' \in Ids /\ (~muts'[k].ghost => Id(k)' <= last)
    BY <1>0, <1>4, <1>7, <1>8, <1>9, Zenon DEF IdInv
  <2>2. \A j \in Ids : db[j] # Absent \/ tx'[j] # Absent => j <= last
    BY <1>0, <1>4, <1>10, Zenon DEF IdInv
  <2> QED
    BY <1>0, <1>1, <1>7, <2>1, <2>2, Zenon DEF IdInv
<1>13. TxInv'
  <2>1. \A j \in Ids : tx'[j] # Absent => \E k \in DOMAIN muts' : Id(k)' = j
    <3> SUFFICES ASSUME NEW j \in Ids, tx'[j] # Absent
                 PROVE  \E k \in DOMAIN muts' : Id(k)' = j
      BY Zenon
    <3>1. CASE j = i
      BY <1>7, <1>9, <3>1, Zenon
    <3>2. CASE j # i
      <4>1. PICK k \in DOMAIN muts : Id(k) = j
        BY <1>0, <1>1, <1>10, <3>2, Zenon DEF TxInv
      <4> QED
        BY <1>7, <1>8, <4>1, Zenon
    <3> QED
      BY <3>1, <3>2, Zenon
  <2>2. ASSUME NEW j \in Ids, (Seen(j)' = 1) # (db[j] = 1)
        PROVE  \E k \in DOMAIN muts' : Id(k)' = j /\ Shows(k)'
    <3>1. CASE j # i \/ Seen(i) # 1
      <4>1. (Seen(j) = 1) # (db[j] = 1)
        BY <1>10, <2>2, <3>1, BatchAssumption, Zenon DEF Vals
      <4> QED
        <5>1. PICK k \in DOMAIN muts : Id(k) = j /\ Shows(k)
          BY <1>0, <1>1, <4>1, Zenon DEF TxInv
        <5> QED
          BY <1>7, <1>8, <5>1, Zenon
    <3>2. CASE j = i /\ Seen(i) = 1
      BY <1>7, <1>9, <3>2, Zenon
    <3> QED
      BY <3>1, <3>2, Zenon
  <2> QED
    BY <1>1, <2>1, <2>2, Zenon DEF TxInv
<1> QED
  BY <1>3, <1>11, <1>12, <1>13, Zenon DEF IInv

\* The writes of an item, with or without its original.
LEMMA WriteKept == IInv /\ (Write \/ WriteUnread) => IInv'
<1> SUFFICES ASSUME IInv, Write \/ WriteUnread PROVE IInv'
  BY Zenon
<1>1. Types /\ Written
  BY Zenon DEF IInv, Write, WriteUnread
<1>2. /\ Item \in Objects /\ obj[Item] \in [id : Ids \cup {0}, val : Vals]
      /\ op = "delete" => obj[Item].id # 0
  BY <1>1 DEF Written, Types, Item
<1>3. CASE Insert /\ UNCHANGED <<unread, faults>>
  BY <1>1, <1>3, InsertKept, Zenon
<1>4. CASE ~Insert /\ op = "save"
  <2>1. ~IsNew /\ obj[Item].id \in Ids
    BY <1>2, <1>4, Zenon DEF Write, WriteUnread, IsNew, Update, Delete
  <2>2. PICK i \in Ids : i = obj[Item].id
    BY <2>1, Zenon
  <2>3. PICK v \in Vals : /\ Update(i, v) /\ unread \subseteq unread'
                          /\ v = Original(i) \/ i \in unread'
    <3>1. Original(i) \in Vals /\ 0 \in Vals
      BY <1>1, SeenRow, Zenon DEF Original, Vals
    <3> QED
      BY <1>4, <2>2, <3>1, Zenon DEF Write, WriteUnread, Delete
  <2> QED
    BY <1>1, <2>2, <2>3, UpdateKept, Zenon
<1>5. CASE op = "delete"
  <2>1. PICK i \in Ids : i = obj[Item].id
    BY <1>2, <1>5
  <2>2. Delete(i)
    BY <1>5, <2>1, Zenon DEF Write, WriteUnread, Insert, IsNew, Update
  <2> QED
    BY <1>1, <2>1, <2>2, DeleteKept, Zenon
<1> QED
  BY <1>1, <1>3, <1>4, <1>5, Zenon DEF Types, Write, WriteUnread, Insert, Update

-----------------------------------------------------------------------------
(* The hooks: a veto stops the batch, for any number of listeners and        *)
(* whatever happens to their registry.                                      *)

Elements == Listeners \cup {NoListener}

\* The types of the registry.  The array is full or has room.
HookTypes ==
    /\ array \in Seq(Elements)
    /\ length \in 0 .. Len(array)
    /\ shift \in 0 .. length
    /\ walk \in [len : Nat, pos : Nat, own : Seq(Elements)]

\* An array with room for a slice holds the slice.
LEMMA PaddedArray ==
    ASSUME NEW s \in Seq(Listeners), NEW c \in Nat, c >= Len(s)
    PROVE  /\ Padded(s, c) \in Seq(Elements)
           /\ Len(Padded(s, c)) = c
           /\ \A i \in 1 .. Len(s) : Padded(s, c)[i] = s[i]
BY DEF Padded, Elements

\* The same of an array, when it is copied to a larger one.
LEMMA GrownArray ==
    ASSUME NEW s \in Seq(Elements), NEW c \in Nat, c >= Len(s)
    PROVE  /\ Padded(s, c) \in Seq(Elements)
           /\ Len(Padded(s, c)) = c
BY DEF Padded, Elements

\* Every change of the registry, and every step of a walk, keeps the types.
LEMMA HookTypesKept ==
    ASSUME HookTypes
    PROVE  /\ HookChange => HookTypes'
           /\ Trigger => HookTypes'
           /\ Pass => HookTypes'
           /\ Leave => HookTypes'
           /\ Restart => HookTypes'
           /\ UNCHANGED hookVars => HookTypes'
<1> USE DEF HookTypes
<1>1. ASSUME NEW l \in Listeners, RegisterListener(l) PROVE HookTypes'
  <2>1. Detach \in [len : Nat, pos : Nat, own : Seq(Elements)]
    BY Zenon DEF Detach
  <2>2. CASE length < Len(array)
    <3>1. length + 1 \in 1 .. Len(array) /\ l \in Elements
      BY <2>2 DEF Elements
    <3>2. /\ array' = [array EXCEPT ![length + 1] = l] /\ length' = length + 1
          /\ UNCHANGED <<walk, shift>>
      BY <1>1, <2>2, Zenon DEF RegisterListener
    <3>3. array' \in Seq(Elements) /\ Len(array') = Len(array)
      BY <3>1, <3>2
    <3> QED
      BY <3>1, <3>2, <3>3
  <2>3. CASE length = Len(array)
    <3>1. Append(array, l) \in Seq(Elements) /\ Len(Append(array, l)) = length + 1
      BY <2>3 DEF Elements
    <3>2. Grown(length) \in Nat /\ Grown(length) >= length + 1
      BY DEF Grown
    <3> QED
      <4> DEFINE grown == Padded(Append(array, l), Grown(length))
      <4>1. array' = grown /\ length' = length + 1 /\ walk' = Detach /\ shift' = shift
        BY <1>1, <2>3 DEF RegisterListener
      <4>2. grown \in Seq(Elements) /\ Len(grown) = Grown(length)
        BY <3>1, <3>2, GrownArray, Zenon
      <4> HIDE DEF grown
      <4> QED
        BY <2>1, <3>2, <4>1, <4>2
  <2> QED
    BY <2>2, <2>3
<1>2. ASSUME NEW l \in Listeners, UnregisterListener(l) PROVE HookTypes'
  BY <1>2 DEF UnregisterListener
<1>3. ASSUME Shift PROVE HookTypes'
  <2>1. CASE shift < length
    <3>1. shift \in 1 .. Len(array) /\ array[shift + 1] \in Elements
      BY <1>3, <2>1 DEF Shift, Unlocked
    <3>2. /\ array' = [array EXCEPT ![shift] = array[shift + 1]] /\ shift' = shift + 1
          /\ UNCHANGED <<walk, length>>
      BY <1>3, <2>1 DEF Shift
    <3>3. array' \in Seq(Elements) /\ Len(array') = Len(array)
      BY <3>1, <3>2
    <3> QED
      BY <2>1, <3>1, <3>2, <3>3
  <2>2. CASE shift = length
    BY <1>3, <2>2 DEF Shift, Unlocked
  <2> QED
    BY <2>1, <2>2
<1>4. ASSUME ResetListeners PROVE HookTypes'
  BY <1>4 DEF ResetListeners, Detach, Change, Unlocked
<1>5. ASSUME Trigger PROVE HookTypes'
  BY <1>5 DEF Trigger, registryVars
<1>6. ASSUME Pass PROVE HookTypes'
  BY <1>6 DEF Pass, registryVars
<1>7. ASSUME Leave PROVE HookTypes'
  BY <1>7 DEF Leave, NoWalk, registryVars
<1>8. ASSUME Restart PROVE HookTypes'
  BY <1>8, PaddedArray, HookAssumption DEF Restart, NoWalk
<1> QED
  BY <1>1, <1>2, <1>3, <1>4, <1>5, <1>6, <1>7, <1>8, Zenon DEF HookChange, hookVars

-----------------------------------------------------------------------------

\* The listeners a walk is bound to call and that return an error for v.
Objecting(v) == {l \in due : <<l, v>> \in Vetoes}

\* A place of the walk's array that the walk comes to and nothing overwrites.
Ahead(l, j) ==
    IF walk.own = <<>>
    THEN j <= length /\ array[j] = l /\ (shift > 0 => j < shift)
    ELSE walk.own[j] = l

\* Each of them is ahead of the walk, and none is left of it in the registry.
WalkInv(v) ==
    /\ walk.pos >= 1
    /\ \A l \in Objecting(v) : \E j \in walk.pos .. walk.len : Ahead(l, j)
    /\ walk.own = <<>> =>
           \A j \in 1 .. length : j < walk.pos => array[j] \notin Objecting(v)

\* A walk starts with all the registered listeners ahead of it, and it keeps
\* those that object ahead until it calls one, whatever happens to the registry.
LEMMA WalkKept ==
    ASSUME HookTypes, NEW v
    PROVE  /\ Trigger => WalkInv(v)'
           /\ WalkInv(v) /\ HookChange => WalkInv(v)'
           /\ WalkInv(v) /\ Pass /\ ~Ended /\ <<Listener, v>> \notin Vetoes => WalkInv(v)'
           /\ WalkInv(v) /\ UNCHANGED hookVars => WalkInv(v)'
<1> USE DEF HookTypes, WalkInv, Ahead
<1>1. ASSUME Trigger PROVE WalkInv(v)'
  BY <1>1 DEF Trigger, registryVars, Registered, Unlocked, Objecting
<1>2. ASSUME WalkInv(v), NEW l \in Listeners, RegisterListener(l) PROVE WalkInv(v)'
  <2>1. Objecting(v)' = Objecting(v)
    BY <1>2, Zenon DEF RegisterListener, Objecting
  <2>2. CASE length < Len(array)
    <3>1. /\ array' = [array EXCEPT ![length + 1] = l] /\ length' = length + 1
          /\ shift = 0 /\ UNCHANGED <<walk, shift>>
      BY <1>2, <2>2 DEF RegisterListener, Change, Unlocked
    <3>2. \A j \in 1 .. length : array'[j] = array[j]
      BY <2>2, <3>1
    <3>3. array'[length + 1] = l
      BY <2>2, <3>1
    <3>4. ASSUME NEW m \in Objecting(v) PROVE \E j \in walk.pos .. walk.len : Ahead(m, j)'
      BY <1>2, <3>1, <3>2, <3>4
    <3>5. ASSUME walk.own = <<>>, NEW j \in 1 .. length + 1, j < walk.pos
          PROVE  array'[j] \notin Objecting(v)
      <4>1. CASE j <= length
        BY <1>2, <3>2, <3>5, <4>1
      <4>2. CASE j = length + 1
        <5>1. ASSUME l \in Objecting(v) PROVE FALSE
          <6>1. PICK k \in walk.pos .. walk.len : k <= length
            BY <1>2, <3>5, <5>1, Zenon
          <6> QED
            BY <3>5, <4>2, <6>1
        <5> QED
          BY <3>3, <4>2, <5>1, Zenon
      <4> QED
        BY <4>1, <4>2
    <3> QED
      BY <1>2, <2>1, <3>1, <3>4, <3>5, Zenon
  <2>3. CASE length = Len(array)
    <3>1. CASE walk.own = <<>>
      <4>1. walk' = [walk EXCEPT !.own = array]
        BY <1>2, <2>3, <3>1 DEF RegisterListener, Detach
      <4>2. CASE array = <<>>
        <5>1. Objecting(v) = {}
          BY <1>2, <2>3, <3>1, <4>2
        <5> QED
          BY <1>2, <2>1, <4>1, <4>2, <5>1, ZenonT(60) DEF RegisterListener
      <4>3. CASE array # <<>>
        BY <1>2, <2>1, <3>1, <4>1, <4>3
      <4> QED
        BY <4>2, <4>3, Zenon
    <3>2. CASE walk.own # <<>>
      BY <1>2, <2>1, <2>3, <3>2, Zenon DEF RegisterListener, Detach
    <3> QED
      BY <3>1, <3>2, Zenon
  <2> QED
    BY <2>2, <2>3
<1>3. ASSUME WalkInv(v), NEW l \in Listeners, UnregisterListener(l) PROVE WalkInv(v)'
  <2>1. PICK i \in 1 .. length :
           shift' = i /\ due' = IF walk.own = <<>> THEN due \cap {array[j] : j \in 1 .. i - 1} ELSE due
    BY <1>3, Zenon DEF UnregisterListener
  <2>2. UNCHANGED <<array, length, walk>>
    BY <1>3, Zenon DEF UnregisterListener
  <2>3. CASE walk.own # <<>>
    <3>1. Objecting(v)' = Objecting(v)
      BY <2>1, <2>3 DEF Objecting
    <3> QED
      BY <1>3, <2>2, <2>3, <3>1, Zenon
  <2>4. CASE walk.own = <<>>
    <3>1. Objecting(v)' = Objecting(v) \cap {array[j] : j \in 1 .. i - 1}
      BY <2>1, <2>4, Zenon DEF Objecting
    <3>2. ASSUME NEW m \in Objecting(v)' PROVE \E j \in walk.pos .. walk.len : Ahead(m, j)'
      <4>1. PICK j \in 1 .. i - 1 : array[j] = m
        BY <3>1, <3>2, Zenon
      <4>2. m \in Objecting(v)
        BY <3>1, <3>2, Zenon
      <4>3. j >= walk.pos
        <5>1. j \in 1 .. length
          OBVIOUS
        <5> QED
          BY <1>3, <2>4, <4>1, <4>2, <5>1
      <4>4. PICK k \in walk.pos .. walk.len : Ahead(m, k)
        BY <1>3, <4>2, Zenon
      <4>5. CASE j <= walk.len
        BY <2>1, <2>2, <2>4, <4>1, <4>3, <4>5
      <4>6. CASE j > walk.len
        BY <2>1, <2>2, <2>4, <4>1, <4>4, <4>6
      <4> QED
        BY <4>5, <4>6
    <3> QED
      BY <1>3, <2>2, <2>4, <3>1, <3>2, Zenon
  <2> QED
    BY <2>3, <2>4, Zenon
<1>4. ASSUME WalkInv(v), Shift PROVE WalkInv(v)'
  <2>1. Objecting(v)' = Objecting(v) /\ walk' = walk /\ shift > 0
    BY <1>4 DEF Shift, Objecting, Unlocked
  <2>2. CASE shift < length
    <3>1. /\ array' = [array EXCEPT ![shift] = array[shift + 1]]
          /\ shift' = shift + 1 /\ length' = length
      BY <1>4, <2>2, Zenon DEF Shift
    <3>2. \A j \in 1 .. length : j # shift => array'[j] = array[j]
      BY <3>1
    <3>3. array'[shift] = array[shift + 1]
      BY <2>1, <2>2, <3>1
    <3>4. ASSUME NEW m \in Objecting(v) PROVE \E j \in walk.pos .. walk.len : Ahead(m, j)'
      BY <1>4, <2>1, <3>1, <3>2, <3>4
    <3>5. ASSUME walk.own = <<>>, NEW j \in 1 .. length, j < walk.pos
          PROVE  array'[j] \notin Objecting(v)
      <4>1. CASE j # shift
        BY <1>4, <3>2, <3>5, <4>1, Zenon
      <4>2. CASE j = shift
        \* Nobody objects any more: it would be ahead, and left of the shift.
        <5>1. \A m \in Objecting(v) : \E k \in walk.pos .. walk.len : k < shift
          BY <1>4, <2>1, <3>5, Zenon
        <5> QED
          BY <3>5, <4>2, <5>1
      <4> QED
        BY <4>1, <4>2, Zenon
    <3> QED
      BY <1>4, <2>1, <3>1, <3>4, <3>5, Zenon
  <2>3. CASE shift = length
    <3>1. length' = length - 1 /\ shift' = 0 /\ array' = array
      BY <1>4, <2>3 DEF Shift
    <3> QED
      BY <1>4, <2>1, <2>3, <3>1
  <2> QED
    BY <2>2, <2>3
<1>5. ASSUME WalkInv(v), ResetListeners PROVE WalkInv(v)'
  <2>1. Objecting(v)' = Objecting(v) /\ length' = 0 /\ walk' = Detach
    BY <1>5, Zenon DEF ResetListeners, Objecting
  <2>2. CASE walk.own = <<>> /\ array = <<>>
    BY <1>5, <2>1, <2>2 DEF Detach
  <2>3. CASE walk.own = <<>> /\ array # <<>>
    BY <1>5, <2>1, <2>3 DEF Detach
  <2>4. CASE walk.own # <<>>
    BY <1>5, <2>1, <2>4, Zenon DEF Detach
  <2> QED
    BY <2>2, <2>3, <2>4, Zenon
<1>6. ASSUME WalkInv(v), Pass, ~Ended, <<Listener, v>> \notin Vetoes PROVE WalkInv(v)'
  <2>1. /\ Objecting(v)' = Objecting(v) /\ UNCHANGED <<array, length, shift>>
        /\ walk' = [walk EXCEPT !.pos = @ + 1]
    BY <1>6, Zenon DEF Pass, registryVars, Objecting
  <2>2. Listener \notin Objecting(v)
    BY <1>6 DEF Objecting
  <2>3. CASE walk.own = <<>>
    BY <1>6, <2>1, <2>2, <2>3 DEF Listener
  <2>4. CASE walk.own # <<>>
    BY <1>6, <2>1, <2>2, <2>4 DEF Listener
  <2> QED
    BY <2>3, <2>4
<1>7. ASSUME WalkInv(v), UNCHANGED hookVars PROVE WalkInv(v)'
  BY <1>7, Zenon DEF hookVars, Objecting
<1> QED
  BY <1>1, <1>2, <1>3, <1>4, <1>5, <1>6, <1>7, Zenon DEF HookChange

-----------------------------------------------------------------------------

\* The value the listeners of the current item are asked about.
Asked == obj[Item].val

HookInv == HookTypes /\ (pc = "hook" => WalkInv(Asked))

\* What a step of a batch does to the registry and the walk.
LEMMA HookSteps ==
    ASSUME [Next]_vars
    PROVE  \/ /\ HookChange /\ UNCHANGED <<pc, obj, batch, began, pos>>
           \/ /\ Trigger /\ pc' = "hook" /\ UNCHANGED <<obj, batch, began, pos>>
           \/ /\ Pass /\ ~Ended /\ <<Listener, Asked>> \notin Vetoes
              /\ UNCHANGED <<pc, obj, batch, began, pos>>
           \/ (Leave \/ Restart) /\ pc' # "hook"
           \/ /\ UNCHANGED hookVars
              /\ pc' = "hook" => pc = "hook" /\ UNCHANGED <<obj, batch, began, pos>>
<1> USE DEF callVars, Asked
<1>1. CASE \E o \in {"save", "delete"}, b \in Batches : Call(o, b)
  BY <1>1, Zenon DEF Call
<1>2. CASE Step
  <2>1. CASE Before
    BY <2>1, Zenon DEF Before
  <2>2. CASE Listen \/ Heard \/ Veto
    BY <2>2 DEF Listen, Heard, Veto, Rollback, Over
  <2>3. CASE Write \/ Missing \/ Commit \/ Return
    BY <2>3, Zenon DEF Write, Written, Missing, Rollback, Over, Commit, Return
  <2>4. CASE SetModel \/ Invalidate
    BY <2>4, Zenon DEF SetModel, Invalidate
  <2> QED
    BY <1>2, <2>1, <2>2, <2>3, <2>4, Zenon DEF Step
<1>3. CASE Faulty
  BY <1>3, Zenon DEF Faulty, WriteUnread, Written, Fail, Rollback, CommitUnknown, SetFails, Crash, Over
<1>4. CASE Around
  BY <1>4, Zenon DEF Around, ReadModel, ReadList, OtherInsert, OtherDelete, Expire, Registry
<1>5. CASE UNCHANGED vars
  BY <1>5, Zenon DEF vars
<1> QED
  BY <1>1, <1>2, <1>3, <1>4, <1>5, Zenon DEF Next

\* Every step keeps the objecting listeners ahead of the walk.
LEMMA HookInvPreserved == HookInv /\ [Next]_vars => HookInv'
<1> SUFFICES ASSUME HookInv, [Next]_vars PROVE HookInv'
  BY Zenon
<1>1. HookTypes'
  BY HookTypesKept, HookSteps DEF HookInv
<1>2. ASSUME pc' = "hook" PROVE WalkInv(Asked)'
  <2>1. PICK v : v = Asked
    BY Zenon
  <2>2. Asked' = v
    BY <1>2, <2>1, HookSteps, Zenon DEF Asked, Item, Leave, Restart
  <2>3. WalkInv(v)'
    <3>1. pc = "hook" => WalkInv(v)
      BY <2>1 DEF HookInv
    <3> QED
      BY <1>2, <2>1, <3>1, HookSteps, WalkKept, Zenon DEF HookInv
  <2> QED
    BY <2>2, <2>3, Zenon DEF WalkInv, Objecting
<1> QED
  BY <1>1, <1>2, Zenon DEF HookInv

\* A call commits no item that a listener bound to be called has vetoed, for
\* any number of listeners and any changes of the registry during the walk.
THEOREM VetoesRespected == Spec => []VetoRespected
<1>1. Init => HookInv
  BY PaddedArray, HookAssumption DEF Init, HookInit, HookInv, HookTypes, NoWalk
<1>2. HookInv => VetoRespected
  BY DEF HookInv, HookTypes, VetoRespected, WalkInv, Asked, Objecting, Ended
<1> QED
  BY <1>1, <1>2, HookInvPreserved, PTL DEF Spec

-----------------------------------------------------------------------------
(* The commit, and what follows it.                                          *)

\* The commit takes effect.
LEMMA CommitKept == IInv /\ Commit => IInv'
<1> SUFFICES ASSUME IInv, Commit PROVE IInv'
  OBVIOUS
<1>0. Types /\ IdInv /\ TxInv /\ BatchCoherent
  BY Zenon DEF IInv
<1>1. /\ pc = "item" /\ pc' = "set" /\ pos' = 1 /\ db' = Applied(db, tx) /\ tx' = NoWrites
      /\ UNCHANGED <<reuse, last, cache, list, obj, op, batch, began, muts, doubt>>
  BY DEF Commit, cacheVars
<1>2. \A i \in Ids : db'[i] = Seen(i) /\ tx'[i] = Absent
  BY <1>1 DEF Seen, Applied, NoWrites
<1>3. db' \in [Ids -> Vals \cup {Absent}] /\ tx' \in [Ids -> Vals \cup {Absent, Deleted}]
  <2>1. db' = [i \in Ids |-> Seen(i)]
    BY <1>1 DEF Seen, Applied
  <2> QED
    BY <1>0, <1>1, <2>1, SeenRow, Zenon DEF NoWrites
<1>4. Types'
  BY <1>0, <1>1, <1>3 DEF Types, NoWrites
<1>5. \A k \in DOMAIN muts :
         /\ Id(k)' = Id(k) /\ Val(k)' = Val(k) /\ Final(k)' = Final(k) /\ Shows(k)' = Shows(k)
         /\ muts'[k] = muts[k] /\ k >= 1
  BY <1>0, <1>1 DEF Id, Val, Final, Shows, Types
<1>6. IdInv'
  <2>1. \A k \in DOMAIN muts' : Id(k)' \in Ids /\ (~muts'[k].ghost => Id(k)' <= last')
    BY <1>0, <1>1, <1>5, Zenon DEF IdInv
  <2>2. \A i \in Ids : db'[i] # Absent \/ tx'[i] # Absent => i <= last'
    BY <1>0, <1>1, <1>2, SeenRow, Zenon
  <2> QED
    BY <1>0, <1>1, <2>1, <2>2, Zenon DEF IdInv
<1>7. FinalInv'
  <2>1. ASSUME NEW i \in Ids \ doubt
        PROVE  Right(i)' \/ \E k \in DOMAIN muts' : k >= Unset' /\ Id(k)' = i
    <3>1. cache[i] \in {Absent, db[i]}
      BY <1>0, <1>1 DEF BatchCoherent, Right, Ids, List
    <3>2. CASE tx[i] = Absent
      BY <1>1, <1>2, <3>1, <3>2, SeenRow DEF Right, Ids, List
    <3>3. CASE tx[i] # Absent
      BY <1>0, <1>1, <1>5, <3>3, ZenonT(60) DEF TxInv, Unset
    <3> QED
      BY <3>2, <3>3, Zenon
  <2>2. ASSUME op = "save", NEW k \in DOMAIN muts, Final(k)
        PROVE  muts[k].ghost \/ db'[Id(k)] = Val(k)
    <3>1. Id(k) \in Ids /\ Val(k) \in Vals
      BY <1>0, MutationTyped, Zenon DEF IdInv
    <3>2. muts[k].ghost \/ tx[Id(k)] = Val(k)
      BY <1>0, <1>1, <2>2 DEF TxInv
    <3>3. PICK i \in Ids : i = Id(k)
      BY <3>1
    <3> QED
      BY <1>2, <3>1, <3>2, <3>3, SeenRow, BatchAssumption, Zenon
  <2>3. List \in doubt \/ Right(List)' \/ \E k \in DOMAIN muts' : k >= pos' /\ Shows(k)'
    <3>1. CASE \A i \in Ids : (Seen(i) = 1) = (db[i] = 1)
      <4>1. Result(db') = Result(db)
        BY <1>2, <3>1, Zenon DEF Result
      <4>2. List \in doubt \/ Right(List)
        BY <1>0, <1>1, Zenon DEF BatchCoherent
      <4> QED
        BY <1>1, <4>1, <4>2, Zenon DEF Right
    <3>2. CASE \E i \in Ids : (Seen(i) = 1) # (db[i] = 1)
      BY <1>0, <1>1, <1>5, <3>2, Zenon DEF TxInv
    <3> QED
      BY <3>1, <3>2, Zenon
  <2> QED
    BY <1>1, <1>5, <2>1, <2>2, <2>3, Zenon DEF FinalInv
<1>8. TxInv' /\ StoreInv' /\ BatchCoherent'
  BY <1>1, Zenon DEF TxInv, StoreInv, BatchCoherent
<1> QED
  BY <1>4, <1>6, <1>7, <1>8, Zenon DEF IInv

\* A call ends after its commit, and takes what it has not finalized for doubtful.
LEMMA EndKept ==
    ASSUME IInv, Over, UNCHANGED <<reuse, last, cache, list, op>>, tx' = NoWrites,
           obj' \in [Objects -> [id : Ids \cup {0}, val : Vals]],
           \A o \in Objects : obj'[o].id \in {0, obj[o].id},
           db' \in [Ids -> Vals \cup {Absent}],
           \A i \in Ids : db'[i] # Absent => i <= last,
           doubt' \subseteq Keys, \A k \in Keys \ doubt' : Right(k)'
    PROVE  IInv'
<1>0. Types /\ IdInv
  BY Zenon DEF IInv
<1>1. /\ pc' = "idle" /\ batch' = <<>> /\ pos' = 0 /\ began' = 0
      /\ muts' = <<>> /\ DOMAIN muts' = {}
  BY DEF Over
<1>2. Types'
  BY <1>0, <1>1 DEF Types, NoWrites
<1>3. IdInv'
  <2>1. \A i \in Ids : tx'[i] = Absent
    BY Zenon DEF NoWrites
  <2>2. ~reuse => \A o \in Objects : obj'[o].id <= last'
    BY <1>0 DEF IdInv, Types
  <2> QED
    BY <1>1, <2>1, <2>2, Zenon DEF IdInv
<1>4. TxInv' /\ FinalInv' /\ StoreInv'
  BY <1>1, Zenon DEF TxInv, FinalInv, StoreInv
<1>5. BatchCoherent'
  <2>1. PICK d : d = doubt'
    BY Zenon
  <2>2. \A k \in Keys \ d : Right(k)'
    BY <2>1, Zenon
  <2> QED
    BY <1>1, <2>1, <2>2, Zenon DEF BatchCoherent, Keys
<1> QED
  BY <1>2, <1>3, <1>4, <1>5, Zenon DEF IInv

\* The ways a call ends: it returns, is rolled back, loses an answer or crashes.
LEMMA EndsKept ==
    ASSUME IInv, Veto \/ Missing \/ Fail \/ CommitUnknown \/ Return \/ Crash
    PROVE  IInv'
<1> USE DEF cacheVars
<1>0. Types /\ IdInv /\ TxInv /\ FinalInv /\ BatchCoherent
  BY Zenon DEF IInv
<1>1. Touched = {Id(k) : k \in DOMAIN muts} /\ Touched \subseteq Ids
  BY <1>0, Zenon DEF Touched, Id, IdInv
<1>2. ASSUME Veto \/ Missing \/ Fail PROVE IInv'
  <2>1. Writing /\ Undo /\ Over /\ UNCHANGED <<reuse, db, cache, list, op, doubt, obj>>
    BY <1>2, Zenon DEF Veto, Missing, Fail, Rollback
  <2> QED
    BY <1>0, <2>1, UndoKept, Zenon DEF Types
<1>3. ASSUME CommitUnknown PROVE IInv'
  <2>1. /\ pc = "item" /\ Over /\ db' = Applied(db, tx) /\ tx' = NoWrites
        /\ doubt' = doubt \cup Touched \cup {List}
        /\ UNCHANGED <<reuse, last, cache, list, obj, op>>
    BY <1>3, Zenon DEF CommitUnknown
  <2>2. db' = [i \in Ids |-> Seen(i)]
    BY <2>1, Zenon DEF Seen, Applied
  <2>3. /\ db' \in [Ids -> Vals \cup {Absent}]
        /\ \A i \in Ids : db'[i] # Absent => i <= last
    BY <1>0, <2>2, SeenRow, Zenon
  <2>4. ASSUME NEW k \in Keys, k \notin doubt' PROVE Right(k)'
    <3>1. k \in Ids /\ k \notin doubt /\ tx[k] = Absent
      BY <1>0, <1>1, <2>1, <2>4, Zenon DEF Keys, TxInv
    <3>2. db'[k] = db[k] /\ k # List
      BY <2>2, <3>1, SeenRow DEF Ids, List
    <3> QED
      BY <1>0, <2>1, <3>1, <3>2, Zenon DEF BatchCoherent, Right
  <2> QED
    BY <1>0, <1>1, <2>1, <2>3, <2>4, EndKept, Zenon DEF Types, Keys
<1>4. ASSUME Return PROVE IInv'
  <2>1. /\ pc = "set" /\ pos > Len(muts) /\ Over
        /\ UNCHANGED <<reuse, last, tx, db, cache, list, obj, op, doubt>>
    BY <1>4, Zenon DEF Return, Done, dbVars
  <2>2. ASSUME NEW k \in Keys, k \notin doubt' PROVE Right(k)'
    <3>1. \A m \in DOMAIN muts : ~(m >= pos)
      BY <1>0, <2>1 DEF Types
    <3>2. Right(k)
      BY <1>0, <2>1, <2>2, <3>1, Zenon DEF FinalInv, Unset, Keys
    <3> QED
      BY <2>1, <3>2, Zenon DEF Right, Result
  <2> QED
    BY <1>0, <2>1, <2>2, EndKept, Zenon DEF Types, IdInv
<1>5. ASSUME Crash PROVE IInv'
  <2>1. /\ Over /\ obj' = [o \in Objects |-> [id |-> 0, val |-> 0]]
        /\ UNCHANGED <<reuse, db, cache, list, op>>
        /\ obj' \in [Objects -> [id : Ids \cup {0}, val : Vals]]
        /\ \A o \in Objects : obj'[o].id \in {0, obj[o].id}
    BY <1>5, Zenon DEF Crash, Vals
  <2>2. CASE Writing
    BY <1>5, <2>1, <2>2, UndoKept, Zenon DEF Crash
  <2>3. CASE Finalizing
    <3>1. UNCHANGED <<tx, last>> /\ doubt' = doubt \cup Touched \cup {List}
      BY <1>5, <2>3, Zenon DEF Crash
    <3>2. ASSUME NEW k \in Keys, k \notin doubt' PROVE Right(k)'
      <4>1. k \in Ids /\ k \notin doubt /\ \A m \in DOMAIN muts : Id(m) # k
        BY <1>1, <3>1, <3>2, Zenon DEF Keys
      <4>2. Right(k) /\ k # List
        BY <1>0, <2>3, <4>1 DEF FinalInv, Ids, List
      <4> QED
        BY <2>1, <4>2 DEF Right
    <3> QED
      BY <1>0, <1>1, <2>1, <2>3, <3>1, <3>2, EndKept, Zenon DEF Types, Keys, IdInv
  <2> QED
    BY <1>0, <1>5, <2>2, <2>3, Zenon DEF Crash, Types
<1> QED
  BY <1>2, <1>3, <1>4, <1>5

\* The entry of a model is set or removed, or that fails.
LEMMA SetKept == IInv /\ (SetModel \/ SetFails) => IInv'
<1> SUFFICES ASSUME IInv, SetModel \/ SetFails PROVE IInv'
  OBVIOUS
<1> USE DEF cacheVars, dbVars
<1>0. Types /\ IdInv /\ FinalInv
  BY Zenon DEF IInv
<1>p. PICK p \in Nat : p = pos
  BY <1>0, Zenon DEF Types
<1>1. /\ pc = "set" /\ pc' \in {"set", "invalidate"} /\ p \in DOMAIN muts /\ p <= Len(muts)
      /\ UNCHANGED <<reuse, db, last, tx, list, obj, op, batch, began, muts>>
      /\ (pc' = "invalidate" /\ pos' = p) \/ (pc' = "set" /\ pos' = p + 1)
  BY <1>0, <1>p DEF SetModel, SetFails, Done, Types
<1>2. Unset = p /\ Unset' = p + 1 /\ Model.id = Id(p) /\ Model.val = Val(p)
  BY <1>1, <1>p, Zenon DEF Unset, Model, Id, Val
<1>i. PICK i \in Ids : i = Id(p)
  BY <1>0, <1>1, Zenon DEF IdInv
<1>3. \A k \in DOMAIN muts :
         /\ Id(k)' = Id(k) /\ Val(k)' = Val(k) /\ Final(k)' = Final(k) /\ Shows(k)' = Shows(k)
         /\ k \in Nat
  BY <1>0, <1>1, MutationTyped, Zenon DEF Id, Val, Final, Shows
<1>4. /\ doubt' \subseteq Keys /\ cache' \in [Ids -> Vals \cup {Absent}]
      /\ \A j \in Ids : j # i => cache'[j] = cache[j] /\ (j \in doubt' <=> j \in doubt)
      /\ List \in doubt => List \in doubt'
      /\ pos' = p + 1 => List \in doubt'
  <2>1. /\ Val(p) \in Vals /\ List \notin Ids /\ List \in Keys /\ Ids \subseteq Keys
        /\ doubt \subseteq Keys /\ cache \in [Ids -> Vals \cup {Absent}]
    BY <1>0, <1>1, MutationTyped, IdFacts, Zenon DEF Types
  <2>2. CASE SetModel
    <3>1. /\ doubt' \in {doubt \cup {i}, doubt \ {i}} /\ pos' = p
          /\ \E v \in Vals \cup {Absent} : cache' = [cache EXCEPT ![i] = v]
      BY <1>2, <1>i, <1>p, <2>1, <2>2, Zenon DEF SetModel
    <3>2. pos' # p + 1
      BY <3>1, IdFacts, Zenon
    <3> QED
      BY <2>1, <3>1, <3>2, Zenon
  <2>3. CASE SetFails
    <3>1. /\ doubt' = doubt \cup {i} \cup (IF op = "save" THEN {} ELSE {List}) /\ cache' = cache
          /\ op = "save" => pos' = p
      BY <1>2, <1>i, <1>p, <2>3, Zenon DEF SetFails
    <3>2. op = "save" => pos' # p + 1
      BY <3>1, IdFacts, Zenon
    <3> QED
      BY <2>1, <3>1, <3>2, Zenon
  <2> QED
    BY <2>2, <2>3, Zenon
<1>5. i \in doubt' \/ Right(i)' \/ \E k \in DOMAIN muts : k >= p + 1 /\ Id(k) = i
  <2>1. CASE SetFails
    BY <1>2, <1>i, <2>1, Zenon DEF SetFails
  <2>2. CASE SetModel /\ op = "delete"
    <3>1. cache'[i] = Absent
      BY <1>0, <1>2, <1>i, <2>2, Zenon DEF SetModel, Types
    <3> QED
      BY <3>1, IdFacts, Zenon DEF Right
  <2>3. CASE SetModel /\ op = "save"
    <3>1. cache'[i] = Val(p) /\ (muts[p].ghost \/ db[i] = Absent => i \in doubt')
      BY <1>0, <1>2, <1>i, <1>p, <2>3, Zenon DEF SetModel, Types
    <3>2. CASE Final(p)
      <4>1. muts[p].ghost \/ db[i] \in {Absent, Val(p)}
        BY <1>0, <1>1, <1>i, <2>3, <3>2, Zenon DEF FinalInv
      <4> QED
        BY <1>1, <3>1, <4>1, IdFacts, Zenon DEF Right
    <3>3. CASE ~Final(p)
      BY <1>3, <1>i, <3>3 DEF Final
    <3> QED
      BY <3>2, <3>3, Zenon
  <2> QED
    BY <1>0, <2>1, <2>2, <2>3, Zenon DEF Types
<1>6. FinalInv'
  <2>1. ASSUME NEW j \in Ids, j \notin doubt'
        PROVE  Right(j)' \/ \E k \in DOMAIN muts' : k >= Unset' /\ Id(k)' = j
    <3>1. CASE j = i
      BY <1>1, <1>2, <1>3, <1>5, <2>1, <3>1, Zenon
    <3>2. CASE j # i
      <4>1. Right(j) \/ \E k \in DOMAIN muts : k >= p /\ Id(k) = j
        BY <1>0, <1>1, <1>2, <1>4, <2>1, <3>2, Zenon DEF FinalInv
      <4>2. CASE Right(j)
        BY <1>1, <1>4, <3>2, <4>2, Zenon DEF Right, Ids, List
      <4>3. CASE \E k \in DOMAIN muts : k >= p /\ Id(k) = j
        BY <1>1, <1>2, <1>3, <1>i, <3>2, <4>3
      <4> QED
        BY <4>1, <4>2, <4>3, Zenon
    <3> QED
      BY <3>1, <3>2, Zenon
  <2>2. List \in doubt' \/ Right(List)' \/ \E k \in DOMAIN muts' : k >= pos' /\ Shows(k)'
    BY <1>0, <1>1, <1>3, <1>4, <1>p, Zenon DEF FinalInv, Right, Result
  <2> QED
    BY <1>0, <1>1, <1>3, <2>1, <2>2 DEF FinalInv
<1>7. Types'
  BY <1>0, <1>1, <1>4, <1>p DEF Types, NoWrites
<1>8. IdInv'
  BY <1>0, <1>1, <1>3, Zenon DEF IdInv
<1>9. TxInv' /\ StoreInv' /\ BatchCoherent'
  BY <1>1, Zenon DEF TxInv, StoreInv, BatchCoherent
<1> QED
  BY <1>6, <1>7, <1>8, <1>9, Zenon DEF IInv

\* The query is invalidated, or not, or that fails.
LEMMA InvalidateKept == IInv /\ Invalidate => IInv'
<1> SUFFICES ASSUME IInv, Invalidate PROVE IInv'
  OBVIOUS
<1> USE DEF dbVars
<1>0. Types /\ IdInv /\ FinalInv
  BY Zenon DEF IInv
<1>p. PICK p \in Nat : p = pos
  BY <1>0, Zenon DEF Types
<1>1. /\ pc = "invalidate" /\ pc' = "set" /\ pos' = p + 1 /\ p \in DOMAIN muts /\ p <= Len(muts)
      /\ UNCHANGED <<reuse, db, last, tx, cache, obj, op, batch, began, muts>>
  BY <1>0, <1>p DEF Invalidate, Types
<1>2. Unset' = Unset
  BY <1>1, <1>p, Zenon DEF Unset
<1>3. \A k \in DOMAIN muts :
         /\ Id(k)' = Id(k) /\ Val(k)' = Val(k) /\ Final(k)' = Final(k) /\ Shows(k)' = Shows(k)
         /\ k \in Nat
  BY <1>0, <1>1 DEF Id, Val, Final, Shows, Types
<1>4. Shows(p) => Affected \/ Misjudged
  BY <1>0, <1>1, <1>p, MutationTyped, Zenon DEF Shows, Affected, Misjudged, Model, Val, Vals
<1>5. doubt' \subseteq Keys /\ \A j \in Ids : j \in doubt' <=> j \in doubt
  BY <1>0 DEF Invalidate, Types, Keys, Ids, List
<1>6. List \in doubt' \/ Right(List)' \/ \E k \in DOMAIN muts' : k >= pos' /\ Shows(k)'
  <2>1. CASE Affected \/ Misjudged
    BY <2>1, Zenon DEF Invalidate, Right
  <2>2. CASE ~Affected /\ ~Misjudged
    <3>1. doubt' = doubt /\ list' = list
      BY <2>2, Zenon DEF Invalidate
    <3> QED
      BY <1>0, <1>1, <1>3, <1>4, <1>p, <2>2, <3>1 DEF FinalInv, Right, Result
  <2> QED
    BY <2>1, <2>2
<1>7. FinalInv'
  <2>1. \A j \in Ids : Right(j)' = Right(j)
    BY <1>1, IdFacts, Zenon DEF Right
  <2> QED
    BY <1>0, <1>1, <1>2, <1>3, <1>5, <1>6, <2>1, Zenon DEF FinalInv
<1>8. Types'
  BY <1>0, <1>1, <1>5 DEF Types, NoWrites
<1>9. IdInv'
  BY <1>0, <1>1, <1>3, Zenon DEF IdInv
<1>10. TxInv' /\ StoreInv' /\ BatchCoherent'
  BY <1>1, Zenon DEF TxInv, StoreInv, BatchCoherent
<1> QED
  BY <1>7, <1>8, <1>9, <1>10, Zenon DEF IInv

\* The steps of others: a row they change is not written by the transaction, and
\* is deleted or new; an entry is right afterwards, in doubt, or was wrong before.
LEMMA OthersKept ==
    ASSUME IInv, UNCHANGED <<reuse, tx, obj, callVars>>,
           last' \in Nat, last <= last',
           reuse /\ Writing => db' = db /\ last' = last,
           db' \in [Ids -> Vals \cup {Absent}], cache' \in [Ids -> Vals \cup {Absent}],
           doubt' \subseteq Keys,
           \A i \in Ids : db'[i] # db[i] => tx[i] = Absent /\ (db'[i] = Absent \/ i > last),
           \A i \in Ids : db'[i] # Absent => i <= last',
           \A k \in Keys : k \notin doubt' => Right(k)' \/ (k \notin doubt /\ ~Right(k))
    PROVE  IInv'
<1>0. Types /\ IdInv /\ TxInv /\ FinalInv /\ StoreInv /\ BatchCoherent
  BY Zenon DEF IInv
<1>1. UNCHANGED <<pc, op, batch, began, pos, muts, unread, obj, tx, reuse>>
  BY Zenon DEF callVars
<1>2. \A k \in DOMAIN muts :
         /\ Id(k)' = Id(k) /\ Val(k)' = Val(k) /\ Final(k)' = Final(k) /\ Shows(k)' = Shows(k)
  BY <1>1, Zenon DEF Id, Val, Final, Shows
<1>3. Types'
  BY <1>0, <1>1, Zenon DEF Types, NoWrites, Item
<1>4. IdInv'
  <2>0. \A i \in Ids \cup {0} : i <= last => i <= last'
    <3>1. last \in Nat /\ \A i \in Ids \cup {0} : i \in Nat
      BY <1>0, IdFacts, Zenon DEF Types
    <3> QED
      BY <3>1, IdFacts, Zenon
  <2>1. \A k \in DOMAIN muts' : Id(k)' \in Ids /\ (~muts'[k].ghost => Id(k)' <= last')
    BY <1>0, <1>1, <1>2, <2>0, Zenon DEF IdInv
  <2>2. \A i \in Ids : db'[i] # Absent \/ tx'[i] # Absent => i <= last'
    BY <1>0, <1>1, <2>0, Zenon DEF IdInv
  <2>3. ~reuse => \A o \in Objects : obj'[o].id <= last'
    <3>1. ASSUME NEW o \in Objects PROVE obj[o].id \in Ids \cup {0}
      BY <1>0, Zenon DEF Types
    <3>2. ~reuse => \A o \in Objects : obj[o].id <= last
      BY <1>0, Zenon DEF IdInv
    <3> QED
      BY <1>1, <2>0, <3>1, <3>2, Zenon
  <2>4. reuse /\ Writing => began <= last /\ \A i \in Ids : db[i] # Absent => i <= began
    BY <1>0, Zenon DEF IdInv
  <2>5. reuse /\ Writing => began <= last' /\ \A i \in Ids : db'[i] # Absent => i <= began
    BY <2>4, Zenon
  <2>6. began' = began /\ (reuse' <=> reuse) /\ (Writing' <=> Writing)
    BY <1>1
  <2> HIDE DEF Writing
  <2> QED
    BY <2>1, <2>2, <2>3, <2>5, <2>6, Zenon DEF IdInv
<1>5. \A i \in Ids : \/ db'[i] = db[i] /\ Seen(i)' = Seen(i)
                     \/ Seen(i)' = db'[i] /\ (db'[i] = Absent \/ i > last)
  BY <1>1, SeenRow, Zenon
<1>6. TxInv'
  <2>1. ASSUME Writing, NEW i \in Ids, (Seen(i)' = 1) # (db'[i] = 1)
        PROVE  \E k \in DOMAIN muts' : Id(k)' = i /\ Shows(k)'
    BY <1>0, <1>1, <1>2, <1>5, <2>1 DEF TxInv
  <2> QED
    BY <1>0, <1>1, <1>2, <2>1, ZenonT(60) DEF TxInv
<1>7. FinalInv'
  <2> SUFFICES ASSUME Finalizing PROVE FinalInv'
    BY <1>1, Zenon DEF FinalInv
  <2>1. ASSUME NEW i \in Ids, i \notin doubt'
        PROVE  Right(i)' \/ \E k \in DOMAIN muts' : k >= Unset' /\ Id(k)' = i
    BY <1>0, <1>1, <1>2, <2>1, Zenon DEF FinalInv, Unset, Keys
  <2>a. \A i \in Ids : i <= last => db'[i] \in {db[i], Absent}
    <3>1. last \in Nat
      BY <1>0, Zenon DEF Types
    <3> QED
      BY <3>1, IdFacts, Zenon
  <2>2. ASSUME op = "save", NEW k \in DOMAIN muts, Final(k)
        PROVE  muts[k].ghost \/ db'[Id(k)] \in {Absent, Val(k)}
    <3>1. Id(k) \in Ids /\ (~muts[k].ghost => Id(k) <= last)
      BY <1>0, Zenon DEF IdInv
    <3>2. muts[k].ghost \/ db[Id(k)] \in {Absent, Val(k)}
      BY <1>0, <2>2, ZenonT(60) DEF FinalInv
    <3> QED
      BY <3>1, <3>2, <2>a, Zenon
  <2>3. List \in doubt' \/ Right(List)' \/ \E k \in DOMAIN muts' : k >= pos' /\ Shows(k)'
    BY <1>0, <1>1, <1>2, IdFacts, Zenon DEF FinalInv
  <2> QED
    BY <1>1, <1>2, <2>1, <2>2, <2>3, Zenon DEF FinalInv
<1>8. StoreInv'
  <2>1. ASSUME Writing, op = "save", NEW n \in 1 .. pos - 1
        PROVE  \E i \in Ids : obj'[batch'[n]].id = i /\ Stored(n, i)'
    <3>1. PICK i \in Ids : obj[batch[n]].id = i /\ Stored(n, i)
      BY <1>0, <2>1, Zenon DEF StoreInv
    <3>2. batch[n] \in Objects
      BY <1>0, <2>1 DEF Types
    <3>3. Seen(i)' \in {Seen(i), Absent}
      <4>1. CASE reuse
        BY <1>1, <2>1, <4>1, SeenRow, ZenonT(60)
      <4>2. CASE ~reuse
        <5>1. last \in Nat /\ i <= last
          BY <1>0, <3>1, <3>2, <4>2, Zenon DEF IdInv, Types
        <5> QED
          BY <1>5, <5>1, IdFacts, Zenon
      <4> QED
        BY <4>1, <4>2, Zenon
    <3> QED
      BY <1>1, <3>1, <3>3, Zenon DEF Stored
  <2> QED
    BY <1>1, <2>1, Zenon DEF StoreInv
<1>9. BatchCoherent'
  <2>1. ASSUME ~Finalizing, NEW k \in Keys, k \notin doubt' PROVE Right(k)'
    BY <1>0, <2>1, Zenon DEF BatchCoherent, Keys
  <2> QED
    BY <1>1, <2>1, Zenon DEF BatchCoherent, Keys
<1> QED
  BY <1>3, <1>4, <1>6, <1>7, <1>8, <1>9, Zenon DEF IInv

\* Each of those steps is one.
LEMMA AroundKept == IInv /\ Around => IInv'
<1> SUFFICES ASSUME IInv, Around PROVE IInv'
  BY Zenon
<1> USE DEF dbVars, cacheVars
<1>0. Types /\ IdInv
  BY Zenon DEF IInv
<1>1. last \in Nat /\ List \notin Ids /\ Keys = Ids \cup {List}
      /\ \A i \in Ids : db[i] # Absent => i <= last
  BY <1>0, IdFacts, Zenon DEF Types, IdInv
<1>2. ASSUME NEW i \in Ids, ReadModel(i) PROVE IInv'
  <2>1. /\ UNCHANGED <<reuse, tx, obj, callVars, db, last, list, doubt>>
        /\ cache' = [cache EXCEPT ![i] = db[i]]
    BY <1>2, Zenon DEF ReadModel
  <2>2. cache' \in [Ids -> Vals \cup {Absent}]
    BY <1>0, <2>1, Zenon DEF Types
  <2>3. \A k \in Keys : Right(k) => Right(k)'
    BY <1>0, <1>1, <2>1, Zenon DEF Right, Result, Types
  <2> QED
    BY <1>0, <1>1, <2>1, <2>2, <2>3, OthersKept DEF Types
<1>3. ASSUME ReadList PROVE IInv'
  <2>1. /\ UNCHANGED <<reuse, tx, obj, callVars, db, last, cache, doubt>> /\ list' = Result(db)
    BY <1>3, Zenon DEF ReadList
  <2>2. \A k \in Keys : Right(k) => Right(k)'
    BY <1>1, <2>1, Zenon DEF Right, Result
  <2> QED
    BY <1>0, <1>1, <2>1, <2>2, OthersKept DEF Types
<1>4. ASSUME NEW k \in Keys, Expire(k) PROVE IInv'
  <2>1. UNCHANGED <<reuse, tx, obj, callVars, db, last>> /\ doubt' = doubt \ {k}
    BY <1>4, Zenon DEF Expire
  <2>2. CASE k = List
    <3>1. list' = Absent /\ cache' = cache
      BY <1>4, <2>2, Zenon DEF Expire
    <3>2. \A m \in Keys : m = k \/ Right(m) => Right(m)'
      BY <1>1, <2>1, <2>2, <3>1, Zenon DEF Right
    <3> QED
      BY <1>0, <1>1, <2>1, <3>1, <3>2, OthersKept DEF Types
  <2>3. CASE k # List
    <3>1. list' = list /\ cache' = [cache EXCEPT ![k] = Absent] /\ k \in Ids
      BY <1>1, <1>4, <2>3, Zenon DEF Expire
    <3>2. cache' \in [Ids -> Vals \cup {Absent}]
      BY <1>0, <3>1, Zenon DEF Types
    <3>3. \A m \in Keys : m = k \/ Right(m) => Right(m)'
      BY <1>0, <1>1, <2>1, <2>3, <3>1, Zenon DEF Right, Result, Types
    <3> QED
      BY <1>0, <1>1, <2>1, <3>2, <3>3, OthersKept DEF Types
  <2> QED
    BY <2>2, <2>3, Zenon
<1>5. ASSUME NEW v \in Vals, OtherInsert(v) PROVE IInv'
  <2>i. PICK i \in Ids : i = last + 1
    BY <1>1, <1>5, BatchAssumption DEF OtherInsert, Ids
  <2>1. /\ UNCHANGED <<reuse, tx, obj, callVars>> /\ last' = i
        /\ db' = [db EXCEPT ![i] = v] /\ cache' = [cache EXCEPT ![i] = v]
        /\ list' = IF v = 1 THEN Absent ELSE list
        /\ doubt' = (doubt \ {i}) \ (IF v = 1 THEN {List} ELSE {})
        /\ ~Locked
    BY <1>5, <2>i, Zenon DEF OtherInsert
  <2>2. db[i] = Absent /\ tx[i] = Absent
    BY <1>0, <1>1, <2>i DEF IdInv, Ids
  <2>3. db' \in [Ids -> Vals \cup {Absent}] /\ cache' \in [Ids -> Vals \cup {Absent}]
    BY <1>0, <2>1, Zenon DEF Types
  <2>4. v # 1 => Result(db') = Result(db)
    BY <1>0, <2>1, <2>2, BatchAssumption DEF Result, Types, Vals
  <2>5. Right(i)' /\ (v = 1 \/ Right(List) => Right(List)')
    BY <1>0, <1>1, <2>1, <2>4, Zenon DEF Right, Types
  <2>6. \A m \in Ids : m # i /\ Right(m) => Right(m)'
    BY <1>0, <1>1, <2>1, Zenon DEF Right, Types
  <2>7. reuse /\ Writing => FALSE
    BY <2>1, Zenon DEF Locked
  <2>8. \A m \in Keys : m \notin doubt' => Right(m)' \/ (m \notin doubt /\ ~Right(m))
    BY <1>1, <2>1, <2>5, <2>6, Zenon
  <2>9. /\ \A m \in Ids : db'[m] # db[m] => tx[m] = Absent /\ (db'[m] = Absent \/ m > last)
        /\ \A m \in Ids : db'[m] # Absent => m <= last'
    BY <1>0, <1>1, <2>1, <2>2, <2>i DEF Types, Ids
  <2>10. doubt' \subseteq Keys /\ last' \in Nat /\ last <= last'
    <3>1. doubt \subseteq Keys
      BY <1>0, Zenon DEF Types
    <3>2. doubt' \subseteq doubt
      BY <2>1, Zenon
    <3>3. last' \in Nat /\ last <= last'
      BY <1>1, <2>1, <2>i
    <3> QED
      BY <3>1, <3>2, <3>3, Zenon
  <2> QED
    BY <2>1, <2>3, <2>7, <2>8, <2>9, <2>10, OthersKept, Zenon
<1>6. ASSUME NEW i \in Ids, OtherDelete(i) PROVE IInv'
  <2>1. /\ UNCHANGED <<reuse, tx, obj, callVars, last>>
        /\ db' = [db EXCEPT ![i] = Absent] /\ cache' = [cache EXCEPT ![i] = Absent]
        /\ list' = IF db[i] = 1 THEN Absent ELSE list
        /\ tx[i] = Absent /\ ~Locked
    BY <1>6, Zenon DEF OtherDelete
  <2>2. /\ doubt' \subseteq doubt \cup {i} /\ doubt \subseteq doubt' \cup {List}
        /\ db[i] # 1 => doubt \subseteq doubt'
    BY <1>6, Zenon DEF OtherDelete
  <2>3. db' \in [Ids -> Vals \cup {Absent}] /\ cache' \in [Ids -> Vals \cup {Absent}]
    BY <1>0, <2>1, Zenon DEF Types
  <2>4. db[i] # 1 => Result(db') = Result(db)
    BY <1>0, <2>1, BatchAssumption DEF Result, Types, Vals
  <2>5. Right(i)' /\ (db[i] = 1 \/ Right(List) => Right(List)')
    BY <1>0, <1>1, <2>1, <2>4, Zenon DEF Right, Types
  <2>6. \A m \in Ids : m # i /\ Right(m) => Right(m)'
    BY <1>0, <1>1, <2>1, Zenon DEF Right, Types
  <2>7. reuse /\ Writing => FALSE
    BY <2>1, Zenon DEF Locked
  <2>8. \A m \in Keys : m \notin doubt' => Right(m)' \/ (m \notin doubt /\ ~Right(m))
    BY <1>1, <2>2, <2>5, <2>6, Zenon
  <2>9. /\ \A m \in Ids : db'[m] # db[m] => tx[m] = Absent /\ (db'[m] = Absent \/ m > last)
        /\ \A m \in Ids : db'[m] # Absent => m <= last'
    BY <1>0, <1>1, <2>1, Zenon DEF Types
  <2>10. doubt' \subseteq Keys /\ last' \in Nat /\ last <= last'
    BY <1>0, <1>1, <2>1, <2>2 DEF Types
  <2> QED
    BY <2>1, <2>3, <2>7, <2>8, <2>9, <2>10, OthersKept
<1>7. ASSUME Registry PROVE IInv'
  BY <1>7, BetweenWrites, Zenon DEF Registry, callVars
<1> QED
  BY <1>1, <1>2, <1>3, <1>4, <1>5, <1>6, <1>7, Zenon DEF Around

\* Every step keeps the invariant.
LEMMA IInvPreserved == IInv /\ [Next]_vars => IInv'
<1> SUFFICES ASSUME IInv, [Next]_vars PROVE IInv'
  BY Zenon
<1>1. CASE \E o \in {"save", "delete"}, b \in Batches : Call(o, b)
  BY <1>1, CallKept, Zenon
<1>2. CASE Before \/ Listen \/ Heard
  <2>1. Types
    BY Zenon DEF IInv
  <2> QED
    BY <1>2, <2>1, BetweenWrites, Zenon DEF Before, Listen, Heard, callVars, Types
<1>3. CASE Write \/ WriteUnread \/ Commit
  BY <1>3, WriteKept, CommitKept, Zenon
<1>4. CASE SetModel \/ SetFails \/ Invalidate
  BY <1>4, SetKept, InvalidateKept, Zenon
<1>5. CASE Veto \/ Missing \/ Fail \/ CommitUnknown \/ Return \/ Crash
  BY <1>5, EndsKept, Zenon
<1>6. CASE Around
  BY <1>6, AroundKept
<1>7. CASE UNCHANGED vars
  BY <1>7, BetweenWrites, Zenon DEF vars, callVars
<1> QED
  BY <1>1, <1>2, <1>3, <1>4, <1>5, <1>6, <1>7, Zenon DEF Next, Step, Faulty

\* The invariant holds always.
LEMMA IInvHolds == Spec => []IInv
BY BatchInit, IInvPreserved, PTL DEF Spec

\* Until a batch commits and once its call has ended, the caches agree with the
\* table but for the keys in doubt, for any batches, ids, calls and faults.
THEOREM BatchesCoherent == Spec => []BatchCoherent
<1>1. IInv => BatchCoherent
  BY Zenon DEF IInv
<1> QED
  BY <1>1, IInvHolds, PTL

\* A commit stores what the last object of each id holds, for any batches.
THEOREM CommitsStoreLast == Spec => CommitStoresLast
<1>1. ASSUME IInv, Commit, op = "save", NEW n \in DOMAIN batch
      PROVE  LET i == obj[batch[n]].id
             IN  \/ \E m \in n + 1 .. Len(batch) : obj[batch[m]].id = i
                 \/ db'[i] = obj[batch[n]].val
                 \/ Seen(i) = Absent
                 \/ i \in unread
  <2>1. /\ pos = Len(batch) + 1 /\ n \in 1 .. pos - 1 /\ Writing
        /\ db' = Applied(db, tx)
    <3>1. pc = "item" /\ pos > Len(batch) /\ db' = Applied(db, tx)
      BY <1>1, Zenon DEF Commit
    <3>2. batch \in Seq(Objects) /\ pos \in Nat /\ pos \in 1 .. Len(batch) + 1
      BY <1>1, <3>1, Zenon DEF IInv, Types
    <3> QED
      BY <1>1, <3>1, <3>2
  <2>2. PICK i \in Ids : obj[batch[n]].id = i /\ Stored(n, i)
    BY <1>1, <2>1, Zenon DEF IInv, StoreInv
  <2>3. db'[i] = Seen(i)
    BY <2>1, Zenon DEF Seen
  <2> QED
    BY <1>1, <2>1, <2>2, <2>3 DEF Stored, IInv, Types
<1>2. IInv /\ [Next]_vars =>
         [Commit /\ op = "save" =>
             \A n \in DOMAIN batch :
                 LET i == obj[batch[n]].id
                 IN  \/ \E m \in n + 1 .. Len(batch) : obj[batch[m]].id = i
                     \/ db'[i] = obj[batch[n]].val
                     \/ Seen(i) = Absent
                     \/ i \in unread]_vars
  BY <1>1
<1> QED
  BY <1>2, IInvHolds, PTL DEF Spec, CommitStoresLast

=============================================================================
