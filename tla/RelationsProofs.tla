-------------------------- MODULE RelationsProofs ---------------------------
(***************************************************************************)
(* The four safety properties of Relations for any owners, items, batches  *)
(* and foreign keys.                                                       *)
(***************************************************************************)
EXTENDS Relations, FiniteSetTheorems, TLAPS

\* The default backend. Steps that need no arithmetic cite Zenon instead.
USE SMTT(60), Z3T(60)

HasManySteps == {"getIDs", "selectIDs", "setIDs", "models"}
ManyToManySteps == {"getJoin", "selectJoin", "setJoin"}

Preload ==
    [pc : {"idle"} \cup HasManySteps \cup ManyToManySteps, batch : AllOrders \cup {<<>>},
     todo : Seq(Owners), ids : [Owners -> SUBSET Items], all : SUBSET Items,
     since : SUBSET Items, cold : BOOLEAN]

\* The preload belongs to the relation.
AtStep(l) ==
    /\ l.pc # "idle" => l.batch \in AllOrders
    /\ l.pc \in HasManySteps => relation = "hasMany"
    /\ l.pc \in ManyToManySteps => relation = "manyToMany"
    /\ l.pc \in {"selectJoin", "setJoin"} => l.todo # <<>>

\* The tables, the entries and the preload.
TypeOK ==
    /\ relation \in {"belongsTo", "hasMany", "manyToMany"}
    /\ fk \in [Items -> Owners \cup {0, Absent}] /\ owners \subseteq Owners
    /\ links \subseteq Owners \X Items
    /\ cache \in [Keys -> (SUBSET Items) \cup {None, NoneResult}]
    /\ missed \in [Keys -> SUBSET Items]
    /\ \A o \in Owners : cache[JoinKey(o)] # NoneResult
    /\ loader \in Preload /\ AtStep(loader)

\* Of the items not in since, ids has all whose foreign key is in a batch.
Holds(ids, s, since) == \A i \in Items \ since : fk[i] \in Elements(s) => i \in ids

\* A list entry, and the list a preload has read, lack only items written since its SELECT.
ListsHold ==
    relation = "hasMany" =>
        /\ \A s \in AllOrders :
             IsIDs(cache[ListKey(s)]) => Holds(cache[ListKey(s)], s, missed[ListKey(s)])
        /\ loader.pc \in {"setIDs", "models"} => Holds(loader.all, loader.batch, loader.since)

\* The owner's join rows have been read.
Joined(o) == o \notin Elements(loader.todo) \/ (loader.pc = "setJoin" /\ o = Head(loader.todo))

\* What a preload that found no entry has read of the join table is what is there, but for
\* the items written since, and is to be loaded.
JoinsHold ==
    loader.pc \in ManyToManySteps /\ loader.cold =>
        \A o \in Elements(loader.batch) : Joined(o) =>
            /\ \A i \in Items \ loader.since : i \in loader.ids[o] <=> <<o, i>> \in links
            /\ loader.ids[o] \subseteq loader.all

RInv ==
    /\ TypeOK /\ ListsHold /\ JoinsHold
    /\ HasManySound /\ HasManyComplete /\ ColdManyToMany /\ BelongsToExact

-----------------------------------------------------------------------------

\* An order of a batch is a sequence of owners.
LEMMA OrderTyped ==
    ASSUME NEW s \in AllOrders
    PROVE  s \in Seq(Owners) /\ Elements(s) \subseteq Owners /\ s # <<>>
<1>1. PICK B \in Batches : s \in Orders(B)
  BY DEF AllOrders
<1>2. B \subseteq Owners /\ B # {} /\ IsFiniteSet(B)
  BY RelationsAssumption, FS_Subset, Zenon
<1>3. Cardinality(B) \in Nat \ {0}
  BY <1>2, FS_CardinalityType, FS_EmptySet
<1>4. s \in [1 .. Cardinality(B) -> B]
  BY <1>1 DEF Orders
<1> QED
  BY <1>2, <1>3, <1>4 DEF Elements

\* The keys of the list entries and of the join entries.
LEMMA KeyTyped ==
    /\ \A s \in AllOrders : ListKey(s) \in Keys /\ ListKey(s).kind = "list"
    /\ \A o \in Owners : JoinKey(o) \in Keys /\ JoinKey(o).kind = "join"
    /\ \A s, t \in AllOrders : ListKey(s) = ListKey(t) => s = t
    /\ \A s \in AllOrders, o \in Owners : ListKey(s) # JoinKey(o)
    /\ \A o, p \in Owners : JoinKey(o) = JoinKey(p) => o = p
<1>1. \A s \in AllOrders : ListKey(s) \in Keys
  BY Zenon DEF Keys, ListKey
<1>2. \A o \in Owners : JoinKey(o) \in Keys
  BY Zenon DEF Keys
<1>3. \A s : ListKey(s).kind = "list" /\ ListKey(s).keys = s
  BY DEF ListKey
<1>4. \A o : JoinKey(o).kind = "join" /\ JoinKey(o).keys = <<o>>
  BY DEF JoinKey
<1>5. \A o, p : <<o>> = <<p>> => o = p
  OBVIOUS
<1>6. "list" # "join"
  OBVIOUS
<1>7. \A s, t \in AllOrders : ListKey(s) = ListKey(t) => s = t
  BY <1>3
<1>8. \A o, p \in Owners : JoinKey(o) = JoinKey(p) => o = p
  <2> SUFFICES ASSUME NEW o \in Owners, NEW p \in Owners, JoinKey(o) = JoinKey(p)
               PROVE  o = p
    OBVIOUS
  <2>1. <<o>> = <<p>>
    BY <1>4, Zenon
  <2> QED
    BY <1>5, <2>1, Zenon
<1>9. \A s \in AllOrders, o \in Owners : ListKey(s) # JoinKey(o)
  BY <1>3, <1>4, <1>6, Zenon
<1> QED
  BY <1>1, <1>2, <1>3, <1>4, <1>7, <1>8, <1>9, Zenon

\* An entry is a set of items or one of the two marks, and no join entry is NoneResult.
LEMMA EntryTyped ==
    ASSUME TypeOK, NEW k \in Keys
    PROVE  /\ IsIDs(cache[k]) => cache[k] \in SUBSET Items
           /\ missed[k] \in SUBSET Items
           /\ \A o \in Owners : k = JoinKey(o) /\ cache[k] # None => cache[k] \in SUBSET Items
<1> DEFINE entry == (SUBSET Items) \cup {None, NoneResult}
<1>1. cache \in [Keys -> entry] /\ missed \in [Keys -> SUBSET Items]
  BY DEF TypeOK
<1>2. \A o \in Owners : cache[JoinKey(o)] # NoneResult
  BY DEF TypeOK
<1> HIDE DEF entry
<1>3. cache[k] \in entry /\ missed[k] \in SUBSET Items
  BY <1>1
<1>4. cache[k] \in SUBSET Items \/ cache[k] = None \/ cache[k] = NoneResult
  BY <1>3, Zenon DEF entry
<1> QED
  BY <1>2, <1>3, <1>4, Zenon DEF IsIDs

\* The first of a preload's remaining owners, and the others.
LEMMA TodoTyped ==
    ASSUME TypeOK, loader.todo # <<>>
    PROVE  /\ Head(loader.todo) \in Owners /\ Tail(loader.todo) \in Seq(Owners)
           /\ Head(loader.todo) \in Elements(loader.todo)
           /\ Elements(loader.todo) \subseteq Elements(Tail(loader.todo)) \cup {Head(loader.todo)}
<1>1. PICK todo \in Seq(Owners) : todo = loader.todo
  BY DEF TypeOK, Preload
<1>2. todo # <<>> /\ Len(todo) \in Nat \ {0} /\ Head(todo) = todo[1] /\ Tail(todo) \in Seq(Owners)
  BY <1>1
<1>3. ASSUME NEW n \in DOMAIN todo
      PROVE  todo[n] \in Elements(Tail(todo)) \cup {Head(todo)}
  <2>1. CASE n = 1
    BY <1>2, <2>1
  <2>2. CASE n # 1
    <3>1. n - 1 \in DOMAIN Tail(todo) /\ Tail(todo)[n - 1] = todo[n]
      BY <1>2, <2>2
    <3> QED
      BY <3>1 DEF Elements
  <2> QED
    BY <2>1, <2>2
<1>4. Head(todo) \in Owners /\ Head(todo) \in Elements(todo)
  BY <1>2 DEF Elements
<1> QED
  BY <1>1, <1>2, <1>3, <1>4 DEF Elements

\* A step that leaves the tables and gives the preload and the entries their types.
LEMMA StepType ==
    ASSUME TypeOK, NEW l \in Preload, loader' = l, AtStep(l),
           UNCHANGED <<relation, fk, owners, links>>,
           cache' \in [Keys -> (SUBSET Items) \cup {None, NoneResult}],
           missed' \in [Keys -> SUBSET Items],
           \A o \in Owners : cache'[JoinKey(o)] # NoneResult
    PROVE  TypeOK'
<1>1. AtStep(loader)'
  BY DEF AtStep
<1> QED
  BY <1>1 DEF TypeOK

\* No preload is under way.
LEMMA IdleTyped == Idle \in Preload /\ Idle.pc = "idle" /\ AtStep(Idle)
BY DEF Idle, Preload, AtStep, HasManySteps, ManyToManySteps

\* A step that changes the preload only.
LEMMA ContinueType ==
    ASSUME TypeOK, NEW l \in Preload, loader' = l, AtStep(l),
           UNCHANGED <<relation, fk, owners, links, cache, missed>>
    PROVE  TypeOK'
<1>1. /\ cache' \in [Keys -> (SUBSET Items) \cup {None, NoneResult}]
      /\ missed' \in [Keys -> SUBSET Items]
      /\ \A o \in Owners : cache'[JoinKey(o)] # NoneResult
  BY DEF TypeOK
<1> QED
  BY <1>1, StepType

\* The preload begins.
LEMMA BeginType ==
    ASSUME TypeOK, preloadHasMany \/ preloadManyToMany
    PROVE  TypeOK'
<1>1. PICK s \in AllOrders :
        /\ \/ relation = "hasMany" /\ loader' = [Idle EXCEPT !.pc = "getIDs", !.batch = s]
           \/ relation = "manyToMany" /\ loader' = [Idle EXCEPT !.pc = "getJoin", !.batch = s, !.todo = s]
        /\ UNCHANGED <<relation, fk, owners, links, cache, missed>>
  BY Zenon DEF preloadHasMany, preloadManyToMany, Continue
<1>2. s \in Seq(Owners)
  BY OrderTyped
<1>3. loader' \in Preload
  BY <1>1, <1>2, IdleTyped, ZenonT(60) DEF Preload, HasManySteps, ManyToManySteps
<1>4. AtStep(loader')
  <2>1. /\ loader'.batch = s
        /\ \/ relation = "hasMany" /\ loader'.pc = "getIDs"
           \/ relation = "manyToMany" /\ loader'.pc = "getJoin"
    BY <1>1, Zenon DEF Idle
  <2> QED
    BY <2>1 DEF AtStep, HasManySteps, ManyToManySteps
<1> QED
  BY <1>1, <1>3, <1>4, ContinueType

\* The steps of hasMany.
LEMMA HasManyType ==
    ASSUME TypeOK, GetQueryIDs \/ SelectIDs \/ SetQueryIDs
    PROVE  TypeOK'
<1>0. loader \in Preload /\ AtStep(loader)
  BY DEF TypeOK
<1>1. CASE GetQueryIDs
  <2>1. /\ loader.pc = "getIDs" /\ UNCHANGED <<relation, fk, owners, links, cache, missed>>
        /\ \/ /\ IsIDs(cache[ListKey(loader.batch)])
              /\ loader' = [loader EXCEPT !.pc = "models", !.all = cache[ListKey(loader.batch)],
                                          !.since = missed[ListKey(loader.batch)]]
           \/ loader' = [loader EXCEPT !.pc = "selectIDs"]
    BY <1>1, Zenon DEF GetQueryIDs, Continue
  <2>2. ListKey(loader.batch) \in Keys
    BY <1>0, <2>1, KeyTyped DEF AtStep
  <2>3. missed[ListKey(loader.batch)] \in SUBSET Items
    BY <2>2 DEF TypeOK
  <2>4. IsIDs(cache[ListKey(loader.batch)]) => cache[ListKey(loader.batch)] \in SUBSET Items
    BY <2>2, EntryTyped
  <2>5. loader' \in Preload
    BY <1>0, <2>1, <2>3, <2>4, ZenonT(60) DEF Preload, HasManySteps
  <2>6. AtStep(loader')
    BY <1>0, <2>1, Zenon DEF AtStep, Preload, HasManySteps, ManyToManySteps
  <2> QED
    BY <2>1, <2>5, <2>6, ContinueType
<1>2. CASE SelectIDs
  <2>1. PICK all \in SUBSET Items :
        /\ loader.pc = "selectIDs" /\ UNCHANGED <<relation, fk, owners, links, cache, missed>>
        /\ loader' = [loader EXCEPT !.pc = "setIDs", !.all = all] \/ loader' = Idle
    BY <1>2, Zenon DEF SelectIDs, Continue, Abort
  <2>2. loader' \in Preload
    BY <1>0, <2>1, IdleTyped, ZenonT(60) DEF Preload, HasManySteps
  <2>3. AtStep(loader')
    BY <1>0, <2>1, IdleTyped, Zenon DEF AtStep, Preload, HasManySteps, ManyToManySteps
  <2> QED
    BY <2>1, <2>2, <2>3, ContinueType
<1>3. CASE SetQueryIDs
  <2> DEFINE key == ListKey(loader.batch)
  <2>1. /\ loader.pc = "setIDs" /\ UNCHANGED <<relation, fk, owners, links>>
        /\ loader' = [loader EXCEPT !.pc = "models"]
    BY <1>3 DEF SetQueryIDs
  <2>2. /\ cache' \in {cache, [cache EXCEPT ![key] = NoneResult], [cache EXCEPT ![key] = loader.all]}
        /\ missed' \in {missed, [missed EXCEPT ![key] = {}], [missed EXCEPT ![key] = loader.since]}
    BY <1>3 DEF SetQueryIDs
  <2>3. /\ key \in Keys /\ \A o \in Owners : key # JoinKey(o) /\ JoinKey(o) \in Keys
        /\ loader.all \in SUBSET Items /\ loader.since \in SUBSET Items
    BY <1>0, <2>1, KeyTyped DEF AtStep, Preload
  <2>4. loader' \in Preload
    BY <1>0, <2>1 DEF Preload, HasManySteps
  <2>5. AtStep(loader')
    BY <1>0, <2>1 DEF AtStep, Preload, HasManySteps, ManyToManySteps
  <2> HIDE DEF key
  <2>6. /\ cache' \in [Keys -> (SUBSET Items) \cup {None, NoneResult}]
        /\ missed' \in [Keys -> SUBSET Items]
        /\ \A o \in Owners : cache'[JoinKey(o)] # NoneResult
    <3> DEFINE entry == (SUBSET Items) \cup {None, NoneResult}
    <3>1. cache \in [Keys -> entry] /\ loader.all \in entry /\ NoneResult \in entry
      BY <2>3 DEF TypeOK
    <3>2. \A o \in Owners : cache[JoinKey(o)] # NoneResult
      BY DEF TypeOK
    <3> HIDE DEF entry
    <3>3. cache' \in [Keys -> entry] /\ \A o \in Owners : cache'[JoinKey(o)] # NoneResult
      BY <2>2, <2>3, <3>1, <3>2
    <3>4. missed' \in [Keys -> SUBSET Items]
      BY <2>2, <2>3 DEF TypeOK
    <3> QED
      BY <3>3, <3>4 DEF entry
  <2> QED
    BY <2>1, <2>4, <2>5, <2>6, StepType
<1> QED
  BY <1>1, <1>2, <1>3

\* The steps of manyToMany.
LEMMA ManyToManyType ==
    ASSUME TypeOK, GetJoin \/ SelectJoin \/ SetJoin
    PROVE  TypeOK'
<1> DEFINE o == Head(loader.todo)
<1>0. /\ loader \in Preload /\ AtStep(loader) /\ loader.todo # <<>>
      /\ loader.pc \in ManyToManySteps /\ loader.batch \in AllOrders /\ relation = "manyToMany"
  BY DEF TypeOK, AtStep, GetJoin, SelectJoin, SetJoin, ManyToManySteps
<1>1. o \in Owners /\ Tail(loader.todo) \in Seq(Owners) /\ JoinKey(o) \in Keys
  BY <1>0, TodoTyped, KeyTyped
<1>5. cache[JoinKey(o)] # None => cache[JoinKey(o)] \in SUBSET Items
  BY <1>1, EntryTyped
<1>2. CASE GetJoin
  <2>1. /\ UNCHANGED <<relation, fk, owners, links, cache, missed>>
        /\ \/ /\ cache[JoinKey(o)] # None
              /\ loader' = [loader EXCEPT !.ids[o] = cache[JoinKey(o)], !.todo = Tail(@), !.cold = FALSE]
           \/ loader' = [loader EXCEPT !.pc = "selectJoin"]
    BY <1>2, Zenon DEF GetJoin, Continue
  <2> HIDE DEF o
  <2>4. ASSUME NEW v \in SUBSET Items
        PROVE  [loader EXCEPT !.ids[o] = v, !.todo = Tail(@), !.cold = FALSE] \in Preload
    <3>1. PICK ids \in [Owners -> SUBSET Items] : ids = [loader.ids EXCEPT ![o] = v]
      BY <1>0, <1>1, <2>4, Zenon DEF Preload
    <3>2. [loader EXCEPT !.ids = ids, !.todo = Tail(loader.todo), !.cold = FALSE] \in Preload
      BY <1>0, <1>1, Zenon DEF Preload
    <3> QED
      BY <3>1, <3>2
  <2>2. loader' \in Preload
    <3>1. [loader EXCEPT !.pc = "selectJoin"] \in Preload
      BY <1>0 DEF Preload, ManyToManySteps
    <3> QED
      BY <1>5, <2>1, <2>4, <3>1, Zenon
  <2>3. AtStep(loader')
    BY <1>0, <1>2, <2>1, Zenon DEF AtStep, Preload, HasManySteps, ManyToManySteps, GetJoin
  <2> QED
    BY <2>1, <2>2, <2>3, ContinueType
<1>3. CASE SelectJoin
  <2>1. PICK linked \in SUBSET Items :
        /\ UNCHANGED <<relation, fk, owners, links, cache, missed>>
        /\ \/ loader' = [loader EXCEPT !.pc = "setJoin", !.ids[o] = linked, !.all = @ \cup linked]
           \/ loader' = Idle
    BY <1>3, Zenon DEF SelectJoin, Continue, Abort
  <2> HIDE DEF o
  <2>2. loader' \in Preload
    <3>1. PICK ids \in [Owners -> SUBSET Items] : ids = [loader.ids EXCEPT ![o] = linked]
      BY <1>0, <1>1, Zenon DEF Preload
    <3>2. [loader EXCEPT !.pc = "setJoin", !.ids = ids, !.all = loader.all \cup linked] \in Preload
      BY <1>0, <2>1, Zenon DEF Preload, ManyToManySteps
    <3> QED
      BY <2>1, <3>1, <3>2, IdleTyped
  <2>3. AtStep(loader')
    BY <1>0, <2>1, IdleTyped, ZenonT(60) DEF AtStep, Preload, HasManySteps, ManyToManySteps
  <2> QED
    BY <2>1, <2>2, <2>3, ContinueType
<1>4. CASE SetJoin
  <2>1. /\ UNCHANGED <<relation, fk, owners, links, missed>>
        /\ cache' \in {cache, [cache EXCEPT ![JoinKey(o)] = loader.ids[o]]}
        /\ loader' = [loader EXCEPT !.pc = "getJoin", !.todo = Tail(@)]
    BY <1>4 DEF SetJoin
  <2> HIDE DEF o
  <2>2. loader' \in Preload /\ loader.ids[o] \in SUBSET Items
    BY <1>0, <1>1, <2>1, Zenon DEF Preload, ManyToManySteps
  <2>3. AtStep(loader')
    BY <1>0, <2>1 DEF AtStep, Preload, HasManySteps, ManyToManySteps
  <2>4. /\ cache' \in [Keys -> (SUBSET Items) \cup {None, NoneResult}]
        /\ missed' \in [Keys -> SUBSET Items]
        /\ \A p \in Owners : cache'[JoinKey(p)] # NoneResult
    BY <1>1, <2>1, <2>2, KeyTyped, RelationsAssumption, ZenonT(60) DEF TypeOK
  <2> QED
    BY <2>1, <2>2, <2>3, <2>4, StepType
<1> QED
  BY <1>2, <1>3, <1>4

\* A preload that returns.
LEMMA ReturnType ==
    ASSUME TypeOK, LoadModels \/ LoadLinked \/ preloadBelongsTo
    PROVE  TypeOK'
<1>1. loader' = Idle /\ UNCHANGED <<relation, fk, owners, links, cache, missed>>
  BY Zenon DEF LoadModels, LoadLinked, preloadBelongsTo, Return
<1> QED
  BY <1>1, IdleTyped, ContinueType

\* A write of a row or a link of an item.
LEMMA TouchType ==
    ASSUME TypeOK, NEW i \in Items, Touch(i), fk' \in [Items -> Owners \cup {0, Absent}],
           links' \subseteq Owners \X Items
    PROVE  TypeOK'
<1>0. loader \in Preload /\ AtStep(loader)
  BY DEF TypeOK
<1>1. loader' = loader \/ loader' = [loader EXCEPT !.since = @ \cup {i}]
  BY DEF Touch
<1>2. loader' \in Preload
  BY <1>0, <1>1 DEF Preload
<1>3. UNCHANGED <<relation, owners, cache>> /\ missed' \in [Keys -> SUBSET Items]
  BY DEF Touch, TypeOK
<1>4. AtStep(loader)'
  BY <1>0, <1>1, <1>3 DEF AtStep, Preload
<1> QED
  BY <1>2, <1>3, <1>4 DEF TypeOK

-----------------------------------------------------------------------------
(* The lists of hasMany.                                                   *)

\* A step that leaves the tables, the entries and the list read keeps the lists.
LEMMA ListsLeft ==
    ASSUME ListsHold, UNCHANGED <<relation, fk, cache, missed>>,
           loader'.pc \in {"setIDs", "models"} => Holds(loader'.all, loader'.batch, loader'.since)
    PROVE  ListsHold'
BY DEF ListsHold, Holds

\* The entry of the batch is taken over with the items it has missed.
LEMMA GetQueryIDsLists ==
    ASSUME TypeOK, ListsHold, GetQueryIDs
    PROVE  ListsHold'
<1> DEFINE key == ListKey(loader.batch)
<1>1. /\ loader.pc = "getIDs" /\ UNCHANGED <<relation, fk, cache, missed>>
      /\ \/ /\ IsIDs(cache[key])
            /\ loader' = [loader EXCEPT !.pc = "models", !.all = cache[key], !.since = missed[key]]
         \/ loader' = [loader EXCEPT !.pc = "selectIDs"]
  BY Zenon DEF GetQueryIDs, Continue
<1>2. loader \in Preload /\ loader.batch \in AllOrders /\ relation = "hasMany"
  BY <1>1 DEF TypeOK, AtStep, HasManySteps
<1>3. IsIDs(cache[key]) => Holds(cache[key], loader.batch, missed[key])
  BY <1>2 DEF ListsHold
<1> HIDE DEF key
<1>4. loader'.pc \in {"setIDs", "models"} => Holds(loader'.all, loader'.batch, loader'.since)
  BY <1>1, <1>2, <1>3, Zenon DEF Preload
<1> QED
  BY <1>1, <1>4, ListsLeft

\* The SELECT reads every item of the batch.
LEMMA SelectIDsLists ==
    ASSUME TypeOK, ListsHold, SelectIDs
    PROVE  ListsHold'
<1> DEFINE all == {i \in Items : fk[i] \in Elements(loader.batch)}
<1>1. /\ UNCHANGED <<relation, fk, cache, missed>> /\ loader \in Preload
      /\ loader' = [loader EXCEPT !.pc = "setIDs", !.all = all] \/ loader' = Idle
  BY DEF SelectIDs, Continue, Abort, TypeOK
<1>2. \A since : Holds(all, loader.batch, since)
  BY DEF Holds
<1> HIDE DEF all
<1>3. loader'.pc \in {"setIDs", "models"} => Holds(loader'.all, loader'.batch, loader'.since)
  <2>1. CASE loader' = [loader EXCEPT !.pc = "setIDs", !.all = all]
    BY <1>1, <1>2, <2>1, Zenon DEF Preload
  <2>2. CASE loader' = Idle
    BY <2>2, Zenon DEF Idle
  <2> QED
    BY <1>1, <2>1, <2>2, Zenon
<1> QED
  BY <1>1, <1>3, ListsLeft

\* The entry is stored under the key of the batch, with what it has missed so far.
LEMMA SetQueryIDsLists ==
    ASSUME TypeOK, ListsHold, SetQueryIDs
    PROVE  ListsHold'
<1> DEFINE key == ListKey(loader.batch)
<1>1. /\ loader.pc = "setIDs" /\ UNCHANGED <<relation, fk>>
      /\ loader' = [loader EXCEPT !.pc = "models"]
  BY DEF SetQueryIDs
<1>2. \/ UNCHANGED <<cache, missed>>
      \/ cache' = [cache EXCEPT ![key] = NoneResult]  /\ missed' = [missed EXCEPT ![key] = {}]
      \/ cache' = [cache EXCEPT ![key] = loader.all] /\ missed' = [missed EXCEPT ![key] = loader.since]
  BY DEF SetQueryIDs
<1>3. /\ loader \in Preload /\ loader.batch \in AllOrders /\ relation = "hasMany"
      /\ cache = [k \in Keys |-> cache[k]] /\ missed = [k \in Keys |-> missed[k]]
  BY <1>1 DEF TypeOK, AtStep, HasManySteps
<1>4. Holds(loader.all, loader.batch, loader.since)
  BY <1>1, <1>3 DEF ListsHold
<1>5. ASSUME NEW s \in AllOrders, IsIDs(cache'[ListKey(s)])
      PROVE  Holds(cache'[ListKey(s)], s, missed'[ListKey(s)])
  <2>1. ListKey(s) \in Keys /\ key \in Keys /\ (ListKey(s) = key => s = loader.batch)
    BY <1>3, KeyTyped
  <2>2. IsIDs(cache[ListKey(s)]) => Holds(cache[ListKey(s)], s, missed[ListKey(s)])
    BY <1>3 DEF ListsHold
  <2>3. ~IsIDs(NoneResult)
    BY DEF IsIDs
  <2> HIDE DEF key
  <2>4. CASE UNCHANGED <<cache, missed>> \/ ListKey(s) # key
    <3>1. cache'[ListKey(s)] = cache[ListKey(s)] /\ missed'[ListKey(s)] = missed[ListKey(s)]
      BY <1>2, <1>3, <2>1, <2>4
    <3> QED
      BY <1>5, <2>2, <3>1
  <2>5. CASE ~UNCHANGED <<cache, missed>> /\ ListKey(s) = key
    <3>1. cache'[key] = NoneResult \/ (cache'[key] = loader.all /\ missed'[key] = loader.since)
      BY <1>2, <1>3, <2>1, <2>5
    <3> QED
      BY <1>4, <1>5, <2>1, <2>3, <2>5, <3>1
  <2> QED
    BY <2>4, <2>5
<1>6. Holds(loader'.all, loader'.batch, loader'.since)
  BY <1>1, <1>3, <1>4 DEF Preload
<1> QED
  BY <1>1, <1>5, <1>6 DEF ListsHold, Holds

\* An entry that expires.
LEMMA ExpireLists ==
    ASSUME TypeOK, ListsHold, NEW k \in Keys, Expire(k)
    PROVE  ListsHold'
<1>1. /\ cache' = [cache EXCEPT ![k] = None] /\ missed' = [missed EXCEPT ![k] = {}]
      /\ UNCHANGED <<relation, fk, loader>>
      /\ cache = [j \in Keys |-> cache[j]] /\ missed = [j \in Keys |-> missed[j]]
  BY DEF Expire, TypeOK
<1>2. ~IsIDs(None)
  BY DEF IsIDs
<1>3. ASSUME NEW s \in AllOrders, IsIDs(cache'[ListKey(s)])
      PROVE  cache'[ListKey(s)] = cache[ListKey(s)] /\ missed'[ListKey(s)] = missed[ListKey(s)]
  BY <1>1, <1>2, <1>3, KeyTyped, Zenon
<1> QED
  BY <1>1, <1>3, Zenon DEF ListsHold, Holds

\* A write changes one item, which the entries and the list read then have missed.
LEMMA TouchLists ==
    ASSUME TypeOK, ListsHold, NEW i \in Items, Touch(i),
           \A j \in Items \ {i} : fk'[j] = fk[j]
    PROVE  ListsHold'
<1>1. /\ UNCHANGED <<relation, cache>>
      /\ missed' = [k \in Keys |->
            IF k.kind = "list" /\ IsIDs(cache[k]) THEN missed[k] \cup {i} ELSE {}]
      /\ loader' = IF NothingRead THEN loader ELSE [loader EXCEPT !.since = @ \cup {i}]
  BY DEF Touch
<1>2. ASSUME NEW ids, NEW s, NEW since, Holds(ids, s, since)
      PROVE  \A j \in Items \ (since \cup {i}) : fk'[j] \in Elements(s) => j \in ids
  BY <1>2 DEF Holds
<1>3. ASSUME relation = "hasMany", NEW s \in AllOrders, IsIDs(cache[ListKey(s)])
      PROVE  \A j \in Items \ missed'[ListKey(s)] : fk'[j] \in Elements(s) => j \in cache[ListKey(s)]
  <2>1. missed'[ListKey(s)] = missed[ListKey(s)] \cup {i}
    BY <1>1, <1>3, KeyTyped
  <2>2. Holds(cache[ListKey(s)], s, missed[ListKey(s)])
    BY <1>3 DEF ListsHold
  <2> QED
    BY <1>2, <2>1, <2>2
<1>4. ASSUME relation = "hasMany", loader'.pc \in {"setIDs", "models"}
      PROVE  \A j \in Items \ loader'.since : fk'[j] \in Elements(loader'.batch) => j \in loader'.all
  <2>1. /\ loader.pc \in {"setIDs", "models"} /\ loader'.all = loader.all
        /\ loader'.batch = loader.batch /\ loader'.since = loader.since \cup {i}
    BY <1>1, <1>4 DEF TypeOK, Preload, NothingRead
  <2>2. Holds(loader.all, loader.batch, loader.since)
    BY <1>4, <2>1 DEF ListsHold
  <2> QED
    BY <1>2, <2>1, <2>2
<1> QED
  BY <1>1, <1>3, <1>4 DEF ListsHold, Holds

-----------------------------------------------------------------------------
(* The join rows of manyToMany.                                            *)

\* What is read for an owner agrees with the join table.
Agrees(l, o) ==
    /\ \A i \in Items \ l.since : i \in l.ids[o] <=> <<o, i>> \in links
    /\ l.ids[o] \subseteq l.all

\* A preload of another relation, or none.
LEMMA JoinsNone ==
    ASSUME loader'.pc \notin ManyToManySteps
    PROVE  JoinsHold'
BY DEF JoinsHold

\* The preload has read nothing yet.
LEMMA BeginJoins ==
    ASSUME TypeOK, preloadHasMany \/ preloadManyToMany
    PROVE  JoinsHold'
<1>1. PICK s \in AllOrders :
        \/ loader' = [Idle EXCEPT !.pc = "getIDs", !.batch = s]
        \/ loader' = [Idle EXCEPT !.pc = "getJoin", !.batch = s, !.todo = s]
  BY Zenon DEF preloadHasMany, preloadManyToMany, Continue
<1>2. loader'.pc \in ManyToManySteps => loader'.todo = loader'.batch /\ loader'.pc # "setJoin"
  BY <1>1, IdleTyped, ZenonT(60) DEF Preload, ManyToManySteps
<1> QED
  BY <1>2 DEF JoinsHold, Joined

\* An entry is used, and the preload is no longer cold, or the join table is read next.
LEMMA GetJoinJoins ==
    ASSUME TypeOK, JoinsHold, GetJoin
    PROVE  JoinsHold'
<1> DEFINE o == Head(loader.todo)
<1>1. /\ UNCHANGED links /\ loader.pc = "getJoin" /\ loader \in Preload
      /\ \/ loader' = [loader EXCEPT !.ids[o] = cache[JoinKey(o)], !.todo = Tail(@), !.cold = FALSE]
         \/ loader' = [loader EXCEPT !.pc = "selectJoin"]
  BY Zenon DEF GetJoin, Continue, TypeOK
<1> HIDE DEF o
<1>2. CASE loader' = [loader EXCEPT !.ids[o] = cache[JoinKey(o)], !.todo = Tail(@), !.cold = FALSE]
  <2>1. loader'.cold = FALSE
    BY <1>1, <1>2 DEF Preload
  <2> QED
    BY <2>1 DEF JoinsHold
<1>3. CASE loader' = [loader EXCEPT !.pc = "selectJoin"]
  <2>1. /\ loader'.pc = "selectJoin" /\ loader'.cold = loader.cold /\ loader'.batch = loader.batch
        /\ loader'.todo = loader.todo /\ loader'.ids = loader.ids /\ loader'.since = loader.since
        /\ loader'.all = loader.all
    BY <1>1, <1>3 DEF Preload
  <2> QED
    BY <1>1, <2>1 DEF JoinsHold, Joined, ManyToManySteps
<1> QED
  BY <1>1, <1>2, <1>3

\* The join rows of the next owner are read, and added to those to be loaded.
LEMMA SelectJoinJoins ==
    ASSUME TypeOK, JoinsHold, SelectJoin
    PROVE  JoinsHold'
<1> DEFINE o == Head(loader.todo)
           linked == {i \in Items : <<o, i>> \in links}
<1>1. /\ UNCHANGED links /\ loader.pc = "selectJoin" /\ loader \in Preload /\ loader.todo # <<>>
      /\ \/ loader' = [loader EXCEPT !.pc = "setJoin", !.ids[o] = linked, !.all = @ \cup linked]
         \/ loader' = Idle
  BY DEF SelectJoin, Continue, Abort, TypeOK, AtStep
<1>2. o \in Owners /\ o \in Elements(loader.todo)
  BY <1>1, TodoTyped
<1>3. CASE loader' = Idle
  BY <1>3, IdleTyped, JoinsNone DEF ManyToManySteps
<1>4. CASE loader' = [loader EXCEPT !.pc = "setJoin", !.ids[o] = linked, !.all = @ \cup linked]
  <2>1. \A i \in Items : i \in linked <=> <<o, i>> \in links
    OBVIOUS
  <2> HIDE DEF linked
  <2>2. /\ loader'.pc = "setJoin" /\ loader'.cold = loader.cold /\ loader'.batch = loader.batch
        /\ loader'.todo = loader.todo /\ loader'.ids = [loader.ids EXCEPT ![o] = linked]
        /\ loader'.since = loader.since /\ loader'.all = loader.all \cup linked
    BY <1>1, <1>4 DEF Preload
  <2>3. loader'.ids[o] = linked /\ \A p \in Owners \ {o} : loader'.ids[p] = loader.ids[p]
    BY <1>1, <1>2, <2>2 DEF Preload
  <2>4. \A p \in Elements(loader.batch) : p \in Owners
    BY <1>1, OrderTyped DEF TypeOK, AtStep
  <2>5. ASSUME loader.cold, NEW p \in Elements(loader.batch), p # o, Joined(p)'
        PROVE  Agrees(loader, p)
    <3>1. Joined(p)
      BY <2>2, <2>5 DEF Joined, o
    <3> QED
      BY <1>1, <2>5, <3>1 DEF JoinsHold, ManyToManySteps, Agrees
  <2>6. ASSUME loader.cold, NEW p \in Elements(loader.batch), Joined(p)'
        PROVE  Agrees(loader', p)
    <3>1. CASE p = o
      BY <2>1, <2>2, <2>3, <3>1 DEF Agrees
    <3>2. CASE p # o
      BY <2>2, <2>3, <2>4, <2>5, <2>6, <3>2 DEF Agrees
    <3> QED
      BY <3>1, <3>2
  <2> QED
    BY <1>1, <2>2, <2>6 DEF JoinsHold, Agrees
<1> QED
  BY <1>1, <1>3, <1>4

\* The preload goes on to the next owner.
LEMMA SetJoinJoins ==
    ASSUME TypeOK, JoinsHold, SetJoin
    PROVE  JoinsHold'
<1>1. /\ UNCHANGED links /\ loader.pc = "setJoin" /\ loader \in Preload /\ loader.todo # <<>>
      /\ loader' = [loader EXCEPT !.pc = "getJoin", !.todo = Tail(@)]
  BY DEF SetJoin, TypeOK, AtStep
<1>2. /\ loader'.pc = "getJoin" /\ loader'.cold = loader.cold /\ loader'.batch = loader.batch
      /\ loader'.todo = Tail(loader.todo) /\ loader'.ids = loader.ids
      /\ loader'.since = loader.since /\ loader'.all = loader.all
  BY <1>1 DEF Preload
<1>3. \A p : Joined(p)' => Joined(p)
  BY <1>1, <1>2, TodoTyped DEF Joined
<1> QED
  BY <1>1, <1>2, <1>3 DEF JoinsHold, ManyToManySteps

\* A write changes the links of one item, which is then among those written since.
LEMMA TouchJoins ==
    ASSUME TypeOK, JoinsHold, NEW i \in Items, Touch(i),
           \A o \in Owners, j \in Items \ {i} : <<o, j>> \in links' <=> <<o, j>> \in links
    PROVE  JoinsHold'
<1>1. /\ loader' = IF NothingRead THEN loader ELSE [loader EXCEPT !.since = @ \cup {i}]
      /\ loader \in Preload
  BY DEF Touch, TypeOK
<1>2. CASE NothingRead
  <2>1. loader' = loader
    BY <1>1, <1>2
  <2> QED
    BY <1>2, <2>1 DEF NothingRead, JoinsHold, Joined, ManyToManySteps
<1>3. CASE ~NothingRead
  <2>1. /\ loader'.pc = loader.pc /\ loader'.cold = loader.cold /\ loader'.batch = loader.batch
        /\ loader'.todo = loader.todo /\ loader'.ids = loader.ids
        /\ loader'.since = loader.since \cup {i} /\ loader'.all = loader.all
    BY <1>1, <1>3 DEF Preload
  <2>2. loader.pc \in ManyToManySteps => \A o \in Elements(loader.batch) : o \in Owners
    BY OrderTyped DEF TypeOK, AtStep, ManyToManySteps
  <2>3. ASSUME loader.pc \in ManyToManySteps, loader.cold, NEW o \in Elements(loader.batch), Joined(o)
        PROVE  /\ \A j \in Items \ (loader.since \cup {i}) : j \in loader.ids[o] <=> <<o, j>> \in links'
               /\ loader.ids[o] \subseteq loader.all
    BY <2>2, <2>3 DEF JoinsHold
  <2>4. \A o : Joined(o)' <=> Joined(o)
    BY <2>1 DEF Joined
  <2> QED
    BY <2>1, <2>3, <2>4 DEF JoinsHold
<1> QED
  BY <1>2, <1>3

-----------------------------------------------------------------------------
(* What a preload returns.                                                 *)

Results == HasManySound /\ HasManyComplete /\ ColdManyToMany /\ BelongsToExact

\* A step that is no return forgets the result or leaves what it is compared with.
LEMMA ResultsLeft ==
    ASSUME Results, result' = NoResult \/ UNCHANGED <<relation, fk, owners, links, result>>
    PROVE  Results'
<1>1. CASE result' = NoResult
  <2>1. result'.of = None
    BY <1>1 DEF NoResult
  <2> QED
    BY <2>1 DEF Results, HasManySound, HasManyComplete, ColdManyToMany, BelongsToExact, Returned
<1>2. CASE UNCHANGED <<relation, fk, owners, links, result>>
  BY <1>2 DEF Results, HasManySound, HasManyComplete, ColdManyToMany, BelongsToExact, Returned, Linked
<1> QED
  BY <1>1, <1>2

\* hasMany: the models found, by their foreign key.
LEMMA LoadModelsResults ==
    ASSUME TypeOK, ListsHold, LoadModels
    PROVE  Results'
<1>1. PICK found \in SUBSET Existing(loader.all) :
        Return(Grouped(found), found = Existing(loader.all))
  BY DEF LoadModels
<1>2. /\ relation = "hasMany" /\ UNCHANGED <<relation, fk, owners, links>>
      /\ Holds(loader.all, loader.batch, loader.since) /\ Elements(loader.batch) \subseteq Owners
  BY <1>1, OrderTyped DEF LoadModels, Return, TypeOK, AtStep, HasManySteps, ListsHold
<1>3. /\ result'.of = Grouped(found) /\ result'.since = loader.since
      /\ result'.whole = (found = Existing(loader.all))
  BY <1>1 DEF Return
<1>4. /\ DOMAIN Grouped(found) = Elements(loader.batch)
      /\ \A o \in Elements(loader.batch) : Grouped(found)[o] = {i \in found : fk[i] = o}
  BY DEF Grouped
<1>5. HasManySound'
  BY <1>2, <1>3, <1>4 DEF HasManySound
<1>6. HasManyComplete'
  <2> SUFFICES ASSUME result'.whole, NEW o \in Elements(loader.batch), NEW i \in Items \ loader.since,
                      fk[i] = o
               PROVE  i \in result'.of[o]
    BY <1>2, <1>3, <1>4 DEF HasManyComplete
  <2>1. i \in loader.all
    BY <1>2 DEF Holds
  <2>2. fk[i] # Absent
    BY <1>2, RelationsAssumption
  <2>3. found = Existing(loader.all)
    BY <1>3, Zenon
  <2> QED
    BY <1>3, <1>4, <2>1, <2>2, <2>3 DEF Existing
<1>7. ColdManyToMany' /\ BelongsToExact'
  BY <1>2 DEF ColdManyToMany, BelongsToExact, Returned
<1> QED
  BY <1>5, <1>6, <1>7 DEF Results

\* manyToMany: each owner's IDs whose models were found.
LEMMA LoadLinkedResults ==
    ASSUME TypeOK, JoinsHold, LoadLinked
    PROVE  Results'
<1>1. PICK found \in SUBSET Existing(loader.all) :
        Return([o \in Elements(loader.batch) |-> loader.ids[o] \cap found],
               found = Existing(loader.all))
  BY Zenon DEF LoadLinked
<1>2. relation = "manyToMany" /\ UNCHANGED <<relation, fk, owners, links>>
  BY <1>1 DEF LoadLinked, Return, TypeOK, AtStep, ManyToManySteps
<1>3. /\ result'.of = [o \in Elements(loader.batch) |-> loader.ids[o] \cap found]
      /\ result'.since = loader.since /\ result'.cold = loader.cold
      /\ result'.whole = (found = Existing(loader.all))
  BY <1>1 DEF Return
<1>4. ColdManyToMany'
  <2>1. ASSUME found = Existing(loader.all), loader.cold, NEW o \in Elements(loader.batch)
        PROVE  (loader.ids[o] \cap found) \ loader.since = Linked(o) \ loader.since
    <3>1. loader.pc = "getJoin" /\ loader.todo = <<>>
      BY DEF LoadLinked
    <3>2. Elements(<<>>) = {}
      BY DEF Elements
    <3>3. Joined(o)
      BY <3>1, <3>2 DEF Joined
    <3>4. /\ \A i \in Items \ loader.since : i \in loader.ids[o] <=> <<o, i>> \in links
          /\ loader.ids[o] \subseteq loader.all /\ loader.all \subseteq Items
      BY <2>1, <3>1, <3>3 DEF JoinsHold, ManyToManySteps, TypeOK, Preload
    <3> QED
      BY <2>1, <3>4 DEF Existing, Linked
  <2>2. /\ DOMAIN result'.of = Elements(loader.batch)
        /\ \A o \in Elements(loader.batch) : result'.of[o] = loader.ids[o] \cap found
    BY <1>3
  <2>3. \A o : Linked(o)' = Linked(o)
    BY <1>2 DEF Linked
  <2> QED
    BY <1>3, <2>1, <2>2, <2>3, Zenon DEF ColdManyToMany
<1>5. HasManySound' /\ HasManyComplete' /\ BelongsToExact'
  BY <1>2 DEF HasManySound, HasManyComplete, BelongsToExact, Returned
<1> QED
  BY <1>4, <1>5 DEF Results

\* belongsTo: the owner of each model's copy, if it was found.
LEMMA BelongsToResults ==
    ASSUME TypeOK, preloadBelongsTo
    PROVE  Results'
<1>1a. PICK models \in (SUBSET Items) \ {{}} : \E copies \in [models -> Owners \cup {0}] :
         \E found \in SUBSET (fkValues(copies) \cap owners) :
           Return([i \in models |->
                     [fk |-> copies[i], owner |-> IF copies[i] \in found THEN copies[i] ELSE None]],
                  found = fkValues(copies) \cap owners)
  BY Zenon DEF preloadBelongsTo
<1>1b. PICK copies \in [models -> Owners \cup {0}] : \E found \in SUBSET (fkValues(copies) \cap owners) :
         Return([i \in models |->
                   [fk |-> copies[i], owner |-> IF copies[i] \in found THEN copies[i] ELSE None]],
                found = fkValues(copies) \cap owners)
  BY <1>1a, Zenon
<1>1. PICK found \in SUBSET (fkValues(copies) \cap owners) :
        Return([i \in models |->
                  [fk |-> copies[i], owner |-> IF copies[i] \in found THEN copies[i] ELSE None]],
               found = fkValues(copies) \cap owners)
  BY <1>1b, Zenon
<1>2. relation = "belongsTo" /\ UNCHANGED <<relation, fk, owners, links>> /\ owners \subseteq Owners
  BY <1>1 DEF preloadBelongsTo, Return, TypeOK
<1>3. /\ result'.of = [i \in models |->
            [fk |-> copies[i], owner |-> IF copies[i] \in found THEN copies[i] ELSE None]]
      /\ result'.whole = (found = fkValues(copies) \cap owners)
  BY <1>1 DEF Return
<1>4. ASSUME NEW i \in models
      PROVE  /\ result'.of[i].fk = copies[i]
             /\ result'.of[i].owner = IF copies[i] \in found THEN copies[i] ELSE None
             /\ copies[i] \in owners => copies[i] \in fkValues(copies)
  BY <1>2, <1>3, RelationsAssumption DEF fkValues
<1>5. DOMAIN result'.of = models
  BY <1>3
<1>6. BelongsToExact'
  <2>1. ASSUME NEW i \in models
        PROVE  /\ result'.of[i].owner # None =>
                    result'.of[i].owner = result'.of[i].fk /\ result'.of[i].fk \in owners
               /\ result'.whole /\ result'.of[i].fk \in owners =>
                    result'.of[i].owner = result'.of[i].fk
    <3>1. CASE copies[i] \in found
      BY <1>4, <3>1
    <3>2. CASE copies[i] \notin found
      BY <1>3, <1>4, <3>2, Zenon
    <3> QED
      BY <3>1, <3>2
  <2> QED
    BY <1>2, <1>5, <2>1, Zenon DEF BelongsToExact
<1>7. HasManySound' /\ HasManyComplete' /\ ColdManyToMany'
  BY <1>2 DEF HasManySound, HasManyComplete, ColdManyToMany, Returned
<1> QED
  BY <1>6, <1>7 DEF Results

-----------------------------------------------------------------------------

\* An item, or a link to it, is written: what was read of it may be out of date.
LEMMA WriteKept ==
    ASSUME RInv, NEW i \in Items,
           \/ \E o \in ForeignKeys : SaveItem(i, o)
           \/ DeleteItem(i)
           \/ \E o \in Owners : SaveLink(o, i)
    PROVE  RInv'
<1>1. Touch(i)
  BY Zenon DEF SaveItem, DeleteItem, SaveLink
<1>2. TypeOK /\ ListsHold /\ JoinsHold /\ Results
  BY Zenon DEF RInv, Results
<1>3. /\ fk' \in [Items -> Owners \cup {0, Absent}] /\ \A j \in Items \ {i} : fk'[j] = fk[j]
      /\ links' \subseteq Owners \X Items
      /\ \A o \in Owners, j \in Items \ {i} : <<o, j>> \in links' <=> <<o, j>> \in links
  <2>0. fk \in [Items -> Owners \cup {0, Absent}] /\ links \subseteq Owners \X Items
    BY <1>2 DEF TypeOK
  <2>1. CASE \E o \in ForeignKeys : SaveItem(i, o)
    BY <2>0, <2>1, RelationsAssumption DEF SaveItem
  <2>2. CASE DeleteItem(i)
    BY <2>0, <2>2 DEF DeleteItem
  <2>3. CASE \E o \in Owners : SaveLink(o, i)
    BY <2>0, <2>3 DEF SaveLink
  <2> QED
    BY <2>1, <2>2, <2>3
<1>4. result' = NoResult
  BY <1>1 DEF Touch
<1> QED
  BY <1>1, <1>2, <1>3, <1>4, TouchType, TouchLists, TouchJoins, ResultsLeft DEF RInv, Results

\* An owner is written or deleted.
LEMMA WriteOwnerKept ==
    ASSUME RInv, NEW o \in Owners, WriteOwner(o)
    PROVE  RInv'
<1>1. /\ owners' \subseteq Owners /\ result' = NoResult
      /\ UNCHANGED <<relation, fk, links, cache, missed, loader>>
  BY DEF WriteOwner, RInv, TypeOK
<1>2. TypeOK'
  BY <1>1 DEF RInv, TypeOK, AtStep
<1>3. ListsHold' /\ JoinsHold'
  BY <1>1 DEF RInv, ListsHold, JoinsHold, Holds, Joined
<1> QED
  BY <1>1, <1>2, <1>3, ResultsLeft DEF RInv, Results

\* A list entry expires.
LEMMA ExpireKept ==
    ASSUME RInv, NEW k \in Keys, Expire(k)
    PROVE  RInv'
<1>1. /\ cache' = [cache EXCEPT ![k] = None] /\ missed' = [missed EXCEPT ![k] = {}]
      /\ result' = NoResult /\ UNCHANGED <<relation, fk, owners, links, loader>>
  BY DEF Expire
<1>2. cache' \in [Keys -> (SUBSET Items) \cup {None, NoneResult}] /\ missed' \in [Keys -> SUBSET Items]
  BY <1>1 DEF RInv, TypeOK
<1>3. \A o \in Owners : cache'[JoinKey(o)] # NoneResult
  BY <1>1, KeyTyped, RelationsAssumption DEF RInv, TypeOK
<1>4. TypeOK /\ loader' \in Preload /\ AtStep(loader')
  BY <1>1 DEF RInv, TypeOK
<1>5. TypeOK'
  BY <1>1, <1>2, <1>3, <1>4, StepType
<1>6. JoinsHold'
  BY <1>1 DEF RInv, JoinsHold, Joined
<1> QED
  BY <1>1, <1>5, <1>6, ExpireLists, ResultsLeft DEF RInv, Results

\* A step of a preload.
LEMMA StepKept ==
    ASSUME RInv, Step \/ preloadHasMany \/ preloadManyToMany \/ preloadBelongsTo
    PROVE  RInv'
<1>1. TypeOK /\ ListsHold /\ JoinsHold /\ Results
  BY DEF RInv, Results
<1>2. TypeOK'
  BY <1>1, BeginType, HasManyType, ManyToManyType, ReturnType, Zenon DEF Step
<1>3. CASE preloadHasMany \/ preloadManyToMany
  <2>1. /\ loader'.pc \in {"getIDs", "getJoin"} /\ UNCHANGED <<relation, fk, cache, missed>>
        /\ result' = NoResult
    BY <1>3, IdleTyped, Zenon DEF preloadHasMany, preloadManyToMany, Continue, Preload
  <2>2. ListsHold'
    BY <1>1, <2>1, ListsLeft
  <2> QED
    BY <1>1, <1>2, <1>3, <2>1, <2>2, BeginJoins, ResultsLeft DEF RInv, Results
<1>4. CASE GetQueryIDs \/ SelectIDs \/ SetQueryIDs
  <2>1. ListsHold'
    BY <1>1, <1>4, GetQueryIDsLists, SelectIDsLists, SetQueryIDsLists
  <2>2. loader'.pc \in {"idle", "selectIDs", "setIDs", "models"}
    BY <1>1, <1>4, IdleTyped, Zenon DEF GetQueryIDs, SelectIDs, SetQueryIDs, Continue, Abort, TypeOK, Preload
  <2>3. result' = NoResult \/ UNCHANGED <<relation, fk, owners, links, result>>
    BY <1>4 DEF GetQueryIDs, SelectIDs, SetQueryIDs, Continue, Abort
  <2>4. JoinsHold'
    BY <2>2, JoinsNone DEF ManyToManySteps
  <2> QED
    BY <1>1, <1>2, <2>1, <2>3, <2>4, ResultsLeft DEF RInv, Results
<1>5. CASE GetJoin \/ SelectJoin \/ SetJoin
  <2>1. JoinsHold'
    BY <1>1, <1>5, GetJoinJoins, SelectJoinJoins, SetJoinJoins
  <2>2. relation = "manyToMany" /\ relation' = relation
    BY <1>1, <1>5 DEF GetJoin, SelectJoin, SetJoin, Continue, Abort, TypeOK, AtStep, ManyToManySteps
  <2>3. ListsHold'
    BY <2>2 DEF ListsHold
  <2>4. result' = NoResult \/ UNCHANGED <<relation, fk, owners, links, result>>
    BY <1>5 DEF GetJoin, SelectJoin, SetJoin, Continue, Abort
  <2> QED
    BY <1>1, <1>2, <2>1, <2>3, <2>4, ResultsLeft DEF RInv, Results
<1>6. CASE LoadModels \/ LoadLinked \/ preloadBelongsTo
  <2>1. loader' = Idle /\ UNCHANGED <<relation, fk, cache, missed>>
    BY <1>6, Zenon DEF LoadModels, LoadLinked, preloadBelongsTo, Return
  <2>2. ListsHold' /\ JoinsHold'
    BY <1>1, <2>1, IdleTyped, ListsLeft, JoinsNone DEF ManyToManySteps
  <2>3. Results'
    BY <1>1, <1>6, LoadModelsResults, LoadLinkedResults, BelongsToResults
  <2> QED
    BY <1>2, <2>2, <2>3 DEF RInv, Results
<1> QED
  BY <1>3, <1>4, <1>5, <1>6, Zenon DEF Step

\* The invariant holds from the start.
LEMMA RInvAlways == Spec => []RInv
<1>1. Init => RInv
  <2> SUFFICES ASSUME Init PROVE RInv
    OBVIOUS
  <2>1. loader = Idle /\ result = NoResult /\ cache = [k \in Keys |-> None] /\ missed = [k \in Keys |-> {}]
    BY DEF Init
  <2>2. /\ relation \in {"belongsTo", "hasMany", "manyToMany"}
        /\ fk \in [Items -> Owners \cup {0, Absent}] /\ owners \subseteq Owners
        /\ links \subseteq Owners \X Items
    BY RelationsAssumption DEF Init
  <2>3. TypeOK
    BY <2>1, <2>2, IdleTyped, KeyTyped, RelationsAssumption DEF TypeOK
  <2>4. ListsHold /\ JoinsHold
    BY <2>1, IdleTyped, KeyTyped DEF ListsHold, JoinsHold, IsIDs, ManyToManySteps
  <2>5. result.of = None
    BY <2>1 DEF NoResult
  <2> QED
    BY <2>3, <2>4, <2>5 DEF RInv, HasManySound, HasManyComplete, ColdManyToMany, BelongsToExact, Returned
<1>2. RInv /\ [Next]_vars => RInv'
  <2> SUFFICES ASSUME RInv, [Next]_vars PROVE RInv'
    OBVIOUS
  <2>1. CASE UNCHANGED vars
    <3>1. UNCHANGED <<relation, fk, owners, links, cache, missed, loader, result>>
      BY <2>1 DEF vars
    <3>2. TypeOK'
      BY <3>1 DEF RInv, TypeOK, AtStep
    <3>3. ListsHold' /\ JoinsHold'
      BY <3>1 DEF RInv, ListsHold, JoinsHold, Holds, Joined
    <3> QED
      BY <3>1, <3>2, <3>3, ResultsLeft DEF RInv, Results
  <2> QED
    BY <2>1, StepKept, WriteKept, WriteOwnerKept, ExpireKept, Zenon DEF Next
<1> QED
  BY <1>1, <1>2, PTL DEF Spec

\* preloadHasMany gives an owner only items that are the owner's when it returns.
THEOREM HasManyGivesOwnItems == Spec => []HasManySound
BY RInvAlways, PTL DEF RInv

\* preloadHasMany misses only items written after the list it used was selected.
THEOREM HasManyMissesRecentOnly == Spec => []HasManyComplete
BY RInvAlways, PTL DEF RInv

\* A preloadManyToMany that finds no entry gives each owner its linked items.
THEOREM ColdManyToManyExact == Spec => []ColdManyToMany
BY RInvAlways, PTL DEF RInv

\* preloadBelongsTo sets a field to the owner its foreign key names, if there is one.
THEOREM BelongsToSetsOwner == Spec => []BelongsToExact
BY RInvAlways, PTL DEF RInv

=============================================================================
