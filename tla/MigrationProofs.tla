-------------------------- MODULE MigrationProofs ---------------------------
(***************************************************************************)
(* DropsAllowedOnly of Migration for any instances, tables, releases and   *)
(* models: what AutoMigrate plans, statement by statement, and what the    *)
(* execution of a batch does to the columns of a table.                    *)
(***************************************************************************)
EXTENDS Migration, FiniteSetTheorems, TLAPS

\* The default backend. Steps that need no arithmetic cite Zenon instead.
USE SMTT(60), Z3T(60)

Ops == {"table", "add", "drop_column", "modify", "index", "drop_index"}

\* A statement that an instance migrating to release v may execute.
StatementOK(v, s) ==
    /\ s.op \in Ops /\ s.table \in Tables
    /\ s.op = "table" => IsFiniteSet(DOMAIN s.cols)
    /\ s.op = "drop_column" => \A m \in Range(Info[v]) : m.table = s.table => s.col \notin Columns(m)

Statements(S, v) == \A s \in S : StatementOK(v, s)

\* A batch of several statements drops no column.
Batches(S) ==
    {b \in Seq(S) : b # <<>> /\ (Len(b) > 1 => \A i \in 1 .. Len(b) : b[i].op # "drop_column")}

PlanOK(v, batches) == \E S : Statements(S, v) /\ batches \in Seq(Batches(S))

TableOK(tab) ==
    /\ tab = [cols |-> tab.cols, idx |-> tab.idx]
    /\ IsFiniteSet(DOMAIN tab.cols) /\ IsFiniteSet(tab.idx)

TablesOK(all) == all = [t \in Tables |-> all[t]] /\ \A t \in Tables : TableOK(all[t])

Instance(p) ==
    /\ IsFiniteSet(DOMAIN seen[p]) /\ PlanOK(target[p], plan[p])
    /\ pc[p] = "index" => More(p)
    /\ pc[p] = "idle" => plan[p] = <<>>

MInv ==
    /\ dialect \in Dialects /\ version \in DOMAIN ModelsOf /\ upcoming \in DOMAIN ModelsOf
    /\ TablesOK(tables)
    /\ target \in [Procs -> DOMAIN ModelsOf] /\ next \in [Procs -> Nat]
    /\ pc \in [Procs -> {"idle", "walk", "index"}]
    /\ seen = [p \in Procs |-> seen[p]] /\ plan = [p \in Procs |-> plan[p]]
    /\ \A p \in Procs : Instance(p)

-----------------------------------------------------------------------------
(* Induction. The library's induction theorems have an operator as their   *)
(* parameter; these have a set.                                            *)

\* A set of numbers has a least element.
LEMMA LeastNumber ==
    ASSUME NEW T, T \subseteq Nat, T # {}
    PROVE  \E n \in T : \A k \in T : n <= k
<1>1. PICK n \in T : \A k \in T : ~(<<k, n>> \in OpToRel(<, Nat))
  BY NatLessThanWellFounded, WFMin, Zenon
<1>2. \A k \in T : ~(k < n)
  BY <1>1, Zenon DEF OpToRel
<1> QED
  BY <1>2

\* A set that has 0 and is closed under the successor has every number.
LEMMA Induction ==
    ASSUME NEW S, 0 \in S, \A n \in Nat : n \in S => n + 1 \in S
    PROVE  Nat \subseteq S
<1> SUFFICES ASSUME Nat \ S # {} PROVE FALSE
  OBVIOUS
<1>1. PICK n \in Nat \ S : \A k \in Nat \ S : n <= k
  BY LeastNumber, Zenon
<1>2. n # 0 /\ n - 1 \in Nat
  BY <1>1
<1>3. n - 1 \in S
  BY <1>1, <1>2
<1> QED
  BY <1>1, <1>2, <1>3

\* The image of a finite set is finite.
LEMMA FiniteImage ==
    ASSUME NEW S, IsFiniteSet(S), NEW f
    PROVE  IsFiniteSet({f[x] : x \in S})
<1> DEFINE T == {f[x] : x \in S}
           g == [x \in S |-> f[x]]
<1>1. g \in Surjection(S, T)
  BY DEF Surjection
<1> QED
  BY <1>1, FS_Surjection

\* A set is put in order as a sequence of its elements.
LEMMA OrderedSet ==
    ASSUME NEW S, IsFiniteSet(S)
    PROVE  AnyOrder(S) \in Seq(S) /\ Orders(S) \subseteq Seq(S)
<1>1. Cardinality(S) \in Nat /\ ExistsBijection(1 .. Cardinality(S), S)
  BY FS_CardinalityType, Zenon
<1>2. Orders(S) # {}
  BY <1>1, Zenon DEF ExistsBijection, Bijection, Orders
<1>3. AnyOrder(S) \in Orders(S)
  BY <1>2, Zenon DEF AnyOrder
<1>4. Orders(S) \subseteq [1 .. Cardinality(S) -> S]
  BY Zenon DEF Orders, Injection
<1> QED
  BY <1>1, <1>3, <1>4

-----------------------------------------------------------------------------
(* The recursive functions.                                                *)

\* Concat is defined by its recursion.
LEMMA ConcatUnfolds ==
    ASSUME NEW s, Len(s) \in Nat
    PROVE  \E g : /\ g[0] = <<>> /\ Concat(s) = g[Len(s)]
                  /\ \A n \in Nat : n + 1 \in 0 .. Len(s) => g[n + 1] = g[n] \o s[n + 1]
<1> DEFINE Def(n, g) == g = [i \in 0 .. n |-> IF i = 0 THEN <<>> ELSE g[i - 1] \o s[i]]
           Ok == {n \in Nat : \E g : Def(n, g)}
<1>1. 0 \in Ok
  <2>1. Def(0, [i \in 0 .. 0 |-> <<>>])
    OBVIOUS
  <2>2. \E g : Def(0, g)
    BY <2>1, Zenon
  <2> QED
    BY <2>2, Zenon
<1>2. ASSUME NEW n \in Nat, n \in Ok PROVE n + 1 \in Ok
  <2>1. PICK g : Def(n, g)
    BY <1>2, Zenon
  <2> DEFINE h == [i \in 0 .. n + 1 |-> IF i <= n THEN g[i] ELSE g[n] \o s[n + 1]]
  <2>2. ASSUME NEW i \in 0 .. n + 1
        PROVE  h[i] = IF i = 0 THEN <<>> ELSE h[i - 1] \o s[i]
    <3>1. CASE i \in 1 .. n
      <4>1. h[i] = g[i] /\ h[i - 1] = g[i - 1] /\ i \in 0 .. n /\ i # 0
        BY <3>1
      <4> QED
        BY <2>1, <4>1, Zenon
    <3>2. CASE i = 0
      <4>1. h[i] = g[i] /\ i \in 0 .. n
        BY <3>2
      <4> QED
        BY <2>1, <3>2, <4>1, Zenon
    <3>3. CASE i = n + 1
      <4>1. h[i] = g[n] \o s[n + 1] /\ h[i - 1] = g[n] /\ i # 0
        BY <3>3
      <4> QED
        BY <3>3, <4>1, Zenon
    <3> QED
      BY <3>1, <3>2, <3>3
  <2>3. \E f : Def(n + 1, f)
    <3>1. h = [i \in 0 .. n + 1 |-> h[i]]
      OBVIOUS
    <3> HIDE DEF h
    <3>2. Def(n + 1, h)
      BY <2>2, <3>1, Zenon
    <3> QED
      BY <3>2, Zenon
  <2>4. n + 1 \in Nat
    OBVIOUS
  <2> QED
    BY <2>3, <2>4, Zenon
<1>3. Nat \subseteq Ok
  <2> HIDE DEF Ok
  <2> QED
    BY <1>1, <1>2, Induction, Zenon
<1> DEFINE g == CHOOSE f : Def(Len(s), f)
<1>4. Def(Len(s), g) /\ Concat(s) = g[Len(s)]
  BY <1>3, Zenon DEF Concat
<1> HIDE DEF g
<1>5. \A i \in 0 .. Len(s) : g[i] = IF i = 0 THEN <<>> ELSE g[i - 1] \o s[i]
  BY <1>4, Zenon
<1>6. 0 \in 0 .. Len(s) /\ \A n \in Nat : n + 1 # 0 /\ (n + 1) - 1 = n
  OBVIOUS
<1>7. g[0] = <<>> /\ \A n \in Nat : n + 1 \in 0 .. Len(s) => g[n + 1] = g[n] \o s[n + 1]
  BY <1>5, <1>6, Zenon
<1> QED
  BY <1>4, <1>7, Zenon

\* Sequences one after the other are a sequence of their elements.
LEMMA ConcatTyped ==
    ASSUME NEW E, NEW s \in Seq(Seq(E))
    PROVE  Concat(s) \in Seq(E)
<1>1. Len(s) \in Nat /\ <<>> \in Seq(E) /\ \A a, b \in Seq(E) : a \o b \in Seq(E)
  OBVIOUS
<1>2. PICK g : /\ g[0] = <<>> /\ Concat(s) = g[Len(s)]
               /\ \A n \in Nat : n + 1 \in 0 .. Len(s) => g[n + 1] = g[n] \o s[n + 1]
  BY <1>1, ConcatUnfolds, Zenon
<1> DEFINE Ok == {n \in Nat : n \in 0 .. Len(s) => g[n] \in Seq(E)}
<1>3. 0 \in Ok
  BY <1>1, <1>2, Zenon
<1>4. ASSUME NEW n \in Nat, n \in Ok PROVE n + 1 \in Ok
  <2>1. n + 1 \in Nat
    OBVIOUS
  <2> SUFFICES ASSUME n + 1 \in 0 .. Len(s) PROVE g[n + 1] \in Seq(E)
    BY <2>1, Zenon
  <2>2. n \in 0 .. Len(s) /\ s[n + 1] \in Seq(E)
    BY <1>1
  <2> QED
    BY <1>1, <1>2, <1>4, <2>2, Zenon
<1>5. Nat \subseteq Ok
  <2> HIDE DEF Ok
  <2> QED
    BY <1>3, <1>4, Induction, Zenon
<1>6. Len(s) \in 0 .. Len(s)
  BY <1>1
<1> QED
  BY <1>1, <1>2, <1>5, <1>6, Zenon

\* The tables after a statement of a batch come from those before it.
LEMMA ExecutedUnfolds ==
    ASSUME NEW all, NEW b, Len(b) \in Nat
    PROVE  /\ Executed(all, b)[0] = all
           /\ \A n \in Nat : n + 1 \in 0 .. Len(b) =>
                 Executed(all, b)[n + 1] = Execute(Executed(all, b)[n], b[n + 1])
<1> DEFINE Def(n, g) == g = [i \in 0 .. n |-> IF i = 0 THEN all ELSE Execute(g[i - 1], b[i])]
           Ok == {n \in Nat : \E g : Def(n, g)}
<1>1. 0 \in Ok
  <2>1. Def(0, [i \in 0 .. 0 |-> all])
    OBVIOUS
  <2>2. \E g : Def(0, g)
    BY <2>1, Zenon
  <2> QED
    BY <2>2, Zenon
<1>2. ASSUME NEW n \in Nat, n \in Ok PROVE n + 1 \in Ok
  <2>1. PICK g : Def(n, g)
    BY <1>2, Zenon
  <2> DEFINE h == [i \in 0 .. n + 1 |-> IF i <= n THEN g[i] ELSE Execute(g[n], b[n + 1])]
  <2>2. ASSUME NEW i \in 0 .. n + 1
        PROVE  h[i] = IF i = 0 THEN all ELSE Execute(h[i - 1], b[i])
    <3>1. CASE i \in 1 .. n
      <4>1. h[i] = g[i] /\ h[i - 1] = g[i - 1] /\ i \in 0 .. n /\ i # 0
        BY <3>1
      <4> QED
        BY <2>1, <4>1, Zenon
    <3>2. CASE i = 0
      BY <2>1, <3>2
    <3>3. CASE i = n + 1
      <4>1. h[i] = Execute(g[n], b[n + 1]) /\ h[i - 1] = g[n] /\ i # 0
        BY <3>3
      <4> QED
        BY <3>3, <4>1, Zenon
    <3> QED
      BY <3>1, <3>2, <3>3
  <2>3. \E f : Def(n + 1, f)
    BY <2>2, Zenon
  <2>4. n + 1 \in Nat
    OBVIOUS
  <2> QED
    BY <2>3, <2>4, Zenon
<1>3. Nat \subseteq Ok
  <2> HIDE DEF Ok
  <2> QED
    BY <1>1, <1>2, Induction, Zenon
<1>4. \E g : Def(Len(b), g)
  BY <1>3, Zenon
<1> DEFINE g == Executed(all, b)
<1>5. Def(Len(b), g)
  BY <1>4, Zenon DEF Executed
<1> HIDE DEF g
<1>6. \A i \in 0 .. Len(b) : g[i] = IF i = 0 THEN all ELSE Execute(g[i - 1], b[i])
  BY <1>5, Zenon
<1>7. 0 \in 0 .. Len(b) /\ \A n \in Nat : n + 1 # 0 /\ (n + 1) - 1 = n
  OBVIOUS
<1>8. g[0] = all /\ \A n \in Nat : n + 1 \in 0 .. Len(b) => g[n + 1] = Execute(g[n], b[n + 1])
  BY <1>6, <1>7, Zenon
<1> QED
  BY <1>8, Zenon DEF g

-----------------------------------------------------------------------------
(* The models of a release.                                                *)

\* What is computed for every place of a sequence is a finite set.
LEMMA FiniteDomain ==
    ASSUME NEW E, NEW s \in Seq(E)
    PROVE  IsFiniteSet(DOMAIN s)
<1>1. DOMAIN s = 1 .. Len(s) /\ Len(s) \in Nat
  OBVIOUS
<1> QED
  BY <1>1, FS_Interval

\* A model has finitely many columns and tags.
LEMMA ModelFinite ==
    ASSUME NEW m, m.fields \in Seq(Fields(m)), \A f \in Fields(m) : f.tags \in Seq(Range(f.tags))
    PROVE  IsFiniteSet(Columns(m)) /\ IsFiniteSet(DOMAIN Tags(m))
<1>1. IsFiniteSet(DOMAIN m.fields)
  BY FiniteDomain
<1>2. IsFiniteSet(Fields(m))
  BY <1>1, FiniteImage DEF Fields
<1>3. IsFiniteSet(Columns(m))
  <2> DEFINE g == [f \in Fields(m) |-> f.col]
  <2>1. IsFiniteSet({g[f] : f \in Fields(m)})
    BY <1>2, FiniteImage, Zenon
  <2>2. {g[f] : f \in Fields(m)} = {f.col : f \in Fields(m)}
    BY Zenon
  <2> QED
    BY <2>1, <2>2, FS_AddElement, Zenon DEF Columns
<1> DEFINE Tag(i, j) == [col |-> m.fields[i].col, unique |-> m.fields[i].tags[j].unique,
                         name |-> m.fields[i].tags[j].name]
           E == UNION {{Tag(i, j) : j \in DOMAIN m.fields[i].tags} : i \in DOMAIN m.fields}
           s == [i \in DOMAIN m.fields |-> [j \in DOMAIN m.fields[i].tags |-> Tag(i, j)]]
<1>4. ASSUME NEW i \in DOMAIN m.fields PROVE s[i] \in Seq(E)
  <2>1. m.fields[i].tags \in Seq(Range(m.fields[i].tags))
    BY <1>4, Zenon DEF Fields
  <2>2. DOMAIN m.fields[i].tags = 1 .. Len(m.fields[i].tags) /\ Len(m.fields[i].tags) \in Nat
    BY <2>1
  <2> HIDE DEF Tag
  <2>3. \A j \in DOMAIN m.fields[i].tags : Tag(i, j) \in E
    <3> DEFINE D == {Tag(i, j) : j \in DOMAIN m.fields[i].tags}
    <3>1. D \in {{Tag(k, j) : j \in DOMAIN m.fields[k].tags} : k \in DOMAIN m.fields}
      BY Zenon
    <3>2. \A j \in DOMAIN m.fields[i].tags : Tag(i, j) \in D
      BY Zenon
    <3> HIDE DEF D
    <3> QED
      BY <3>1, <3>2, Zenon
  <2> HIDE DEF E
  <2>4. s[i] = [j \in 1 .. Len(m.fields[i].tags) |-> Tag(i, j)]
    BY <2>2, Zenon
  <2>5. \A K : \A n \in Nat : [1 .. n -> K] \subseteq Seq(K)
    OBVIOUS
  <2> HIDE DEF s
  <2>6. s[i] \in [1 .. Len(m.fields[i].tags) -> E]
    BY <2>2, <2>3, <2>4, Zenon
  <2> QED
    BY <2>2, <2>5, <2>6, Zenon
<1>5. s \in Seq(Seq(E))
  <2>1. DOMAIN m.fields = 1 .. Len(m.fields) /\ Len(m.fields) \in Nat
    OBVIOUS
  <2>2. s = [i \in 1 .. Len(m.fields) |-> s[i]]
    BY <2>1, Zenon
  <2>3. \A K : \A n \in Nat : [1 .. n -> K] \subseteq Seq(K)
    OBVIOUS
  <2> HIDE DEF s, E
  <2>4. s \in [1 .. Len(m.fields) -> Seq(E)]
    BY <1>4, <2>1, <2>2, Zenon
  <2> QED
    BY <2>1, <2>3, <2>4, Zenon
<1>6. Tags(m) \in Seq(E)
  <2>1. Tags(m) = Concat(s)
    BY Zenon DEF Tags
  <2> HIDE DEF s, E
  <2> QED
    BY <1>5, <2>1, ConcatTyped, Zenon
<1> HIDE DEF E
<1> QED
  BY <1>3, <1>6, FiniteDomain, Zenon

\* The cached information on a model names its table and fields, and has
\* finitely many indexes.
LEMMA InfoFinite ==
    ASSUME NEW t, NEW m, m.fields \in Seq(Fields(m)), m.extra \in Seq(Range(m.extra)),
           \A f \in Fields(m) : f.tags \in Seq(Range(f.tags))
    PROVE  LET info == GetCachedModelInfo(t, m)
           IN  /\ info.table = t /\ IsFiniteSet(Columns(info))
               /\ IsFiniteSet(info.merged) /\ IsFiniteSet(info.indexes)
<1> DEFINE tagged == parseIndexTagFromDb(Tags(m))
           declared == appendIndex(t, m, tagged)
           names == IndexNames(t, declared)
           info == GetCachedModelInfo(t, m)
<1>1. IsFiniteSet(Columns(m)) /\ IsFiniteSet(DOMAIN Tags(m))
  BY ModelFinite, Zenon
<1>2. IsFiniteSet(tagged)
  <2> DEFINE T == Tags(m)
             Index(i) == IF T[i].name = NoName
                THEN [name |-> NoName, cols |-> {T[i].col}, unique |-> T[i].unique, where |-> FALSE]
                ELSE [name |-> T[i].name, unique |-> FirstUnique(T, T[i].name), where |-> FALSE,
                      cols |-> {T[j].col : j \in {k \in DOMAIN T : /\ T[k].name = T[i].name
                                                     /\ T[k].unique = FirstUnique(T, T[i].name)}}]
             g == [i \in DOMAIN T |-> Index(i)]
  <2>1. tagged = {Index(i) : i \in DOMAIN T}
    BY Zenon DEF parseIndexTagFromDb
  <2> HIDE DEF tagged, Index, T
  <2>2. {Index(i) : i \in DOMAIN T} = {g[i] : i \in DOMAIN T}
    BY Zenon
  <2>3. IsFiniteSet({g[i] : i \in DOMAIN T})
    <3>1. IsFiniteSet(DOMAIN T)
      BY <1>1, Zenon DEF T
    <3> QED
      BY <3>1, FiniteImage, Zenon
  <2> QED
    BY <2>1, <2>2, <2>3, Zenon
<1>3. IsFiniteSet(declared)
  <2> DEFINE extra == {m.extra[i] : i \in DOMAIN m.extra}
             added == {idx \in extra : \A old \in tagged : effectiveIndexName(t, old) # effectiveIndexName(t, idx)}
  <2>1. IsFiniteSet(DOMAIN m.extra)
    BY FiniteDomain, Zenon
  <2>2. IsFiniteSet(extra)
    BY <2>1, FiniteImage, Zenon
  <2>3. added \subseteq extra
    BY Zenon
  <2>4. IsFiniteSet(added)
    <3> HIDE DEF added, extra
    <3> QED
      BY <2>2, <2>3, FS_Subset, Zenon
  <2>5. declared = tagged \cup added
    BY Zenon DEF appendIndex
  <2> HIDE DEF tagged, added, declared
  <2> QED
    BY <1>2, <2>4, <2>5, FS_Union, Zenon
<1>4. IsFiniteSet(names)
  <2> HIDE DEF declared
  <2> DEFINE g == [idx \in declared |-> effectiveIndexName(t, idx)]
             all == {g[idx] : idx \in declared}
  <2>1. IsFiniteSet(all)
    BY <1>3, FiniteImage, Zenon
  <2>2. names \subseteq all
    BY Zenon DEF IndexNames
  <2> HIDE DEF names, all
  <2> QED
    BY <2>1, <2>2, FS_Subset, Zenon
<1>5. /\ info.table = t /\ info.fields = m.fields
      /\ info.merged = populateMergedMap(t, declared)
      /\ info.indexes = populateIndexMap(t, declared)
  <2> HIDE DEF declared, tagged
  <2>1. info = ModelInfo(t, m, appendProgrammaticIndexes(t, m, tagged), declared)
    BY Zenon DEF GetCachedModelInfo, Tagged, declared, tagged
  <2> HIDE DEF info
  <2> QED
    BY <2>1 DEF ModelInfo
<1>6. IsFiniteSet(info.merged)
  <2> HIDE DEF declared, info
  <2> DEFINE g == [n \in names |-> Merged(n, Entered(t, declared, n))]
  <2>1. IsFiniteSet({g[n] : n \in names})
    <3> HIDE DEF names
    <3> QED
      BY <1>4, FiniteImage, Zenon
  <2>2. info.merged = {g[n] : n \in names}
    BY <1>5, Zenon DEF populateMergedMap
  <2> QED
    BY <2>1, <2>2, Zenon
<1>7. IsFiniteSet(info.indexes)
  <2> HIDE DEF declared, info
  <2> DEFINE g == [n \in names |-> First(n, Entered(t, declared, n))]
  <2>1. IsFiniteSet({g[n] : n \in names})
    <3> HIDE DEF names
    <3> QED
      BY <1>4, FiniteImage, Zenon
  <2>2. info.indexes = {g[n] : n \in names}
    BY <1>5, Zenon DEF populateIndexMap
  <2> QED
    BY <2>1, <2>2, Zenon
<1>8. Columns(info) = Columns(m)
  <2> HIDE DEF info
  <2> QED
    BY <1>5, Zenon DEF Columns, Fields
<1> HIDE DEF info
<1>9. IsFiniteSet(Columns(info))
  BY <1>1, <1>8, Zenon
<1> QED
  BY <1>5, <1>6, <1>7, <1>9, Zenon DEF info

\* A model of a release: its table, its finite columns and indexes; no other
\* model of the release has its table.
LEMMA ModelOf ==
    ASSUME NEW v \in DOMAIN ModelsOf, NEW i \in DOMAIN Info[v]
    PROVE  LET m == Info[v][i]
           IN  /\ m.table \in Tables /\ IsFiniteSet(Columns(m))
               /\ IsFiniteSet(m.merged) /\ IsFiniteSet(m.indexes)
               /\ \A n \in Range(Info[v]) : n.table = m.table => n = m
<1> DEFINE M(j) == ModelsOf[v][j]
<1>1. /\ DOMAIN Info[v] = DOMAIN ModelsOf[v]
      /\ \A j \in DOMAIN ModelsOf[v] : Info[v][j] = GetCachedModelInfo(M(j).table, M(j).model)
  BY Zenon DEF Info
<1>2. \A j \in DOMAIN ModelsOf[v] :
         /\ M(j).table \in Tables
         /\ M(j).model.fields \in Seq(Fields(M(j).model))
         /\ M(j).model.extra \in Seq(Range(M(j).model.extra))
         /\ \A f \in Fields(M(j).model) : f.tags \in Seq(Range(f.tags))
  BY MigrationAssumption, Zenon
<1>3. \A j \in DOMAIN ModelsOf[v] :
         /\ Info[v][j].table = M(j).table /\ IsFiniteSet(Columns(Info[v][j]))
         /\ IsFiniteSet(Info[v][j].merged) /\ IsFiniteSet(Info[v][j].indexes)
  <2> TAKE j \in DOMAIN ModelsOf[v]
  <2> DEFINE t == M(j).table
             m == M(j).model
             info == GetCachedModelInfo(t, m)
  <2>1. /\ m.fields \in Seq(Fields(m)) /\ m.extra \in Seq(Range(m.extra))
        /\ \A f \in Fields(m) : f.tags \in Seq(Range(f.tags))
    BY <1>2, Zenon
  <2>2. Info[v][j] = info
    BY <1>1, Zenon
  <2> HIDE DEF t, m
  <2>3. info.table = t /\ IsFiniteSet(Columns(info)) /\ IsFiniteSet(info.merged) /\ IsFiniteSet(info.indexes)
    BY <2>1, InfoFinite, Zenon
  <2> HIDE DEF info
  <2> QED
    BY <2>2, <2>3, Zenon DEF t
<1>4. \A j, k \in DOMAIN ModelsOf[v] : M(j).table = M(k).table => j = k
  BY MigrationAssumption, Zenon
<1>5. \A n \in Range(Info[v]) : \E j \in DOMAIN ModelsOf[v] : n = Info[v][j]
  BY <1>1, Zenon DEF Range
<1> HIDE DEF M
<1>6. \A n \in Range(Info[v]) : n.table = Info[v][i].table => n = Info[v][i]
  <2> SUFFICES ASSUME NEW n \in Range(Info[v]), n.table = Info[v][i].table PROVE n = Info[v][i]
    BY Zenon
  <2>1. PICK j \in DOMAIN ModelsOf[v] : n = Info[v][j]
    BY <1>5, Zenon
  <2>2. M(j).table = M(i).table
    BY <1>1, <1>3, <2>1, Zenon
  <2> QED
    BY <1>1, <1>4, <2>1, <2>2, Zenon
<1> QED
  BY <1>1, <1>2, <1>3, <1>6, Zenon

-----------------------------------------------------------------------------
(* The statements that are planned.                                        *)

\* Statements that are executed one by one are batches.
LEMMA SinglesBatches ==
    ASSUME NEW S, NEW s \in Seq(S)
    PROVE  [i \in DOMAIN s |-> <<s[i]>>] \in Seq(Batches(S))
<1>1. DOMAIN s = 1 .. Len(s) /\ Len(s) \in Nat
  OBVIOUS
<1>2. \A i \in 1 .. Len(s) : <<s[i]>> \in Batches(S)
  BY DEF Batches
<1>3. [i \in DOMAIN s |-> <<s[i]>>] \in [1 .. Len(s) -> Batches(S)]
  BY <1>1, <1>2, Zenon
<1>4. \A K : \A n \in Nat : [1 .. n -> K] \subseteq Seq(K)
  OBVIOUS
<1> QED
  BY <1>1, <1>3, <1>4, Zenon

\* The batch that creates a table is one an instance may execute.
LEMMA CreatePlanOK ==
    ASSUME NEW v \in DOMAIN ModelsOf, NEW i \in DOMAIN Info[v], NEW d
    PROVE  PlanOK(v, <<GenerateCreateTableSQL(Info[v][i], d)>>)
<1> DEFINE m == Info[v][i]
           R == {generateCreateIndexSQL(m, idx) : idx \in m.merged}
           c == CreateTable(m, d)
           S == {c} \cup R
           b == GenerateCreateTableSQL(m, d)
<1>1. m.table \in Tables /\ IsFiniteSet(Columns(m)) /\ IsFiniteSet(m.merged)
  BY ModelOf, Zenon
<1> HIDE DEF m
<1>2. /\ c.op = "table" /\ c.table = m.table /\ DOMAIN c.cols = Columns(m)
      /\ \A r \in R : r.op = "index" /\ r.table = m.table
  BY DEF CreateTable, generateCreateIndexSQL
<1>3. IsFiniteSet(R)
  <2> DEFINE g == [idx \in m.merged |-> generateCreateIndexSQL(m, idx)]
  <2>1. IsFiniteSet({g[idx] : idx \in m.merged})
    BY <1>1, FiniteImage, Zenon
  <2>2. R = {g[idx] : idx \in m.merged}
    BY Zenon
  <2> QED
    BY <2>1, <2>2, Zenon
<1>4. b = <<c>> \o AnyOrder(R)
  BY Zenon DEF GenerateCreateTableSQL
<1> HIDE DEF R, c, b
<1>5. AnyOrder(R) \in Seq(R)
  BY <1>3, OrderedSet, Zenon
<1>6. Statements(S, v)
  BY <1>1, <1>2 DEF Statements, StatementOK, Ops
<1>7. b \in Seq(S) /\ b # <<>>
  BY <1>4, <1>5
<1>8. \A j \in 1 .. Len(b) : b[j] \in S
  BY <1>7
<1>9. \A j \in 1 .. Len(b) : b[j].op # "drop_column"
  BY <1>2, <1>8
<1> HIDE DEF S
<1>10. b \in Batches(S)
  BY <1>7, <1>9, Zenon DEF Batches
<1>11. \A K : \A x \in K : <<x>> \in Seq(K)
  OBVIOUS
<1>12. <<b>> \in Seq(Batches(S))
  BY <1>10, <1>11, Zenon
<1> QED
  BY <1>6, <1>12, Zenon DEF PlanOK, b, m

\* So are the statements that take a table to a model: the columns dropped are
\* not columns of the model.
LEMMA AlterPlanOK ==
    ASSUME NEW v \in DOMAIN ModelsOf, NEW i \in DOMAIN Info[v], NEW d, NEW table,
           IsFiniteSet(DOMAIN table.cols), IsFiniteSet(table.idx),
           NEW s \in GenerateAlterTableSQL(Info[v][i], table, d)
    PROVE  PlanOK(v, [j \in DOMAIN s |-> <<s[j]>>])
<1> DEFINE m == Info[v][i]
           added == {AddColumn(m, c, d) : c \in Columns(m) \ DOMAIN table.cols}
           dropped == {DropColumn(m, c) : c \in DOMAIN table.cols \ Columns(m)}
           changed == {e \in Columns(m) \cap DOMAIN table.cols :
                          table.cols[e].type # SqlType(d, m, e)}
           modified == {ModifyColumn(m, c, d) : c \in changed}
           toAdd == IndexesToAdd(m, table)
           toDrop == IndexesToDrop(m, table)
           created == {generateCreateIndexSQL(m, idx) : idx \in m.indexes}
           removed == {generateDropIndexSQL(m, idx.name) : idx \in m.indexes}
           S == added \cup dropped \cup modified \cup created \cup removed \cup toDrop
<1>1. /\ m.table \in Tables /\ IsFiniteSet(Columns(m)) /\ IsFiniteSet(m.indexes)
      /\ \A n \in Range(Info[v]) : n.table = m.table => n = m
  BY ModelOf, Zenon
<1>2. PICK a \in Orders(added), e \in Orders(dropped), k \in Orders(toAdd), o \in Orders(toDrop) :
         s = a \o e \o AnyOrder(modified) \o Concat(k) \o o
  <2>1. s \in StatementOrders(added, dropped, modified, toAdd, toDrop)
    BY Zenon DEF GenerateAlterTableSQL
  <2> HIDE DEF added, dropped, modified, toAdd, toDrop
  <2> QED
    BY <2>1 DEF StatementOrders
<1> HIDE DEF m
<1>3. IsFiniteSet(added)
  <2> DEFINE C == Columns(m) \ DOMAIN table.cols
             g == [c \in C |-> AddColumn(m, c, d)]
  <2>1. IsFiniteSet(C)
    BY <1>1, FS_Subset
  <2>2. added = {g[c] : c \in C}
    BY Zenon
  <2> HIDE DEF C, added
  <2> QED
    BY <2>1, <2>2, FiniteImage, Zenon
<1>4. IsFiniteSet(dropped)
  <2> DEFINE C == DOMAIN table.cols \ Columns(m)
             g == [c \in C |-> DropColumn(m, c)]
  <2>1. IsFiniteSet(C)
    BY FS_Subset
  <2>2. dropped = {g[c] : c \in C}
    BY Zenon
  <2> HIDE DEF C, dropped
  <2> QED
    BY <2>1, <2>2, FiniteImage, Zenon
<1>5. IsFiniteSet(modified)
  <2> DEFINE g == [c \in changed |-> ModifyColumn(m, c, d)]
  <2>1. changed \subseteq Columns(m)
    BY Zenon
  <2>2. modified = {g[c] : c \in changed}
    BY Zenon
  <2> HIDE DEF changed, modified
  <2>3. IsFiniteSet(changed)
    BY <1>1, <2>1, FS_Subset, Zenon
  <2> QED
    BY <2>2, <2>3, FiniteImage, Zenon
<1>6. IsFiniteSet(toAdd)
  <2> DEFINE I == {j \in m.indexes : \A old \in table.idx : old.name # j.name}
             J == {j \in m.indexes : \E old \in table.idx : old.name = j.name /\ ~Same(j, old)}
             g == [idx \in I |-> <<generateCreateIndexSQL(m, idx)>>]
             h == [idx \in J |-> <<generateDropIndexSQL(m, idx.name), generateCreateIndexSQL(m, idx)>>]
             G == {g[idx] : idx \in I}
             H == {h[idx] : idx \in J}
  <2>1. I \subseteq m.indexes /\ J \subseteq m.indexes
    BY Zenon
  <2>2. toAdd = G \cup H
    BY Zenon DEF IndexesToAdd
  <2>3. IsFiniteSet(G)
    <3> HIDE DEF I
    <3>1. IsFiniteSet(I)
      BY <1>1, <2>1, FS_Subset, Zenon
    <3> QED
      BY <3>1, FiniteImage, Zenon
  <2>4. IsFiniteSet(H)
    <3> HIDE DEF J
    <3>1. IsFiniteSet(J)
      BY <1>1, <2>1, FS_Subset, Zenon
    <3> QED
      BY <3>1, FiniteImage, Zenon
  <2> HIDE DEF G, H, toAdd
  <2> QED
    BY <2>2, <2>3, <2>4, FS_Union, Zenon
<1>7. IsFiniteSet(toDrop)
  <2> DEFINE I == {j \in table.idx : \A idx \in m.indexes : idx.name # j.name /\ ~Same(idx, j)}
             g == [old \in I |-> generateDropIndexSQL(m, old.name)]
  <2>1. I \subseteq table.idx
    BY Zenon
  <2>2. toDrop = {g[old] : old \in I}
    BY Zenon DEF IndexesToDrop
  <2> HIDE DEF I, toDrop
  <2>3. IsFiniteSet(I)
    BY <2>1, FS_Subset, Zenon
  <2> QED
    BY <2>2, <2>3, FiniteImage, Zenon
<1>8. Statements(S, v)
  <2>1. \A x \in added : x.op = "add" /\ x.table = m.table
    BY DEF AddColumn
  <2>2. \A x \in dropped : x.op = "drop_column" /\ x.table = m.table /\ x.col \notin Columns(m)
    BY DEF DropColumn
  <2>3. \A x \in modified : x.op = "modify" /\ x.table = m.table
    BY DEF ModifyColumn
  <2>4. \A x \in created : x.op = "index" /\ x.table = m.table
    BY DEF generateCreateIndexSQL
  <2>5. \A x \in removed : x.op = "drop_index" /\ x.table = m.table
    BY DEF generateDropIndexSQL
  <2>6. \A x \in toDrop : x.op = "drop_index" /\ x.table = m.table
    BY DEF IndexesToDrop, generateDropIndexSQL
  <2> HIDE DEF added, dropped, modified, created, removed, toDrop
  <2>7. ASSUME NEW x \in S PROVE StatementOK(v, x)
    <3>1. CASE x \in dropped
      BY <1>1, <2>2, <3>1 DEF StatementOK, Ops
    <3>2. CASE x \notin dropped
      BY <1>1, <2>1, <2>3, <2>4, <2>5, <2>6, <3>2 DEF StatementOK, Ops
    <3> QED
      BY <3>1, <3>2
  <2> HIDE DEF S
  <2> QED
    BY <2>7, Zenon DEF Statements
<1>9. toAdd \subseteq Seq(S)
  <2>1. \A x \in created : \A y \in removed : {<<x>>, <<y, x>>} \subseteq Seq(S)
    <3> HIDE DEF added, dropped, modified, created, removed, toDrop
    <3> QED
      OBVIOUS
  <2> HIDE DEF S
  <2>2. \A idx \in m.indexes : generateCreateIndexSQL(m, idx) \in created
                               /\ generateDropIndexSQL(m, idx.name) \in removed
    BY Zenon
  <2> HIDE DEF created, removed
  <2>3. \A idx \in m.indexes : <<generateCreateIndexSQL(m, idx)>> \in Seq(S)
          /\ <<generateDropIndexSQL(m, idx.name), generateCreateIndexSQL(m, idx)>> \in Seq(S)
    BY <2>1, <2>2, Zenon
  <2> QED
    BY <2>3, Zenon DEF IndexesToAdd
<1> HIDE DEF added, dropped, modified, toAdd, toDrop
<1>10. a \in Seq(added) /\ e \in Seq(dropped) /\ AnyOrder(modified) \in Seq(modified)
       /\ k \in Seq(toAdd) /\ o \in Seq(toDrop)
  BY <1>2, <1>3, <1>4, <1>5, <1>6, <1>7, OrderedSet, Zenon
<1>11. added \subseteq S /\ dropped \subseteq S /\ modified \subseteq S /\ toDrop \subseteq S
  BY Zenon
<1> HIDE DEF S
<1>12. \A K, L : K \subseteq L => Seq(K) \subseteq Seq(L)
  OBVIOUS
<1>13. Concat(k) \in Seq(S)
  <2>1. k \in Seq(Seq(S))
    BY <1>9, <1>10, <1>12, Zenon
  <2> QED
    BY <2>1, ConcatTyped, Zenon
<1>14. a \in Seq(S) /\ e \in Seq(S) /\ AnyOrder(modified) \in Seq(S) /\ o \in Seq(S)
  BY <1>10, <1>11, <1>12, Zenon
<1>15. \A x, y \in Seq(S) : x \o y \in Seq(S)
  OBVIOUS
<1>16. s \in Seq(S)
  BY <1>2, <1>13, <1>14, <1>15, Zenon
<1>17. [j \in DOMAIN s |-> <<s[j]>>] \in Seq(Batches(S))
  BY <1>16, SinglesBatches, Zenon
<1> QED
  BY <1>8, <1>17, Zenon DEF PlanOK

-----------------------------------------------------------------------------
(* What the database executes.                                             *)

\* A column goes only when a statement drops it.
Loses(all, new, s) ==
    \A t \in Tables : \A c \in DOMAIN all[t].cols \ DOMAIN new[t].cols :
        s.op = "drop_column" /\ s.table = t /\ s.col = c

\* The case of an effect on the table of the statement alone.
LEMMA OneTableLoses ==
    ASSUME NEW all, TablesOK(all), NEW s, s.table \in Tables, NEW tab, TableOK(tab),
           \A c \in DOMAIN all[s.table].cols \ DOMAIN tab.cols : s.op = "drop_column" /\ s.col = c,
           NEW new, new = [all EXCEPT ![s.table] = tab]
    PROVE  TablesOK(new) /\ Loses(all, new, s)
<1> DEFINE t == s.table
<1>1. TablesOK(new) /\ new[t] = tab /\ \A u \in Tables : u # t => new[u] = all[u]
  <2>1. new = [u \in Tables |-> IF u = t THEN tab ELSE all[u]]
    BY Zenon DEF TablesOK
  <2>2. \A u \in Tables : new[u] = IF u = t THEN tab ELSE all[u]
    BY <2>1, Zenon
  <2>3. new = [u \in Tables |-> new[u]]
    BY <2>1, <2>2, Zenon
  <2>4. \A u \in Tables : TableOK(new[u])
    BY <2>2, Zenon DEF TablesOK
  <2> QED
    BY <2>2, <2>3, <2>4, Zenon DEF TablesOK
<1>2. Loses(all, new, s)
  <2> SUFFICES ASSUME NEW u \in Tables, NEW c \in DOMAIN all[u].cols \ DOMAIN new[u].cols
               PROVE  s.op = "drop_column" /\ t = u /\ s.col = c
    BY Zenon DEF Loses
  <2>1. u = t
    BY <1>1, Zenon
  <2> QED
    BY <1>1, <2>1, Zenon
<1> QED
  BY <1>1, <1>2, Zenon

\* A statement leaves tables with finitely many columns and indexes, and no
\* statement but a DROP COLUMN takes a column away.
LEMMA ExecuteKeeps ==
    ASSUME NEW all, TablesOK(all), NEW v, NEW s, StatementOK(v, s), dialect \in Dialects
    PROVE  TablesOK(Execute(all, s)) /\ Loses(all, Execute(all, s), s)
<1> DEFINE t == s.table
           tab == all[t]
<1>1. t \in Tables /\ s.op \in Ops /\ TableOK(tab)
  BY Zenon DEF StatementOK, TablesOK
<1>0. Loses(all, all, s)
  BY Zenon DEF Loses
<1>2. CASE s.op = "table"
  <2> DEFINE new == [cols |-> s.cols, idx |-> {}]
  <2>1. TableOK(new)
    <3>1. IsFiniteSet(DOMAIN s.cols) /\ IsFiniteSet({})
      BY <1>2, FS_EmptySet, Zenon DEF StatementOK
    <3> QED
      BY <3>1 DEF TableOK
  <2>2. CASE tab = NoTable
    <3>1. Execute(all, s) = [all EXCEPT ![t] = new]
      BY <1>2, <2>2 DEF Execute
    <3>2. DOMAIN tab.cols = {}
      BY <2>2 DEF NoTable
    <3> QED
      BY <1>1, <2>1, <3>1, <3>2, OneTableLoses, Zenon
  <2>3. CASE tab # NoTable
    <3>1. Execute(all, s) = all
      BY <1>2, <2>3 DEF Execute
    <3> QED
      BY <1>0, <3>1, Zenon
  <2> QED
    BY <2>2, <2>3, Zenon
<1>3. CASE s.op = "add"
  <2> DEFINE cols == [c \in DOMAIN tab.cols \cup {s.col} |-> IF c = s.col THEN s.def ELSE tab.cols[c]]
             new == [cols |-> cols, idx |-> tab.idx]
  <2>1. TableOK(new)
    <3>1. IsFiniteSet(DOMAIN tab.cols \cup {s.col}) /\ IsFiniteSet(tab.idx)
      BY <1>1, FS_AddElement, Zenon DEF TableOK
    <3>2. DOMAIN cols = DOMAIN tab.cols \cup {s.col}
      BY Zenon
    <3> HIDE DEF cols
    <3> QED
      BY <3>1, <3>2 DEF TableOK
  <2>2. Execute(all, s) = [all EXCEPT ![t] = new]
    <3>1. Execute(all, s) = [all EXCEPT ![t].cols = cols]
      BY <1>3 DEF Execute
    <3>2. [tab EXCEPT !.cols = cols] = new
      <4> HIDE DEF cols, tab
      <4> QED
        BY <1>1 DEF TableOK
    <3> QED
      BY <3>1, <3>2, Zenon
  <2>3. DOMAIN tab.cols \subseteq DOMAIN new.cols
    <3>1. new.cols = cols
      BY Zenon
    <3> QED
      BY <3>1, Zenon
  <2> HIDE DEF new
  <2> QED
    BY <1>1, <2>1, <2>2, <2>3, OneTableLoses, Zenon
<1>4. CASE s.op = "drop_column"
  <2> DEFINE cols == [c \in DOMAIN tab.cols \ {s.col} |-> tab.cols[c]]
             idx == IndexesWithout(tab.idx, s.col)
             new == [cols |-> cols, idx |-> idx]
  <2>1. TableOK(new)
    <3>1. IsFiniteSet(DOMAIN tab.cols \ {s.col}) /\ IsFiniteSet(tab.idx)
      BY <1>1, FS_Subset DEF TableOK
    <3>2. IsFiniteSet(idx)
      <4> DEFINE g == [j \in tab.idx |-> [j EXCEPT !.cols = @ \ {s.col}]]
                 G == {g[j] : j \in tab.idx}
      <4>1. IsFiniteSet(G)
        <5> HIDE DEF g
        <5> QED
          BY <3>1, FiniteImage, Zenon
      <4>2. CASE dialect = "mysql"
        <5>1. idx \subseteq G
          BY <4>2, Zenon DEF IndexesWithout
        <5> HIDE DEF G, idx
        <5> QED
          BY <4>1, <5>1, FS_Subset, Zenon
      <4>3. CASE dialect # "mysql"
        <5>1. idx \subseteq tab.idx
          BY <4>3, Zenon DEF IndexesWithout
        <5> HIDE DEF idx
        <5> QED
          BY <3>1, <5>1, FS_Subset, Zenon
      <4> QED
        BY <4>2, <4>3, Zenon
    <3>3. DOMAIN cols = DOMAIN tab.cols \ {s.col}
      BY Zenon
    <3> HIDE DEF cols, idx
    <3> QED
      BY <3>1, <3>2, <3>3 DEF TableOK
  <2>2. Execute(all, s) = [all EXCEPT ![t] = new]
    BY <1>4 DEF Execute
  <2>3. \A c \in DOMAIN tab.cols \ DOMAIN new.cols : s.col = c
    <3>1. new.cols = cols
      BY Zenon
    <3> QED
      BY <3>1, Zenon
  <2> HIDE DEF new
  <2> QED
    BY <1>1, <1>4, <2>1, <2>2, <2>3, OneTableLoses, Zenon
<1>5. CASE s.op = "modify"
  <2> DEFINE def == [type |-> s.type, attrs |-> IF dialect = "mysql" THEN {} ELSE tab.cols[s.col].attrs]
             cols == [tab.cols EXCEPT ![s.col] = def]
             new == [cols |-> cols, idx |-> tab.idx]
  <2>1. DOMAIN cols = DOMAIN tab.cols
    BY Zenon
  <2>2. Execute(all, s) = [all EXCEPT ![t] = new]
    <3>1. Execute(all, s) = [all EXCEPT ![t].cols[s.col] = def]
      BY <1>5 DEF Execute
    <3>2. [tab EXCEPT !.cols = cols] = new
      <4> HIDE DEF cols, tab
      <4> QED
        BY <1>1 DEF TableOK
    <3> QED
      BY <3>1, <3>2, Zenon
  <2> HIDE DEF cols
  <2>3. TableOK(new)
    BY <1>1, <2>1 DEF TableOK
  <2>4. new.cols = cols
    BY Zenon
  <2> HIDE DEF new
  <2> QED
    BY <1>1, <2>1, <2>2, <2>3, <2>4, OneTableLoses, Zenon
<1>6. CASE s.op = "index"
  <2> DEFINE idx == tab.idx \cup {s.idx}
             new == [cols |-> tab.cols, idx |-> idx]
  <2>1. CASE dialect # "mysql" /\ Named(all, s.idx.name) # {}
    <3>1. Execute(all, s) = all
      BY <1>6, <2>1 DEF Execute
    <3> QED
      BY <1>0, <3>1, Zenon
  <2>2. CASE ~(dialect # "mysql" /\ Named(all, s.idx.name) # {})
    <3>1. Execute(all, s) = [all EXCEPT ![t].idx = idx]
      BY <1>6, <2>2 DEF Execute
    <3>2. [tab EXCEPT !.idx = idx] = new
      <4> HIDE DEF idx, tab
      <4> QED
        BY <1>1 DEF TableOK
    <3>3. Execute(all, s) = [all EXCEPT ![t] = new]
      BY <3>1, <3>2, Zenon
    <3>4. IsFiniteSet(idx)
      BY <1>1, FS_AddElement, Zenon DEF TableOK
    <3> HIDE DEF idx
    <3>5. TableOK(new)
      BY <1>1, <3>4 DEF TableOK
    <3>6. new.cols = tab.cols
      BY Zenon
    <3> HIDE DEF new
    <3> QED
      BY <1>1, <3>3, <3>5, <3>6, OneTableLoses, Zenon
  <2> QED
    BY <2>1, <2>2, Zenon
<1>7. CASE s.op = "drop_index"
  <2> DEFINE Left(u) == {i \in all[u].idx : i.name # s.name}
             After(u) == IF dialect = "mysql" /\ u # t THEN all[u] ELSE [all[u] EXCEPT !.idx = Left(u)]
             new == [u \in Tables |-> After(u)]
  <2>1. Execute(all, s) = new
    BY <1>7 DEF Execute
  <2>2. ASSUME NEW u \in Tables PROVE TableOK(After(u)) /\ After(u).cols = all[u].cols
    <3>1. TableOK(all[u])
      BY Zenon DEF TablesOK
    <3>2. Left(u) \subseteq all[u].idx
      BY Zenon
    <3> HIDE DEF Left
    <3>3. IsFiniteSet(Left(u))
      BY <3>1, <3>2, FS_Subset, Zenon DEF TableOK
    <3> QED
      BY <3>1, <3>3 DEF TableOK
  <2> HIDE DEF After
  <2>3. \A u \in Tables : new[u] = After(u)
    BY Zenon
  <2>4. TablesOK(new)
    BY <2>2, <2>3 DEF TablesOK
  <2> HIDE DEF new
  <2>5. Loses(all, new, s)
    BY <2>2, <2>3, Zenon DEF Loses
  <2> QED
    BY <2>1, <2>4, <2>5, Zenon
<1> QED
  BY <1>1, <1>2, <1>3, <1>4, <1>5, <1>6, <1>7, Zenon DEF Ops

\* Whether a statement of a batch drops a column.
Drops(b, t, c) == \E j \in 1 .. Len(b) : b[j].op = "drop_column" /\ b[j].table = t /\ b[j].col = c

\* A batch keeps the tables finite, and a column that is gone after it was
\* dropped by one of its statements.
LEMMA ExecutedKeeps ==
    ASSUME NEW all, TablesOK(all), NEW v, NEW S, Statements(S, v), NEW b \in Seq(S),
           dialect \in Dialects, NEW new, new = Executed(all, b)[Len(b)]
    PROVE  /\ TablesOK(new)
           /\ \A t \in Tables : \A c \in DOMAIN all[t].cols \ DOMAIN new[t].cols : Drops(b, t, c)
<1> DEFINE g == Executed(all, b)
           Holds(i) == /\ TablesOK(g[i])
                       /\ \A t \in Tables : \A c \in DOMAIN all[t].cols \ DOMAIN g[i][t].cols : Drops(b, t, c)
           Ok == {n \in Nat : n \in 0 .. Len(b) => Holds(n)}
<1>1. Len(b) \in Nat
  OBVIOUS
<1>2. g[0] = all
  BY <1>1, ExecutedUnfolds, Zenon
<1>3. ASSUME NEW n \in Nat, n + 1 \in 0 .. Len(b) PROVE g[n + 1] = Execute(g[n], b[n + 1])
  BY <1>1, <1>3, ExecutedUnfolds
<1> HIDE DEF g
<1>4. g[0] = all /\ \A n \in Nat : n + 1 \in 0 .. Len(b) => g[n + 1] = Execute(g[n], b[n + 1])
  BY <1>2, <1>3, Zenon
<1>5. 0 \in Ok
  <2>1. Holds(0)
    BY <1>4, Zenon
  <2> HIDE DEF Holds
  <2> QED
    BY <2>1
<1>6. ASSUME NEW n \in Nat, n \in Ok PROVE n + 1 \in Ok
  <2> SUFFICES ASSUME n + 1 \in 0 .. Len(b) PROVE Holds(n + 1)
    <3> HIDE DEF Holds
    <3> QED
      OBVIOUS
  <2>1. Holds(n)
    <3> HIDE DEF Holds
    <3> QED
      BY <1>1, <1>6
  <2>2. b[n + 1] \in S /\ n + 1 \in 1 .. Len(b)
    OBVIOUS
  <2>3. StatementOK(v, b[n + 1])
    BY <2>2, Zenon DEF Statements
  <2>a. TablesOK(g[n]) /\ g[n + 1] = Execute(g[n], b[n + 1])
    BY <1>4, <2>1, Zenon
  <2>b. \A t \in Tables : \A c \in DOMAIN all[t].cols \ DOMAIN g[n][t].cols : Drops(b, t, c)
    BY <2>1, Zenon
  <2>4. TablesOK(g[n + 1]) /\ Loses(g[n], g[n + 1], b[n + 1])
    BY <2>3, <2>a, ExecuteKeeps, Zenon
  <2>5. ASSUME NEW t \in Tables, NEW c \in DOMAIN all[t].cols \ DOMAIN g[n + 1][t].cols
        PROVE  Drops(b, t, c)
    <3>1. CASE c \in DOMAIN g[n][t].cols
      <4>1. b[n + 1].op = "drop_column" /\ b[n + 1].table = t /\ b[n + 1].col = c
        BY <2>4, <3>1, Zenon DEF Loses
      <4> QED
        BY <2>2, <4>1, Zenon DEF Drops
    <3>2. CASE c \notin DOMAIN g[n][t].cols
      BY <2>b, <3>2, Zenon
    <3> QED
      BY <3>1, <3>2, Zenon
  <2> QED
    BY <2>4, <2>5, Zenon
<1>7. Nat \subseteq Ok
  <2> HIDE DEF Ok
  <2> QED
    BY <1>5, <1>6, Induction, Zenon
<1>8. Holds(Len(b))
  <2>1. Len(b) \in 0 .. Len(b)
    BY <1>1
  <2> HIDE DEF Holds
  <2> QED
    BY <1>1, <1>7, <2>1, Zenon
<1> QED
  BY <1>8, Zenon DEF g

\* Sequences without their first element, or with another one.
LEMMA Leftover ==
    ASSUME NEW S, NEW b \in Seq(S), b # <<>>
    PROVE  LET rest == Tail(b)
           IN  /\ rest \in Seq(S) /\ Len(rest) \in Nat /\ Len(b) \in Nat /\ Len(rest) < Len(b)
               /\ \A i \in 1 .. Len(rest) : \E j \in 1 .. Len(b) : rest[i] = b[j]
  OBVIOUS
LEMMA Prepended ==
    ASSUME NEW S, NEW x \in S, NEW y \in Seq(S), NEW z, z = <<x>> \o y
    PROVE  z \in Seq(S) /\ Head(z) = x
  OBVIOUS

\* What is executed of a batch at once, and what is left of it: a shorter batch.
LEMMA PortionRest ==
    ASSUME NEW S, NEW b \in Batches(S), NEW rest,
           rest = IF dialect = "postgres" THEN <<>> ELSE Tail(b)
    PROVE  /\ Portion(b) \in Seq(S)
           /\ \A j \in 1 .. Len(Portion(b)) : Portion(b)[j] = b[j] /\ j \in 1 .. Len(b)
           /\ rest # <<>> => rest \in Batches(S)
           /\ rest # b
<1>1. b \in Seq(S) /\ b # <<>> /\ (Len(b) > 1 => \A i \in 1 .. Len(b) : b[i].op # "drop_column")
  BY Zenon DEF Batches
<1>2. CASE dialect = "postgres"
  <2>1. Portion(b) = b
    BY <1>2, Zenon DEF Portion
  <2>3. rest = <<>>
    BY <1>2, Zenon
  <2> QED
    BY <1>1, <2>1, <2>3, Zenon
<1>3. CASE dialect # "postgres"
  <2>1. Portion(b) = <<Head(b)>>
    BY <1>3, Zenon DEF Portion
  <2>2. rest = Tail(b)
    BY <1>3, Zenon
  <2>3. /\ rest \in Seq(S) /\ Len(rest) \in Nat /\ Len(b) \in Nat /\ Len(rest) < Len(b)
        /\ \A i \in 1 .. Len(rest) : \E j \in 1 .. Len(b) : rest[i] = b[j]
    BY <1>1, <2>2, Leftover
  <2>4. <<Head(b)>> \in Seq(S) /\ \A j \in 1 .. Len(<<Head(b)>>) : <<Head(b)>>[j] = b[j] /\ j \in 1 .. Len(b)
    BY <1>1
  <2>5. rest # b
    BY <2>3
  <2>6. Len(rest) > 1 => Len(b) > 1
    BY <2>3
  <2>7. Len(rest) > 1 => \A i \in 1 .. Len(rest) : rest[i].op # "drop_column"
    BY <1>1, <2>3, <2>6, Zenon
  <2>8. rest # <<>> => rest \in Batches(S)
    BY <2>3, <2>7, Zenon DEF Batches
  <2> QED
    BY <2>1, <2>4, <2>5, <2>8, Zenon
<1> QED
  BY <1>2, <1>3, Zenon

\* The plan after the execution of its first batch, or of the first statement of
\* it, is another one, and made of batches.
LEMMA PlanStep ==
    ASSUME NEW S, NEW q \in Seq(Batches(S)), q # <<>>,
           NEW rest, rest # <<>> => rest \in Batches(S), rest # Head(q),
           NEW new, new = IF rest = <<>> THEN Tail(q) ELSE <<rest>> \o Tail(q)
    PROVE  new \in Seq(Batches(S)) /\ new # q
<1>1. CASE rest = <<>>
  <2>1. new = Tail(q)
    BY <1>1, Zenon
  <2> QED
    BY <2>1
<1>2. CASE rest # <<>>
  <2>1. new = <<rest>> \o Tail(q)
    BY <1>2, Zenon
  <2>2. Tail(q) \in Seq(Batches(S))
    OBVIOUS
  <2>4. new \in Seq(Batches(S)) /\ Head(new) = rest
    BY <1>2, <2>1, <2>2, Prepended, Zenon
  <2> QED
    BY <2>4, Zenon
<1> QED
  BY <1>1, <1>2, Zenon

-----------------------------------------------------------------------------
(* The invariant.                                                          *)

\* The model an instance looks at next is a model of its release.
LEMMA Looked ==
    ASSUME NEW v \in DOMAIN ModelsOf, NEW n \in Nat, n < Len(Info[v])
    PROVE  n + 1 \in DOMAIN Info[v]
<1>1. ModelsOf[v] \in Seq(Range(ModelsOf[v]))
  BY MigrationAssumption, Zenon
<1>2. DOMAIN ModelsOf[v] = 1 .. Len(ModelsOf[v]) /\ Len(ModelsOf[v]) \in Nat
  BY <1>1
<1> DEFINE f == Info[v]
<1>3. f = [i \in DOMAIN ModelsOf[v] |-> f[i]]
  BY Zenon DEF Info
<1> HIDE DEF f
<1>4. f = [i \in 1 .. Len(ModelsOf[v]) |-> f[i]]
  BY <1>2, <1>3, Zenon
<1>5. Len(f) = Len(ModelsOf[v]) /\ DOMAIN f = 1 .. Len(ModelsOf[v])
  BY <1>2, <1>4
<1>6. n < Len(f)
  BY Zenon DEF f
<1>7. n + 1 \in DOMAIN f
  BY <1>2, <1>5, <1>6
<1> QED
  BY <1>7, Zenon DEF f

\* There is nothing wrong with an empty plan, and an empty table has no column.
LEMMA Empty ==
    /\ \A v : PlanOK(v, <<>>)
    /\ IsFiniteSet(DOMAIN <<>>) /\ TableOK(NoTable)
<1>1. Statements({}, 0) /\ \A v : Statements({}, v)
  BY Zenon DEF Statements
<1>2. <<>> \in Seq(Batches({}))
  OBVIOUS
<1>3. \A v : PlanOK(v, <<>>)
  BY <1>1, <1>2, Zenon DEF PlanOK
<1>4. DOMAIN <<>> = {} /\ IsFiniteSet({})
  BY FS_EmptySet
<1>5. TableOK(NoTable)
  BY <1>4 DEF TableOK, NoTable
<1> QED
  BY <1>3, <1>4, <1>5, Zenon

\* Initially.
LEMMA MInvInit ==
    Init => MInv
<1> SUFFICES ASSUME Init PROVE MInv
  OBVIOUS
<1>1. dialect \in Dialects
  BY Zenon DEF Init
<1>2. version \in DOMAIN ModelsOf /\ upcoming \in DOMAIN ModelsOf
  <2>1. PICK r \in Rollouts : version = r[1] /\ upcoming = r[2]
    BY Zenon DEF Init
  <2>2. r \in (DOMAIN ModelsOf) \X (DOMAIN ModelsOf)
    BY MigrationAssumption, Zenon
  <2> QED
    BY <2>1, <2>2
<1>3. TablesOK(tables)
  BY Empty, Zenon DEF Init, TablesOK
<1>4. /\ target \in [Procs -> DOMAIN ModelsOf] /\ pc \in [Procs -> {"idle", "walk", "index"}]
      /\ seen = [p \in Procs |-> seen[p]] /\ plan = [p \in Procs |-> plan[p]]
  BY <1>2, Zenon DEF Init
<1>5. next \in [Procs -> Nat]
  BY DEF Init
<1>6. ASSUME NEW p \in Procs PROVE Instance(p)
  <2>1. seen[p] = <<>> /\ plan[p] = <<>> /\ pc[p] = "idle"
    BY Zenon DEF Init
  <2> QED
    BY <2>1, Empty, Zenon DEF Instance
<1> QED
  BY <1>1, <1>2, <1>3, <1>4, <1>5, <1>6, Zenon DEF MInv

\* A step of an instance leaves the others as they are.
LEMMA MInvStep ==
    ASSUME MInv, NEW p \in Procs, UNCHANGED <<dialect, upcoming, version>>, TablesOK(tables'),
           target' \in [Procs -> DOMAIN ModelsOf], next' \in [Procs -> Nat],
           pc' \in [Procs -> {"idle", "walk", "index"}],
           seen' = [q \in Procs |-> seen'[q]], plan' = [q \in Procs |-> plan'[q]],
           \A q \in Procs : q # p => /\ target'[q] = target[q] /\ next'[q] = next[q] /\ pc'[q] = pc[q]
                                     /\ seen'[q] = seen[q] /\ plan'[q] = plan[q],
           Instance(p)'
    PROVE  MInv'
<1>1. ASSUME NEW q \in Procs PROVE Instance(q)'
  <2>1. CASE q = p
    BY <2>1, Zenon
  <2>2. CASE q # p
    <3>1. Instance(q)
      BY Zenon DEF MInv
    <3> QED
      BY <2>2, <3>1, Zenon DEF Instance, More
  <2> QED
    BY <2>1, <2>2, Zenon
<1>2. dialect' \in Dialects /\ version' \in DOMAIN ModelsOf /\ upcoming' \in DOMAIN ModelsOf
  BY Zenon DEF MInv
<1> QED
  BY <1>1, <1>2, Zenon DEF MInv

\* A call that failed, or an instance that was killed.
LEMMA MInvError ==
    ASSUME MInv, NEW p \in Procs, Error(p)
    PROVE  MInv'
<1>1. /\ pc' = [pc EXCEPT ![p] = "idle"] /\ next' = [next EXCEPT ![p] = 0]
      /\ seen' = [seen EXCEPT ![p] = <<>>] /\ plan' = [plan EXCEPT ![p] = <<>>]
      /\ target' = target /\ tables' = tables
      /\ UNCHANGED <<dialect, upcoming, version>>
  BY Zenon DEF Error, conf
<1>2. /\ target \in [Procs -> DOMAIN ModelsOf] /\ next \in [Procs -> Nat]
      /\ pc \in [Procs -> {"idle", "walk", "index"}] /\ TablesOK(tables)
      /\ seen = [q \in Procs |-> seen[q]] /\ plan = [q \in Procs |-> plan[q]]
  BY Zenon DEF MInv
<1>3. TablesOK(tables') /\ target' \in [Procs -> DOMAIN ModelsOf]
      /\ pc' \in [Procs -> {"idle", "walk", "index"}]
  BY <1>1, <1>2, Zenon
<1>4. next' \in [Procs -> Nat]
  BY <1>1, <1>2
<1>5. seen' = [q \in Procs |-> seen'[q]] /\ plan' = [q \in Procs |-> plan'[q]]
  BY <1>1, <1>2, Zenon
<1>6. \A q \in Procs : q # p => /\ target'[q] = target[q] /\ next'[q] = next[q] /\ pc'[q] = pc[q]
                                /\ seen'[q] = seen[q] /\ plan'[q] = plan[q]
  BY <1>1, <1>2, Zenon
<1>7. seen'[p] = <<>> /\ plan'[p] = <<>> /\ pc'[p] = "idle"
  BY <1>1, <1>2, Zenon
<1>8. Instance(p)'
  BY <1>7, Empty, Zenon DEF Instance
<1> QED
  BY <1>1, <1>3, <1>4, <1>5, <1>6, <1>8, MInvStep, Zenon

\* The types an instance's variables have.
LEMMA MInvTypes ==
    ASSUME MInv
    PROVE  /\ target \in [Procs -> DOMAIN ModelsOf] /\ next \in [Procs -> Nat]
           /\ pc \in [Procs -> {"idle", "walk", "index"}] /\ TablesOK(tables)
           /\ seen = [q \in Procs |-> seen[q]] /\ plan = [q \in Procs |-> plan[q]]
           /\ dialect \in Dialects /\ \A q \in Procs : Instance(q)
  BY Zenon DEF MInv

\* AutoMigrate is called: the plan of the last call has been executed, or given up.
LEMMA MInvAutoMigrate ==
    ASSUME MInv, NEW p \in Procs, AutoMigrate(p)
    PROVE  MInv'
<1>1. /\ pc[p] = "idle" /\ pc' = [pc EXCEPT ![p] = "walk"] /\ target' = [target EXCEPT ![p] = version]
      /\ next' = [next EXCEPT ![p] = 0] /\ seen' = seen /\ plan' = plan /\ tables' = tables
      /\ UNCHANGED <<dialect, upcoming, version>>
  BY Zenon DEF AutoMigrate, conf
<1>2. TablesOK(tables') /\ pc' \in [Procs -> {"idle", "walk", "index"}]
      /\ seen' = [q \in Procs |-> seen'[q]] /\ plan' = [q \in Procs |-> plan'[q]]
  BY <1>1, MInvTypes, Zenon
<1>3. target' \in [Procs -> DOMAIN ModelsOf]
  BY <1>1, Zenon DEF MInv
<1>4. next' \in [Procs -> Nat]
  BY <1>1, MInvTypes
<1>5. \A q \in Procs : q # p => /\ target'[q] = target[q] /\ next'[q] = next[q] /\ pc'[q] = pc[q]
                                /\ seen'[q] = seen[q] /\ plan'[q] = plan[q]
  BY <1>1, MInvTypes, Zenon
<1>6. Instance(p)'
  <2>1. pc'[p] = "walk" /\ seen'[p] = seen[p] /\ plan'[p] = <<>> /\ IsFiniteSet(DOMAIN seen[p])
    BY <1>1, MInvTypes, Zenon DEF Instance
  <2> QED
    BY <2>1, Empty, Zenon DEF Instance
<1> QED
  BY <1>1, <1>2, <1>3, <1>4, <1>5, <1>6, MInvStep, Zenon

\* The columns are read, or the table is to be created.
LEMMA MInvReadColumns ==
    ASSUME MInv, NEW p \in Procs, ReadColumns(p)
    PROVE  MInv'
<1> DEFINE m == Current(p)
           t == m.table
           b == GenerateCreateTableSQL(m, dialect)
<1>1. /\ pc[p] = "walk" /\ More(p) /\ target' = target /\ tables' = tables
      /\ UNCHANGED <<dialect, upcoming, version>>
  BY Zenon DEF ReadColumns, conf
<1>2. target[p] \in DOMAIN ModelsOf /\ next[p] \in Nat /\ next[p] < Len(Info[target[p]])
  BY <1>1, MInvTypes, Zenon DEF More
<1>3. next[p] + 1 \in DOMAIN Info[target[p]]
  BY <1>2, Looked, Zenon
<1>4. t \in Tables /\ PlanOK(target[p], <<b>>)
  BY <1>2, <1>3, ModelOf, CreatePlanOK, Zenon DEF Current
<1>5. CASE tables[t] = NoTable
  <2>1. /\ plan' = [plan EXCEPT ![p] = <<b>>] /\ next' = [next EXCEPT ![p] = next[p] + 1]
        /\ seen' = seen /\ pc' = pc
    BY <1>5, Zenon DEF ReadColumns
  <2> HIDE DEF b, t, m
  <2>2. /\ TablesOK(tables') /\ pc' \in [Procs -> {"idle", "walk", "index"}]
        /\ target' \in [Procs -> DOMAIN ModelsOf]
        /\ seen' = [q \in Procs |-> seen'[q]] /\ plan' = [q \in Procs |-> plan'[q]]
    BY <1>1, <2>1, MInvTypes, Zenon
  <2>3. next' \in [Procs -> Nat]
    BY <2>1, MInvTypes
  <2>4. \A q \in Procs : q # p => /\ target'[q] = target[q] /\ next'[q] = next[q] /\ pc'[q] = pc[q]
                                  /\ seen'[q] = seen[q] /\ plan'[q] = plan[q]
    BY <1>1, <2>1, MInvTypes, Zenon
  <2>5. /\ pc'[p] = "walk" /\ seen'[p] = seen[p] /\ plan'[p] = <<b>> /\ target'[p] = target[p]
        /\ IsFiniteSet(DOMAIN seen[p])
    BY <1>1, <2>1, MInvTypes, Zenon DEF Instance
  <2>6. Instance(p)'
    BY <1>4, <2>5, Zenon DEF Instance
  <2> QED
    BY <1>1, <2>2, <2>3, <2>4, <2>6, MInvStep, Zenon
<1>6. CASE tables[t] # NoTable
  <2>1. /\ seen' = [seen EXCEPT ![p] = tables[t].cols] /\ pc' = [pc EXCEPT ![p] = "index"]
        /\ plan' = plan /\ next' = next
    BY <1>6, Zenon DEF ReadColumns
  <2> HIDE DEF b, t, m
  <2>2. /\ TablesOK(tables') /\ pc' \in [Procs -> {"idle", "walk", "index"}]
        /\ target' \in [Procs -> DOMAIN ModelsOf] /\ next' \in [Procs -> Nat]
        /\ seen' = [q \in Procs |-> seen'[q]] /\ plan' = [q \in Procs |-> plan'[q]]
    BY <1>1, <2>1, MInvTypes, Zenon
  <2>3. \A q \in Procs : q # p => /\ target'[q] = target[q] /\ next'[q] = next[q] /\ pc'[q] = pc[q]
                                  /\ seen'[q] = seen[q] /\ plan'[q] = plan[q]
    BY <1>1, <2>1, MInvTypes, Zenon
  <2>4. /\ pc'[p] = "index" /\ seen'[p] = tables[t].cols /\ plan'[p] = plan[p]
        /\ target'[p] = target[p] /\ next'[p] = next[p] /\ PlanOK(target[p], plan[p])
    BY <1>1, <2>1, MInvTypes, Zenon DEF Instance
  <2>5. IsFiniteSet(DOMAIN tables[t].cols)
    BY <1>4, MInvTypes, Zenon DEF TablesOK, TableOK
  <2>6. Instance(p)'
    BY <1>1, <2>4, <2>5, Zenon DEF Instance, More
  <2> QED
    BY <1>1, <2>2, <2>3, <2>6, MInvStep, Zenon
<1> QED
  BY <1>5, <1>6, Zenon

\* The indexes are read, and the statements planned.
LEMMA MInvReadIndexes ==
    ASSUME MInv, NEW p \in Procs, ReadIndexes(p)
    PROVE  MInv'
<1> DEFINE m == Current(p)
           t == m.table
           table == GetTableInfo(dialect, seen[p], tables[t].idx)
<1>1. /\ pc[p] = "index" /\ target' = target /\ tables' = tables
      /\ next' = [next EXCEPT ![p] = next[p] + 1] /\ pc' = [pc EXCEPT ![p] = "walk"]
      /\ seen' = [seen EXCEPT ![p] = <<>>]
      /\ UNCHANGED <<dialect, upcoming, version>>
  BY Zenon DEF ReadIndexes, conf
<1>2. PICK s \in GenerateAlterTableSQL(m, table, dialect) :
         plan' = [plan EXCEPT ![p] = [i \in DOMAIN s |-> <<s[i]>>]]
  BY Zenon DEF ReadIndexes
<1>3. target[p] \in DOMAIN ModelsOf /\ next[p] \in Nat /\ next[p] < Len(Info[target[p]])
  BY <1>1, MInvTypes, Zenon DEF More, Instance
<1>4. next[p] + 1 \in DOMAIN Info[target[p]]
  BY <1>3, Looked, Zenon
<1>5. t \in Tables
  BY <1>3, <1>4, ModelOf, Zenon DEF Current
<1>6. IsFiniteSet(DOMAIN table.cols) /\ IsFiniteSet(table.idx)
  <2> HIDE DEF t
  <2>1. IsFiniteSet(DOMAIN seen[p]) /\ IsFiniteSet(tables[t].idx) /\ dialect \in Dialects
    BY <1>5, MInvTypes, Zenon DEF Instance, TablesOK, TableOK
  <2>2. DOMAIN table.cols = DOMAIN seen[p] /\ table.idx = tables[t].idx
    <3>1. /\ DOMAIN SQLiteColumns(seen[p]) = DOMAIN seen[p]
          /\ DOMAIN PostgreSQLColumns(seen[p]) = DOMAIN seen[p]
          /\ DOMAIN MySQLColumns(seen[p]) = DOMAIN seen[p]
      BY Zenon DEF SQLiteColumns, PostgreSQLColumns, MySQLColumns
    <3>2. dialect = "sqlite" \/ dialect = "postgres" \/ dialect = "mysql"
      BY <2>1, Zenon DEF Dialects
    <3> QED
      BY <3>1, <3>2 DEF GetTableInfo
  <2> QED
    BY <2>1, <2>2, Zenon
<1> DEFINE new == [i \in DOMAIN s |-> <<s[i]>>]
<1>7. PlanOK(target[p], new)
  <2> HIDE DEF table
  <2> QED
    BY <1>2, <1>3, <1>4, <1>6, AlterPlanOK, Zenon DEF Current
<1>8. plan' = [plan EXCEPT ![p] = new]
  BY <1>2, Zenon
<1> HIDE DEF new, table
<1>9. /\ TablesOK(tables') /\ pc' \in [Procs -> {"idle", "walk", "index"}]
      /\ target' \in [Procs -> DOMAIN ModelsOf]
      /\ seen' = [q \in Procs |-> seen'[q]] /\ plan' = [q \in Procs |-> plan'[q]]
  BY <1>1, <1>8, MInvTypes, Zenon
<1>10. next' \in [Procs -> Nat]
  BY <1>1, MInvTypes
<1>11. \A q \in Procs : q # p => /\ target'[q] = target[q] /\ next'[q] = next[q] /\ pc'[q] = pc[q]
                                 /\ seen'[q] = seen[q] /\ plan'[q] = plan[q]
  BY <1>1, <1>8, MInvTypes, Zenon
<1>12. pc'[p] = "walk" /\ seen'[p] = <<>> /\ plan'[p] = new /\ target'[p] = target[p]
  BY <1>1, <1>8, MInvTypes, Zenon
<1>13. Instance(p)'
  BY <1>7, <1>12, Empty, Zenon DEF Instance
<1> QED
  BY <1>1, <1>9, <1>10, <1>11, <1>13, MInvStep, Zenon

\* What AutoMigrate may do to the columns of a table, for an instance.
MayDrop(p, t, c) ==
    AllowDropColumn /\ \A m \in Range(Info[target[p]]) : m.table = t => c \notin Columns(m)

\* A batch, or its first statement, is executed or passed over.
LEMMA ExecEffect ==
    ASSUME MInv, NEW p \in Procs, Exec(p)
    PROVE  /\ TablesOK(tables') /\ PlanOK(target[p], plan'[p]) /\ plan'[p] # plan[p]
           /\ \A t \in Tables : \A c \in DOMAIN tables[t].cols \ DOMAIN tables'[t].cols : MayDrop(p, t, c)
<1> DEFINE q == plan[p]
           b == Head(q)
           portion == Portion(b)
           rest == IF dialect = "postgres" THEN <<>> ELSE Tail(b)
           new == IF rest = <<>> THEN Tail(q) ELSE <<rest>> \o Tail(q)
<1>1. /\ q # <<>> /\ tables' = (IF Skips(p) THEN tables ELSE Executed(tables, portion)[Len(portion)])
      /\ plan'[p] = new
  BY MInvTypes, Zenon DEF Exec
<1>2. PICK S : Statements(S, target[p]) /\ q \in Seq(Batches(S))
  BY MInvTypes, Zenon DEF Instance, PlanOK
<1> HIDE DEF q
<1>3. b \in Batches(S)
  BY <1>1, <1>2
<1>4. /\ portion \in Seq(S) /\ (rest # <<>> => rest \in Batches(S)) /\ rest # b
      /\ \A j \in 1 .. Len(portion) : portion[j] = b[j] /\ j \in 1 .. Len(b)
  <2> HIDE DEF b
  <2> QED
    BY <1>3, PortionRest, Zenon
<1> HIDE DEF rest
<1>5. new \in Seq(Batches(S)) /\ new # q
  BY <1>1, <1>2, <1>4, PlanStep, Zenon
<1> HIDE DEF new, portion, b
<1>6. PlanOK(target[p], plan'[p]) /\ plan'[p] # plan[p]
  BY <1>1, <1>2, <1>5, Zenon DEF PlanOK, q
<1>7. CASE Skips(p)
  <2>1. tables' = tables
    BY <1>1, <1>7, Zenon
  <2> QED
    BY <1>6, <2>1, MInvTypes, Zenon
<1>8. CASE ~Skips(p)
  <2>1. tables' = Executed(tables, portion)[Len(portion)]
    BY <1>1, <1>8, Zenon
  <2>2. /\ TablesOK(tables')
        /\ \A t \in Tables : \A c \in DOMAIN tables[t].cols \ DOMAIN tables'[t].cols : Drops(portion, t, c)
    BY <1>2, <1>4, <2>1, ExecutedKeeps, MInvTypes, Zenon
  <2>3. ASSUME NEW t \in Tables, NEW c \in DOMAIN tables[t].cols \ DOMAIN tables'[t].cols
        PROVE  MayDrop(p, t, c)
    <3>1. PICK j \in 1 .. Len(portion) :
             portion[j].op = "drop_column" /\ portion[j].table = t /\ portion[j].col = c
      BY <2>2, Zenon DEF Drops
    <3>2. j \in 1 .. Len(b) /\ b[j].op = "drop_column" /\ b[j].table = t /\ b[j].col = c
      BY <1>4, <3>1, Zenon
    <3>3. /\ b \in Seq(S) /\ b # <<>>
          /\ Len(b) > 1 => \A i \in 1 .. Len(b) : b[i].op # "drop_column"
      BY <1>3, Zenon DEF Batches
    <3>4. j = 1 /\ b[j] = Head(b) /\ b[j] \in S
      <4>1. ~(Len(b) > 1) /\ Len(b) \in Nat
        BY <3>2, <3>3
      <4> QED
        BY <3>2, <3>3, <4>1
    <3>5. AllowDropColumn
      BY <1>8, <3>2, <3>4, Zenon DEF Skips, b, q
    <3>6. StatementOK(target[p], b[j])
      BY <1>2, <3>4, Zenon DEF Statements
    <3> QED
      BY <3>2, <3>5, <3>6, Zenon DEF StatementOK, MayDrop
  <2> QED
    BY <1>6, <2>2, <2>3, Zenon
<1> QED
  BY <1>7, <1>8, Zenon

\* The execution of a statement keeps the invariant.
LEMMA MInvExec ==
    ASSUME MInv, NEW p \in Procs, Exec(p)
    PROVE  MInv'
<1>1. /\ pc[p] = "walk" /\ UNCHANGED <<pc, target, next, seen, dialect, upcoming, version>>
      /\ \E x : plan' = [plan EXCEPT ![p] = x]
  BY Zenon DEF Exec, conf
<1>2. /\ TablesOK(tables') /\ pc' \in [Procs -> {"idle", "walk", "index"}]
      /\ target' \in [Procs -> DOMAIN ModelsOf] /\ next' \in [Procs -> Nat]
      /\ seen' = [q \in Procs |-> seen'[q]] /\ plan' = [q \in Procs |-> plan'[q]]
  BY <1>1, ExecEffect, MInvTypes, Zenon
<1>3. \A q \in Procs : q # p => /\ target'[q] = target[q] /\ next'[q] = next[q] /\ pc'[q] = pc[q]
                                /\ seen'[q] = seen[q] /\ plan'[q] = plan[q]
  BY <1>1, MInvTypes, Zenon
<1>4. IsFiniteSet(DOMAIN seen'[p]) /\ pc'[p] = "walk" /\ PlanOK(target'[p], plan'[p])
  BY <1>1, ExecEffect, MInvTypes, Zenon DEF Instance
<1>5. Instance(p)'
  BY <1>4, Zenon DEF Instance
<1> QED
  BY <1>1, <1>2, <1>3, <1>5, MInvStep, Zenon

\* AutoMigrate returns.
LEMMA MInvReturn ==
    ASSUME MInv, NEW p \in Procs, Return(p)
    PROVE  MInv'
<1>1. /\ plan[p] = <<>> /\ pc' = [pc EXCEPT ![p] = "idle"]
      /\ UNCHANGED <<tables, plan, target, next, seen, dialect, upcoming, version>>
  BY Zenon DEF Return, conf
<1>2. /\ TablesOK(tables') /\ pc' \in [Procs -> {"idle", "walk", "index"}]
      /\ target' \in [Procs -> DOMAIN ModelsOf] /\ next' \in [Procs -> Nat]
      /\ seen' = [q \in Procs |-> seen'[q]] /\ plan' = [q \in Procs |-> plan'[q]]
  BY <1>1, MInvTypes, Zenon
<1>3. \A q \in Procs : q # p => /\ target'[q] = target[q] /\ next'[q] = next[q] /\ pc'[q] = pc[q]
                                /\ seen'[q] = seen[q] /\ plan'[q] = plan[q]
  BY <1>1, MInvTypes, Zenon
<1>4. IsFiniteSet(DOMAIN seen'[p]) /\ pc'[p] = "idle" /\ plan'[p] = <<>>
  BY <1>1, MInvTypes, Zenon DEF Instance
<1>5. Instance(p)'
  BY <1>4, Empty, Zenon DEF Instance
<1> QED
  BY <1>1, <1>2, <1>3, <1>5, MInvStep, Zenon

\* Every step keeps the invariant.
LEMMA MInvNext ==
    MInv /\ [Next]_vars => MInv'
<1> SUFFICES ASSUME MInv, [Next]_vars PROVE MInv'
  BY Zenon
<1>1. CASE Release
  <2>1. version' = upcoming /\ UNCHANGED <<dialect, upcoming, tables, pc, target, next, seen, plan>>
    BY <1>1, Zenon DEF Release, conf
  <2>2. \A p \in Procs : Instance(p)'
    BY <2>1, MInvTypes, Zenon DEF Instance, More
  <2> QED
    BY <2>1, <2>2, Zenon DEF MInv
<1>2. CASE \E p \in Procs : AutoMigrate(p) \/ Step(p) \/ Fault(p)
  <2> SUFFICES ASSUME NEW p \in Procs, AutoMigrate(p) \/ Step(p) \/ Fault(p) PROVE MInv'
    BY <1>2, Zenon
  <2>1. CASE AutoMigrate(p)
    BY <2>1, MInvAutoMigrate, Zenon
  <2>2. CASE ReadColumns(p)
    BY <2>2, MInvReadColumns, Zenon
  <2>3. CASE ReadIndexes(p)
    BY <2>3, MInvReadIndexes, Zenon
  <2>4. CASE Refuse(p) \/ Reject(p) \/ Fault(p)
    <3>1. Error(p)
      BY <2>4, Zenon DEF Refuse, Reject, Fault
    <3> QED
      BY <3>1, MInvError, Zenon
  <2>5. CASE Exec(p)
    BY <2>5, MInvExec, Zenon
  <2>6. CASE Return(p)
    BY <2>6, MInvReturn, Zenon
  <2> QED
    BY <2>1, <2>2, <2>3, <2>4, <2>5, <2>6, Zenon DEF Step
<1>3. CASE UNCHANGED vars
  <2>1. UNCHANGED <<dialect, upcoming, version, tables, pc, target, next, seen, plan>>
    BY <1>3, Zenon DEF vars, conf
  <2>2. \A p \in Procs : Instance(p)'
    BY <2>1, MInvTypes, Zenon DEF Instance, More
  <2> QED
    BY <2>1, <2>2, Zenon DEF MInv
<1> QED
  BY <1>1, <1>2, <1>3, Zenon DEF Next

-----------------------------------------------------------------------------
(* The theorem.                                                            *)

\* What a step may do to the columns.
DropsOnly ==
    \A t \in Tables : \A c \in DOMAIN tables[t].cols \ DOMAIN tables'[t].cols :
          /\ AllowDropColumn
          /\ \E p \in Procs : plan'[p] # plan[p] /\ \A m \in Range(Info[target[p]]) :
                                 m.table = t => c \notin Columns(m)

\* Only the execution of a statement changes a table.
LEMMA StepDrops ==
    MInv /\ [Next]_vars => [DropsOnly]_vars
<1> SUFFICES ASSUME MInv, Next PROVE DropsOnly
  BY Zenon
<1>1. CASE tables' = tables
  BY <1>1, Zenon DEF DropsOnly
<1>2. CASE tables' # tables
  <2>1. PICK p \in Procs : Exec(p)
    BY <1>2, Zenon DEF Next, Release, AutoMigrate, Step, Fault, Error, ReadColumns, ReadIndexes,
                       Refuse, Reject, Return
  <2>2. /\ plan'[p] # plan[p]
        /\ \A t \in Tables : \A c \in DOMAIN tables[t].cols \ DOMAIN tables'[t].cols : MayDrop(p, t, c)
    BY <2>1, ExecEffect, Zenon
  <2> QED
    BY <2>2, Zenon DEF DropsOnly, MayDrop
<1> QED
  BY <1>1, <1>2, Zenon

\* A column is dropped only when AllowDropColumn is set, and only by an instance
\* none of whose models with that table has the column: for any number of
\* instances, tables and releases, any models and faults.
THEOREM MigrationDropsAllowedOnly == Spec => DropsAllowedOnly
<1>1. DropsAllowedOnly <=> [][DropsOnly]_vars
  BY DEF DropsAllowedOnly, DropsOnly
<1> QED
  BY <1>1, MInvInit, MInvNext, StepDrops, PTL DEF Spec

=============================================================================
