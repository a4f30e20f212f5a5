----------------------------- MODULE SchemaDiff -----------------------------
(* What AutoMigrate generates: the indexes a model declares (metadata.go),   *)
(* the batch that creates a missing table and the statements that take a     *)
(* table to a model (generate.go), and what the introspectors of the three   *)
(* dialects report of a table.                                               *)
(*                                                                           *)
(* A model is [fields, extra]: its columns in order, each                    *)
(* [col, kind, default, tags], and the indexes its Indexes method returns.   *)
(* The primary key column "id" belongs to every model.  A table is           *)
(* [cols, idx]: the definition [type, attrs] of every column and a set of    *)
(* index definitions [name, cols, unique, where].  The order of the columns  *)
(* of an index is never compared by the code: they form a set.  An index     *)
(* name is a tuple: <<>> for none, otherwise the words it is made of.        *)
EXTENDS Integers, Sequences, FiniteSets, Functions

Dialects == {"sqlite", "postgres", "mysql"}
PkName == "id"
NoName == <<>>
NoTable == [cols |-> <<>>, idx |-> {}]    \* a table that does not exist has no columns

\* The SQL type of a Go type: the rows of the mapping a model below uses.
TypeMapping ==
    [mysql |-> [int |-> "INT", int64 |-> "BIGINT", string |-> "VARCHAR(255)"],
     postgres |-> [int |-> "INTEGER", int64 |-> "BIGINT", string |-> "VARCHAR(255)"],
     sqlite |-> [int |-> "INTEGER", int64 |-> "INTEGER", string |-> "TEXT"]]

\* Sequences one after the other.
Concat(ss) ==
    LET upTo[i \in 0 .. Len(ss)] == IF i = 0 THEN <<>> ELSE upTo[i - 1] \o ss[i]
    IN  upTo[Len(ss)]

\* The orders of the elements of a set, and one of them.
Orders(s) == Injection(1 .. Cardinality(s), s)
AnyOrder(s) == CHOOSE o \in Orders(s) : TRUE

Fields(m) == {m.fields[i] : i \in DOMAIN m.fields}
Columns(m) == {f.col : f \in Fields(m)} \cup {PkName}
FieldOf(m, c) == CHOOSE f \in Fields(m) : f.col = c
SqlType(dialect, m, c) ==
    TypeMapping[dialect][IF c = PkName THEN "int64" ELSE FieldOf(m, c).kind]

-----------------------------------------------------------------------------
(* The indexes a model declares.                                             *)

effectiveIndexName(t, idx) ==
    IF idx.name # NoName \/ Cardinality(idx.cols) # 1 THEN idx.name
    ELSE <<IF idx.unique THEN "uniq" ELSE "idx", t, CHOOSE c \in idx.cols : TRUE>>

\* Every index tag of the model, in the order of the fields.
Tags(m) ==
    Concat([i \in DOMAIN m.fields |->
        [j \in DOMAIN m.fields[i].tags |->
            [col |-> m.fields[i].col, unique |-> m.fields[i].tags[j].unique,
             name |-> m.fields[i].tags[j].name]]])

\* Whether the first tag with a name is that of a unique index.
FirstUnique(tags, n) ==
    \E i \in DOMAIN tags : /\ tags[i].name = n /\ tags[i].unique
                           /\ \A j \in 1 .. i - 1 : tags[j].name # n

\* Tags without a name declare an index each.  The columns of the tags with one
\* name are merged; the first tag decides whether the index is unique, and a
\* column tagged the other way is left out.
parseIndexTagFromDb(tags) ==
    {IF tags[i].name = NoName
     THEN [name |-> NoName, cols |-> {tags[i].col}, unique |-> tags[i].unique, where |-> FALSE]
     ELSE [name |-> tags[i].name, unique |-> FirstUnique(tags, tags[i].name), where |-> FALSE,
           cols |-> {tags[j].col : j \in {k \in DOMAIN tags : /\ tags[k].name = tags[i].name
                                              /\ tags[k].unique = FirstUnique(tags, tags[i].name)}}] :
        i \in DOMAIN tags}

\* Mutant: a partial index is never the same as another.
Same_Predicates(a, b) == a.cols = b.cols /\ a.unique = b.unique /\ ~a.where /\ ~b.where

\* Two definitions of an index.  Of a predicate only whether there is one counts.
Same(a, b) == a.cols = b.cols /\ a.unique = b.unique /\ a.where = b.where

validateProgrammaticIndex(m, idx) ==
    /\ idx.cols # {}
    /\ idx.name # NoName \/ Cardinality(idx.cols) = 1
    /\ idx.cols \subseteq Columns(m)

\* Whether the model is refused: an index of its Indexes method is not valid, or
\* has the name of an index declared before it and another definition.
appendProgrammaticIndexes(t, m, tagged) ==
    \E i \in DOMAIN m.extra :
        \/ ~validateProgrammaticIndex(m, m.extra[i])
        \/ \E idx \in tagged \cup {m.extra[j] : j \in 1 .. i - 1} :
              /\ effectiveIndexName(t, idx) = effectiveIndexName(t, m.extra[i])
              /\ ~Same(idx, m.extra[i])

\* An index of the Indexes method that is declared already is not added.
appendIndex(t, m, tagged) ==
    tagged \cup {idx \in {m.extra[i] : i \in DOMAIN m.extra} :
        \A old \in tagged : effectiveIndexName(t, old) # effectiveIndexName(t, idx)}

IndexNames(t, declared) == {effectiveIndexName(t, idx) : idx \in declared} \ {NoName}

\* The declarations that count for a name: two tags may agree on a name without
\* being merged, one of them through the default name; the non-unique ones are
\* entered first, and a unique one does not replace them.
Entered(t, declared, n) ==
    {idx \in declared :
        /\ effectiveIndexName(t, idx) = n
        /\ idx.unique => \A i \in declared : effectiveIndexName(t, i) = n => i.unique}

\* A new table gets one index of the columns of all of them.
Merged(n, entered) ==
    [name |-> n, cols |-> UNION {idx.cols : idx \in entered},
     unique |-> \A idx \in entered : idx.unique, where |-> \E idx \in entered : idx.where]
populateMergedMap(t, declared) ==
    {Merged(n, Entered(t, declared, n)) : n \in IndexNames(t, declared)}

\* An existing table is compared with the first one: names are sorted, and an
\* index without a name comes first.
First(n, entered) ==
    LET idx == CHOOSE i \in entered : i.name = NoName \/ \A j \in entered : j.name # NoName
    IN  [name |-> n, cols |-> idx.cols, unique |-> idx.unique, where |-> idx.where]
populateIndexMap(t, declared) ==
    {First(n, Entered(t, declared, n)) : n \in IndexNames(t, declared)}

\* What is computed of a model once, and kept: whether it is refused, and what
\* the two generators make of the indexes it declares.
ModelInfo(t, m, error, declared) ==
    [table |-> t, fields |-> m.fields, error |-> error,
     partial |-> \E idx \in declared : idx.where,
     merged |-> populateMergedMap(t, declared), indexes |-> populateIndexMap(t, declared),
     clashes |-> {n \in IndexNames(t, declared) : Cardinality(Entered(t, declared, n)) > 1}]
Tagged(t, m, tagged) ==
    ModelInfo(t, m, appendProgrammaticIndexes(t, m, tagged), appendIndex(t, m, tagged))
GetCachedModelInfo(t, m) == Tagged(t, m, parseIndexTagFromDb(Tags(m)))

\* MySQL has no partial indexes: both generators refuse a model with one.
SqlError(dialect, m) == dialect = "mysql" /\ m.partial

-----------------------------------------------------------------------------
(* The statements.  A statement is [op, table, ...].                         *)

CreateTable(m, dialect) ==
    [op |-> "table", table |-> m.table,
     cols |-> [c \in Columns(m) |->
        [type |-> SqlType(dialect, m, c),
         attrs |-> IF c = PkName THEN {"auto"}
                   ELSE {"notnull"} \cup (IF FieldOf(m, c).default THEN {"default"} ELSE {})]]]
AddColumn(m, c, dialect) ==
    [op |-> "add", table |-> m.table, col |-> c,
     def |-> [type |-> SqlType(dialect, m, c),
              attrs |-> IF FieldOf(m, c).default THEN {"default"} ELSE {}]]
DropColumn(m, c) == [op |-> "drop_column", table |-> m.table, col |-> c]
ModifyColumn(m, c, dialect) ==
    [op |-> "modify", table |-> m.table, col |-> c, type |-> SqlType(dialect, m, c)]
generateCreateIndexSQL(m, idx) == [op |-> "index", table |-> m.table, idx |-> idx]
generateDropIndexSQL(m, n) == [op |-> "drop_index", table |-> m.table, name |-> n]

\* The one batch that creates a table and then its indexes, in a fixed order.
GenerateCreateTableSQL(m, dialect) ==
    <<CreateTable(m, dialect)>>
    \o AnyOrder({generateCreateIndexSQL(m, idx) : idx \in m.merged})

\* What the introspectors report of the columns: SQLite has the text of the
\* declarations, the others have names of their own for the types.
SQLiteColumns(cols) == cols
PostgreSQLColumns(cols) ==
    [c \in DOMAIN cols |-> [cols[c] EXCEPT !.type =
        CASE @ = "INTEGER" -> "integer" [] @ = "BIGINT" -> "bigint" [] OTHER -> "character varying"]]
MySQLColumns(cols) ==
    [c \in DOMAIN cols |-> [cols[c] EXCEPT !.type =
        CASE @ = "INT" -> "int" [] @ = "BIGINT" -> "bigint" [] OTHER -> "varchar(255)"]]
GetTableInfo(dialect, cols, idx) ==
    [cols |-> CASE dialect = "sqlite" -> SQLiteColumns(cols)
                [] dialect = "postgres" -> PostgreSQLColumns(cols)
                [] dialect = "mysql" -> MySQLColumns(cols),
     idx |-> idx]

\* Mutant: a missing index is not added.
IndexesToAdd_ReplaceOnly(m, table) ==
    {<<generateDropIndexSQL(m, idx.name), generateCreateIndexSQL(m, idx)>> :
        idx \in {i \in m.indexes : \E old \in table.idx : old.name = i.name /\ ~Same(i, old)}}

\* The statements for the indexes of the model: one to add an index, two to
\* replace one of another definition.
IndexesToAdd(m, table) ==
    {<<generateCreateIndexSQL(m, idx)>> :
        idx \in {i \in m.indexes : \A old \in table.idx : old.name # i.name}}
    \cup
    {<<generateDropIndexSQL(m, idx.name), generateCreateIndexSQL(m, idx)>> :
        idx \in {i \in m.indexes : \E old \in table.idx : old.name = i.name /\ ~Same(i, old)}}

\* An index of the table goes when the model has neither its name nor, under
\* another name, its definition.
IndexesToDrop(m, table) ==
    {generateDropIndexSQL(m, old.name) :
        old \in {i \in table.idx : \A idx \in m.indexes : idx.name # i.name /\ ~Same(idx, i)}}

\* The columns are added before others go and change, the indexes come last.  The
\* code walks maps: any order of the columns added, for example.  The types of different columns change independently of each other: one of the
\* orders stands for all.
StatementOrders(added, dropped, modified, indexed, unindexed) ==
    {a \o d \o AnyOrder(modified) \o Concat(i) \o o :
        a \in Orders(added), d \in Orders(dropped), i \in Orders(indexed), o \in Orders(unindexed)}

GenerateAlterTableSQL(m, table, dialect) ==
    StatementOrders({AddColumn(m, c, dialect) : c \in Columns(m) \ DOMAIN table.cols},
                    {DropColumn(m, c) : c \in DOMAIN table.cols \ Columns(m)},
                    {ModifyColumn(m, c, dialect) : c \in {d \in Columns(m) \cap DOMAIN table.cols :
                        table.cols[d].type # SqlType(dialect, m, d)}},
                    IndexesToAdd(m, table), IndexesToDrop(m, table))

=============================================================================
