------------------------------ MODULE Migration -----------------------------
(* AutoMigrate (migrate.go): instances of an application, each of which      *)
(* migrates the tables to the release it runs, one statement at a time and   *)
(* without a transaction.  Any statement may fail, an instance may be killed *)
(* between two of them, two instances may migrate at the same time and, when *)
(* a release is rolled out meanwhile, to different releases.                 *)
EXTENDS SchemaDiff

CONSTANTS
    Procs,       \* the instances of the application
    Tables,
    ModelsOf,    \* the arguments of AutoMigrate in each release: [table, model] pairs
    Rollouts,    \* pairs of releases: the first one, and the one rolled out later
    MaxFaults    \* how many calls to the database fail, or instances are killed

\* The models of a release have a table each.
ASSUME MigrationAssumption ==
    /\ Rollouts \subseteq (DOMAIN ModelsOf) \X (DOMAIN ModelsOf)
    /\ \A v \in DOMAIN ModelsOf :
         /\ ModelsOf[v] \in Seq(Range(ModelsOf[v]))
         /\ \A i, j \in DOMAIN ModelsOf[v] : ModelsOf[v][i].table = ModelsOf[v][j].table => i = j
         /\ \A i \in DOMAIN ModelsOf[v] :
              LET m == ModelsOf[v][i].model
              IN  /\ ModelsOf[v][i].table \in Tables
                  /\ m.fields \in Seq(Fields(m)) /\ m.extra \in Seq(Range(m.extra))
                  /\ \A f \in Fields(m) : f.tags \in Seq(Range(f.tags))

\* The cached information on every model.
Info == [v \in DOMAIN ModelsOf |-> [i \in DOMAIN ModelsOf[v] |->
            GetCachedModelInfo(ModelsOf[v][i].table, ModelsOf[v][i].model)]]

VARIABLES
    dialect,     \* the database and, for MySQL, whether its driver runs batches
    multi,
    AllowDropColumn,
    tables,      \* the tables of the database
    version,     \* the release that is rolled out
    upcoming,    \* the release that comes after it
    pc,          \* "idle", "walk", or "index": columns read and indexes not
    target,      \* the release an instance migrates to, or last migrated to
    next,        \* how many models have been looked at
    seen,        \* the columns the introspector has read
    plan,        \* the batches not yet executed
    outcome,     \* how the last AutoMigrate of an instance ended
    clean,       \* whether it began with nothing to do, and no other changed that
    faults

conf == <<dialect, multi, AllowDropColumn, upcoming>>
vars == <<conf, tables, version, pc, target, next, seen, plan, outcome, clean, faults>>

Init ==
    /\ dialect \in Dialects
    /\ multi \in IF dialect = "mysql" THEN BOOLEAN ELSE {FALSE}
    /\ AllowDropColumn \in BOOLEAN
    /\ tables = [t \in Tables |-> NoTable]
    /\ \E r \in Rollouts : version = r[1] /\ upcoming = r[2]
    /\ pc = [p \in Procs |-> "idle"]
    /\ target = [p \in Procs |-> version]
    /\ next = [p \in Procs |-> 0]
    /\ seen = [p \in Procs |-> <<>>]
    /\ plan = [p \in Procs |-> <<>>]
    /\ outcome = [p \in Procs |-> "none"]
    /\ clean = [p \in Procs |-> FALSE]
    /\ faults = 0

\* The next release is rolled out; running instances are not stopped.
Release ==
    /\ version # upcoming
    /\ version' = upcoming
    /\ UNCHANGED <<conf, tables, pc, target, next, seen, plan, outcome, clean, faults>>

\* Every instance has migrated to the release, and none is migrating.
Settled == \A p \in Procs : pc[p] = "idle" /\ outcome[p] = "ok" /\ target[p] = version

\* An instance starts, or restarts, and calls AutoMigrate with all its models.
\* One that is up to date restarts only when all are.
Behind(p) == outcome[p] # "ok" \/ target[p] # version
AutoMigrate(p) ==
    /\ pc[p] = "idle" /\ (Behind(p) \/ Settled)
    /\ pc' = [pc EXCEPT ![p] = "walk"]
    /\ target' = [target EXCEPT ![p] = version]
    /\ next' = [next EXCEPT ![p] = 0]
    /\ outcome' = [outcome EXCEPT ![p] = "none"]
    /\ clean' = [clean EXCEPT ![p] = Settled]
    /\ UNCHANGED <<conf, tables, version, seen, plan, faults>>

\* AutoMigrate returns an error: nothing is undone, the rest is not tried.
Error(p) ==
    /\ pc' = [pc EXCEPT ![p] = "idle"]
    /\ outcome' = [outcome EXCEPT ![p] = "error"]
    /\ next' = [next EXCEPT ![p] = 0]
    /\ seen' = [seen EXCEPT ![p] = <<>>]
    /\ plan' = [plan EXCEPT ![p] = <<>>]
    /\ UNCHANGED <<conf, tables, version, target, clean>>

More(p) == next[p] < Len(Info[target[p]])
Current(p) == Info[target[p]][next[p] + 1]

\* The model is looked at, then the columns of its table are read.
ReadColumns(p) ==
    LET m == Current(p)
        t == m.table
    IN  /\ pc[p] = "walk" /\ plan[p] = <<>> /\ More(p)
        /\ ~m.error
        /\ ~(tables[t] = NoTable /\ SqlError(dialect, m))
        /\ IF tables[t] = NoTable
           THEN /\ plan' = [plan EXCEPT ![p] = <<GenerateCreateTableSQL(m, dialect)>>]
                /\ next' = [next EXCEPT ![p] = @ + 1]
                /\ UNCHANGED <<seen, pc>>
           ELSE /\ seen' = [seen EXCEPT ![p] = tables[t].cols]
                /\ pc' = [pc EXCEPT ![p] = "index"]
                /\ UNCHANGED <<plan, next>>
        /\ UNCHANGED <<conf, tables, version, target, outcome, clean, faults>>

\* Its indexes are read, with a query of their own, and the two are compared
\* with the model.
ReadIndexes(p) ==
    LET m == Current(p)
        t == m.table
    IN  /\ pc[p] = "index"
        /\ ~SqlError(dialect, m)
        /\ \E s \in GenerateAlterTableSQL(m,
                        GetTableInfo(dialect, seen[p], tables[t].idx), dialect) :
              plan' = [plan EXCEPT ![p] = [i \in DOMAIN s |-> <<s[i]>>]]
        /\ next' = [next EXCEPT ![p] = @ + 1]
        /\ pc' = [pc EXCEPT ![p] = "walk"]
        /\ seen' = [seen EXCEPT ![p] = <<>>]
        /\ UNCHANGED <<conf, tables, version, target, outcome, clean, faults>>

\* The model, or the statements for it, are refused before anything is executed.
Refuse(p) ==
    LET m == Current(p)
        t == m.table
    IN  /\ pc[p] # "idle" /\ plan[p] = <<>> /\ More(p)
        /\ \/ pc[p] = "walk" /\ m.error
           \/ pc[p] = "walk" /\ tables[t] = NoTable /\ SqlError(dialect, m)
           \/ pc[p] = "index" /\ SqlError(dialect, m)
        /\ Error(p)
        /\ UNCHANGED faults

-----------------------------------------------------------------------------
(* The database.  The names of indexes belong to a table in MySQL, and to    *)
(* the whole schema in the others, where they are created IF NOT EXISTS and  *)
(* dropped IF EXISTS.                                                        *)

Named(all, n) == {t \in Tables : \E idx \in all[t].idx : idx.name = n}
Uses(tab, c) == {idx \in tab.idx : c \in idx.cols}

\* PostgreSQL does not convert text to a number by itself.
Castable(from, to) == dialect = "postgres" /\ from = "VARCHAR(255)" => to = from

\* Whether a statement is accepted when the tables are all.
Accepts(all, s) ==
    LET tab == all[s.table]
        cols == DOMAIN tab.cols
    IN  CASE s.op = "table" -> TRUE
          [] s.op = "add" -> cols # {} /\ s.col \notin cols
          [] s.op = "drop_column" -> s.col \in cols /\ (dialect = "sqlite" => Uses(tab, s.col) = {})
          [] s.op = "modify" ->
                /\ dialect # "sqlite" /\ s.col \in cols
                /\ Castable(tab.cols[s.col].type, s.type)
          [] s.op = "index" ->
                \/ s.idx.cols \subseteq cols /\ (dialect = "mysql" => s.table \notin Named(all, s.idx.name))
                \/ dialect = "sqlite" /\ Named(all, s.idx.name) # {}
          [] s.op = "drop_index" -> dialect = "mysql" => s.table \in Named(all, s.name)

\* What is left of the indexes of a table when a column goes.
IndexesWithout(idx, c) ==
    IF dialect = "mysql"
    THEN {i \in {[j EXCEPT !.cols = @ \ {c}] : j \in idx} : i.cols # {}}
    ELSE {i \in idx : c \notin i.cols}

Execute(all, s) ==
    LET t == s.table
        tab == all[t]
    IN  CASE s.op = "table" -> IF tab = NoTable THEN [all EXCEPT ![t] = [cols |-> s.cols, idx |-> {}]] ELSE all
          [] s.op = "add" -> [all EXCEPT ![t].cols = [c \in DOMAIN tab.cols \cup {s.col} |->
                                  IF c = s.col THEN s.def ELSE tab.cols[c]]]
          [] s.op = "drop_column" ->
                [all EXCEPT ![t] = [cols |-> [c \in DOMAIN tab.cols \ {s.col} |-> tab.cols[c]],
                                    idx |-> IndexesWithout(tab.idx, s.col)]]
          [] s.op = "modify" ->
                [all EXCEPT ![t].cols[s.col] =
                    [type |-> s.type, attrs |-> IF dialect = "mysql" THEN {} ELSE @.attrs]]
          [] s.op = "index" ->
                IF dialect # "mysql" /\ Named(all, s.idx.name) # {} THEN all
                ELSE [all EXCEPT ![t].idx = @ \cup {s.idx}]
          [] s.op = "drop_index" ->
                [u \in Tables |-> IF dialect = "mysql" /\ u # t THEN all[u]
                                  ELSE [all[u] EXCEPT !.idx = {i \in @ : i.name # s.name}]]

\* The tables after each of the statements.
Executed(all, batch) ==
    LET after[i \in 0 .. Len(batch)] == IF i = 0 THEN all ELSE Execute(after[i - 1], batch[i])
    IN  after

\* PostgreSQL executes a batch as one transaction, SQLite and MySQL statement by
\* statement; the MySQL driver refuses a batch unless it is told otherwise.
Portion(batch) == IF dialect = "postgres" THEN batch ELSE <<Head(batch)>>
Runnable(batch) ==
    /\ \A i \in DOMAIN Portion(batch) :
          Accepts(Executed(tables, batch)[i - 1], batch[i])
    /\ dialect = "mysql" /\ Len(batch) > 1 => multi

\* Mutant: AllowDropColumn is not looked at.
Skips_Never(p) == FALSE

\* A DROP COLUMN is passed over unless it is allowed.
Skips(p) == Head(Head(plan[p])).op = "drop_column" /\ ~AllowDropColumn

Exec(p) ==
    LET batch == Head(plan[p])
        portion == Portion(batch)
        rest == IF dialect = "postgres" THEN <<>> ELSE Tail(batch)
    IN  /\ pc[p] = "walk" /\ plan[p] # <<>>
        /\ Skips(p) \/ Runnable(batch)
        /\ tables' = IF Skips(p) THEN tables ELSE Executed(tables, portion)[Len(portion)]
        /\ plan' = [plan EXCEPT ![p] = IF rest = <<>> THEN Tail(@) ELSE <<rest>> \o Tail(@)]
        /\ clean' = [q \in Procs |-> clean[q] /\ (q = p \/ tables' = tables)]
        /\ UNCHANGED <<conf, version, pc, target, next, seen, outcome, faults>>

\* Mutant: a statement that fails is only logged.
Reject_GoesOn(p) ==
    /\ pc[p] = "walk" /\ plan[p] # <<>>
    /\ ~Skips(p) /\ ~Runnable(Head(plan[p]))
    /\ plan' = [plan EXCEPT ![p] = Tail(@)]
    /\ UNCHANGED <<conf, tables, version, pc, target, next, seen, outcome, clean, faults>>

\* The database refuses the statement.
Reject(p) ==
    /\ pc[p] = "walk" /\ plan[p] # <<>>
    /\ ~Skips(p) /\ ~Runnable(Head(plan[p]))
    /\ Error(p)
    /\ UNCHANGED faults

\* A call to the database fails, or the instance is killed.
Fault(p) ==
    /\ pc[p] # "idle" /\ faults < MaxFaults
    /\ Error(p)
    /\ faults' = faults + 1

Return(p) ==
    /\ pc[p] = "walk" /\ plan[p] = <<>> /\ ~More(p)
    /\ pc' = [pc EXCEPT ![p] = "idle"]
    /\ outcome' = [outcome EXCEPT ![p] = "ok"]
    /\ UNCHANGED <<conf, tables, version, target, next, seen, plan, clean, faults>>

Step(p) ==
    \/ ReadColumns(p) \/ ReadIndexes(p) \/ Refuse(p)
    \/ Exec(p) \/ Reject(p) \/ Return(p)

Next ==
    \/ Release
    \/ \E p \in Procs : AutoMigrate(p) \/ Step(p) \/ Fault(p)

Spec == Init /\ [][Next]_vars

\* A call returns, and an instance whose AutoMigrate failed, or that runs
\* another release than the one rolled out, is restarted.
FairSpec ==
    /\ Spec
    /\ \A p \in Procs : WF_vars(Step(p)) /\ WF_vars(Behind(p) /\ AutoMigrate(p))

-----------------------------------------------------------------------------
(* Properties.                                                               *)

\* The names that releases give to indexes of two tables.
Shared ==
    LET names(t) == {idx.name : idx \in UNION {UNION {m.indexes : m \in
                        {i \in Range(Info[v]) : i.table = t}} : v \in DOMAIN Info}}
    IN  UNION {UNION {names(t) \cap names(u) : u \in Tables \ {t}} : t \in Tables}

Synced(m) ==
    LET tab == tables[m.table]
    IN  /\ Columns(m) \subseteq DOMAIN tab.cols
        /\ AllowDropColumn => Columns(m) = DOMAIN tab.cols
        /\ \A c \in Columns(m) : tab.cols[c].type = SqlType(dialect, m, c)
        /\ \A idx \in m.indexes : idx.name \notin Shared \cup m.clashes => idx \in tab.idx
        /\ \A idx \in tab.idx : \E i \in m.indexes : i.name = idx.name \/ Same(i, idx)
AllSynced == \A i \in DOMAIN Info[version] : Synced(Info[version][i])

\* Once every instance's AutoMigrate has returned without an error, the tables
\* have the columns, the types and the indexes of the models, whatever failed,
\* ran concurrently or migrated to another release before.  Left out are the
\* names of indexes that two tables use, or that two tags share unmerged.
SuccessMeansSynced == Settled => AllSynced

\* A column is dropped only when that is allowed, and only by an instance whose
\* own model does not have it, whatever the tables were when it read them.
DropsAllowedOnly ==
    [][\A t \in Tables : \A c \in DOMAIN tables[t].cols \ DOMAIN tables'[t].cols :
          /\ AllowDropColumn
          /\ \E p \in Procs : plan'[p] # plan[p] /\ \A m \in Range(Info[target[p]]) :
                                 m.table = t => c \notin Columns(m)]_vars

\* Calling AutoMigrate again changes nothing.  MySQL is left out: there every
\* column is modified each time, and loses its attributes the second time.
RepeatChangesNothing ==
    [][\A p \in Procs :
          /\ dialect # "mysql" /\ clean[p] /\ plan[p] # <<>> /\ plan'[p] # plan[p]
          /\ \A m \in Range(Info[target[p]]) : m.clashes = {}
          => tables' = tables]_vars

\* What no retry can cure: a model that is refused, a type SQLite cannot change
\* or PostgreSQL not convert, a column SQLite will not drop because the index
\* on it is dropped later, a batch the MySQL driver does not run.
Stuck ==
    \/ \E m \in Range(Info[version]) : m.error \/ SqlError(dialect, m)
    \/ \E p \in Procs :
          /\ plan[p] # <<>> /\ ~Skips(p) /\ ~Runnable(Head(plan[p]))
          /\ LET s == Head(Head(plan[p]))
             IN  \/ dialect = "mysql" /\ Len(Head(plan[p])) > 1
                 \/ s.op = "modify" /\ s.col \in DOMAIN tables[s.table].cols
                 \/ s.op = "drop_column" /\ Uses(tables[s.table], s.col) # {}

\* A release that stays is migrated to: an AutoMigrate that failed half way, or
\* raced another, is completed by calling it again, unless the same statement
\* is refused again and again.
EventuallyMigrated ==
    <>[]AllSynced \/ []<>Stuck

=============================================================================
